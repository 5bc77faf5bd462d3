--------------------------- MODULE HandlersProofs ---------------------------
(***************************************************************************)
(* What is proved about the modules of requests: of each handler module,    *)
(* for any sets of requests, endpoints and rows.  A section opens with what *)
(* its invariant says.  The first is shared: while no two requests overlap, *)
(* the others are idle at every step, so that what a request has read is    *)
(* still so when it writes.                                                 *)
(***************************************************************************)
EXTENDS Hours, Defaults, Menu, Referrals, Sessions, Vetting, Engagement,
        Cart, BhojAi, Api, Inbox, Listings, FiniteSetsExt, Sums, SequenceTheorems, TLAPS

-----------------------------------------------------------------------------
(* Requests, one by one or not *)

Tracked == DOMAIN req = Requests /\ overlapped \in BOOLEAN

OneByOne == \A q, r \in InFlight : q = r

(* Until two requests overlap, at most one is in flight. *)
Serial == Tracked /\ (~overlapped => OneByOne)

LEMMA GotoOK ==
    ASSUME Tracked, NEW r \in Requests, NEW frame, Goto(r, frame)
    PROVE  /\ Tracked'
           /\ req'[r] = frame /\ \A q \in Requests \ {r} : req'[q] = req[q]
           /\ ~overlapped' => ~overlapped /\ (frame # Idle => InFlight \subseteq {r})
BY DEF Tracked, Goto, Others, InFlight

LEMMA GotoSerial ==
    ASSUME Serial, NEW r \in Requests, NEW frame, Goto(r, frame)
    PROVE  Serial'
<1>1. /\ Tracked' /\ req'[r] = frame /\ \A q \in Requests \ {r} : req'[q] = req[q]
      /\ ~overlapped' => ~overlapped /\ (frame # Idle => InFlight \subseteq {r})
    BY GotoOK DEF Serial
<1>2. ASSUME ~overlapped' PROVE OneByOne'
    <2>1. OneByOne /\ (frame # Idle => InFlight \subseteq {r})
        BY <1>1, <1>2 DEF Serial
    <2>2. frame = Idle => InFlight' \subseteq InFlight
        BY <1>1 DEF InFlight, At, Idle
    <2>3. frame # Idle => InFlight' \subseteq {r}
        BY <1>1, <2>1 DEF InFlight, At
    <2>4. QED
        BY <2>1, <2>2, <2>3 DEF OneByOne
<1>3. QED
    BY <1>1, <1>2 DEF Serial

(* The steps of a request that is alone: no other is in flight before or after. *)
LEMMA OthersIdle ==
    ASSUME Serial, NEW r \in Requests, NEW frame, Goto(r, frame), ~overlapped',
           ~At(r, "idle") \/ frame # Idle
    PROVE  ~overlapped /\ \A q \in Requests \ {r} : At(q, "idle") /\ req'[q].at = "idle"
<1>1. /\ req'[r] = frame /\ \A q \in Requests \ {r} : req'[q] = req[q]
      /\ ~overlapped /\ (frame # Idle => InFlight \subseteq {r})
    BY GotoOK DEF Serial
<1>2. ASSUME NEW q \in Requests \ {r} PROVE At(q, "idle")
    BY <1>1 DEF Serial, OneByOne, InFlight
<1>3. QED
    BY <1>1, <1>2 DEF At

(* A call of one statement counts as alone only when nothing is in flight. *)
LEMMA InstantSerial ==
    ASSUME Serial, NEW call, Instant(call)
    PROVE  /\ Serial' /\ req' = req
           /\ ~overlapped' => ~overlapped /\ \A q \in Requests : At(q, "idle") /\ At(q, "idle")'
<1>1. req' = req /\ overlapped' = (overlapped \/ InFlight # {})
    BY DEF Instant
<1>2. QED
    BY <1>1 DEF Serial, Tracked, OneByOne, InFlight, At

LEMMA InitSerial ==
    ASSUME HandlersInit
    PROVE  Serial /\ \A r \in Requests : At(r, "idle")
<1>1. Tracked /\ \A r \in Requests : At(r, "idle")
    BY DEF HandlersInit, Tracked, Idle, At
<1>2. QED
    BY <1>1 DEF Serial, OneByOne, InFlight

LEMMA SetOfOne ==
    ASSUME NEW S, \A x, y \in S : x = y
    PROVE  Cardinality(S) <= 1
<1>1. CASE S = {}
    BY <1>1, FS_EmptySet
<1>2. CASE S # {}
    <2>1. PICK x \in S : TRUE
        BY <1>2
    <2>2. S = {x}
        BY <2>1
    <2>3. QED
        BY <2>2, FS_Singleton
<1>3. QED
    BY <1>1, <1>2

(* A set of positions has a last one. *)
LEMMA LastIsThere ==
    ASSUME NEW n \in Nat, NEW S \in SUBSET (1..n), S # {}
    PROVE  Max(S) \in S /\ \A x \in S : Max(S) >= x
<1> DEFINE Has(T) == \E x \in T : \A y \in T : x >= y
           N == {m \in Nat : \A T \in SUBSET (1..m) : T # {} => Has(T)}
<1>1. 0 \in N
    <2>1. \A T \in SUBSET (1..0) : T = {}
        OBVIOUS
    <2>2. QED
        BY <2>1
<1>2. ASSUME NEW m \in N PROVE m + 1 \in N
    <2> SUFFICES ASSUME NEW T \in SUBSET (1..m + 1), T # {} PROVE Has(T)
        OBVIOUS
    <2>1. CASE m + 1 \in T
        BY <2>1
    <2>2. CASE m + 1 \notin T
        <3>1. T \in SUBSET (1..m)
            BY <2>2
        <3>2. QED
            BY <3>1
    <2>3. QED
        BY <2>1, <2>2
<1>3. N = Nat
    <2> HIDE DEF Has
    <2>1. N \in SUBSET Nat
        OBVIOUS
    <2> HIDE DEF N
    <2>2. QED
        BY <1>1, <1>2, <2>1, NatSets
<1>4. Has(S)
    BY <1>3
<1>5. QED
    BY <1>4 DEF Max

-----------------------------------------------------------------------------
(* Hours.  A row that is not there counts as open: writing it changes no       *)
(* answer.                                                                      *)

LEMMA HoursTracked == Tracked /\ [HoursNext]_<<hoursVars, handlerVars>> => Tracked'
<1> SUFFICES ASSUME Tracked, [HoursNext]_<<hoursVars, handlerVars>> PROVE Tracked'
    OBVIOUS
<1>1. CASE HoursAlone
    BY <1>1 DEF Tracked, HoursAlone, UpdateDay, UpsertHoliday, RemoveHoliday, UpdateProfile,
                SetAcceptingOrders, Instant
<1>2. ASSUME NEW r \in Requests, HoursStep(r) \/ Abort(r) PROVE Tracked'
    <2>1. \E frame : Goto(r, frame)
        BY <1>2 DEF HoursStep, GetWeekly, Backfill, Begin, Abort, End
    <2>2. QED
        BY <2>1, GotoOK
<1>3. CASE UNCHANGED <<hoursVars, handlerVars>>
    BY <1>3 DEF Tracked, handlerVars
<1>4. QED
    BY <1>1, <1>2, <1>3 DEF HoursNext

(* A day without a row is open when the legacy window is, and the row it gets  *)
(* holds just that window.                                                     *)
LEMMA FilledAlike ==
    ASSUME NEW r \in Requests, Backfill(r), req[r].window = legacy,
           NEW d \in Week, NEW m \in Minutes
    PROVE  (IsKitchenOpen(d, m)') <=> IsKitchenOpen(d, m)
<1>1. holiday' = holiday /\ legacy' = legacy
    BY DEF Backfill
<1>2. week'[d] = IF week[d].given THEN week[d] ELSE Row({legacy})
    BY DEF Backfill
<1>3. CASE week[d].given
    <2>1. week'[d] = week[d]
        BY <1>2, <1>3
    <2>2. QED
        BY <1>1, <1>3, <2>1 DEF IsKitchenOpen, IsOpenInSessions
<1>4. CASE ~week[d].given
    <2>1. week'[d] = Row({legacy}) /\ week'[d].given
        BY <1>2, <1>4 DEF Row
    <2>2. IsOpenInSessions(Row({legacy}), m) <=> IsWithinSession(legacy, m)
        BY DEF IsOpenInSessions, Row
    <2>3. QED
        BY <1>1, <1>4, <2>1, <2>2 DEF IsKitchenOpen, IsOpenInSessions
<1>5. QED
    BY <1>3, <1>4

(* A request that was filling the schedule in and is idle now has filled it in, *)
(* or was killed.                                                               *)
LEMMA OnlyBackfillEnds ==
    ASSUME Tracked, HoursNext, NEW r \in Requests, At(r, "backfill"), req'[r].at = "idle"
    PROVE  Backfill(r) \/ UNCHANGED hoursVars
<1>1. CASE HoursAlone
    BY <1>1 DEF HoursAlone, UpdateDay, UpsertHoliday, RemoveHoliday, UpdateProfile,
                SetAcceptingOrders, Instant, At
<1>2. ASSUME NEW q \in Requests, HoursStep(q), ~UNCHANGED hoursVars PROVE Backfill(r)
    <2>1. Backfill(q)
        BY <1>2 DEF HoursStep, GetWeekly
    <2>2. Goto(q, Idle)
        BY <2>1 DEF Backfill, End
    <2>3. q = r
        BY <2>2, GotoOK DEF At
    <2>4. QED
        BY <2>1, <2>3
<1>3. QED
    BY <1>1, <1>2 DEF HoursNext

(* "A kitchen with zero rows sees no change at all": filling the schedule in      *)
(* changes no minute of any day at which the kitchen is open.                     *)
THEOREM BackfillIsInvisible == HoursSpec => BackfillKeepsHours
<1> DEFINE Filling == \E r \in Requests : At(r, "backfill") /\ req[r].window = legacy /\ req'[r].at = "idle"
           Same == \A d \in Week, m \in Minutes : (IsKitchenOpen(d, m)') <=> IsKitchenOpen(d, m)
<1>1. HandlersInit /\ HoursInit => Tracked
    BY InitSerial DEF Serial
<1>2. Tracked /\ [HoursNext]_<<hoursVars, handlerVars>> => [legacy' = legacy /\ Filling => Same]_hoursVars
    <2> SUFFICES ASSUME Tracked, HoursNext, Filling, ~UNCHANGED hoursVars PROVE Same
        BY DEF hoursVars, handlerVars
    <2>1. PICK r \in Requests : At(r, "backfill") /\ req[r].window = legacy /\ req'[r].at = "idle"
        OBVIOUS
    <2>2. Backfill(r)
        BY <2>1, OnlyBackfillEnds
    <2>3. QED
        BY <2>1, <2>2, FilledAlike
<1>3. QED
    BY <1>1, <1>2, HoursTracked, PTL DEF HoursSpec, BackfillKeepsHours

-----------------------------------------------------------------------------
(* Defaults.  Alone, a request keeps one default entry at most; between its     *)
(* two writes there is none.                                                    *)

EntriesOK ==
    /\ unset \in BOOLEAN
    /\ saved \in [Keys -> {"NONE", "PLAIN", "DEFAULT"}]

(* A request in flight is at one of three steps and knows its entry. *)
EntriesFramed ==
    \A r \in Requests :
        \/ At(r, "idle")
        \/ /\ req[r].at \in {"put", "flag", "remove"}
           /\ req[r].key \in Keys /\ req[r].isDefault \in BOOLEAN

AtMostOne == \A j, k \in Keys : saved[j] = "DEFAULT" /\ saved[k] = "DEFAULT" => j = k

SomeDefault == (\E k \in Keys : saved[k] # "NONE") /\ ~unset => \E k \in Keys : saved[k] = "DEFAULT"

(* What the requests have read. *)
EntriesCurrent ==
    \A r \in Requests :
        /\ At(r, "put") => req[r].isDefault \/ \E k \in Keys : saved[k] # "NONE"
        /\ At(r, "remove") => (req[r].isDefault <=> saved[req[r].key] = "DEFAULT")

EntriesAlone == AtMostOne /\ SomeDefault /\ EntriesCurrent

DefaultsInv == Serial /\ EntriesOK /\ EntriesFramed /\ (~overlapped => EntriesAlone)

-----------------------------------------------------------------------------
(* What the helpers of the actions do *)

LEMMA PutOK ==
    ASSUME EntriesOK, NEW k \in Keys, NEW isDefault \in BOOLEAN, PutRow(k, isDefault)
    PROVE  /\ saved' \in [Keys -> {"NONE", "PLAIN", "DEFAULT"}] /\ unset' \in BOOLEAN
           /\ saved'[k] = IF isDefault THEN "DEFAULT" ELSE "PLAIN"
           /\ \A j \in Keys \ {k} :
                 saved'[j] = IF isDefault /\ saved[j] = "DEFAULT" THEN "PLAIN" ELSE saved[j]
           /\ unset' <=> (\A j \in Keys : saved'[j] # "DEFAULT") /\ (unset \/ saved[k] = "DEFAULT")
BY DEF EntriesOK, PutRow, Flag, DefaultsOf

(* Putting an entry keeps the list with one default, once the first entry of a *)
(* list is the default.                                                        *)
LEMMA PutKeepsOne ==
    ASSUME EntriesOK, AtMostOne, SomeDefault, NEW k \in Keys, NEW isDefault \in BOOLEAN,
           PutRow(k, isDefault), isDefault \/ \E j \in Keys : saved[j] # "NONE"
    PROVE  AtMostOne' /\ SomeDefault'
<1>1. AtMostOne'
    BY PutOK DEF AtMostOne, EntriesOK
<1>2. SomeDefault'
    <2> SUFFICES ASSUME ~unset', \A j \in Keys : saved'[j] # "DEFAULT" PROVE FALSE
        BY DEF SomeDefault
    <2>1. ~isDefault /\ ~unset /\ saved[k] # "DEFAULT"
        BY PutOK DEF EntriesOK
    <2>2. PICK j \in Keys : saved[j] = "DEFAULT"
        BY <2>1 DEF SomeDefault
    <2>3. saved'[j] = "DEFAULT"
        BY <2>1, <2>2, PutOK
    <2>4. QED
        BY <2>3
<1>3. QED
    BY <1>1, <1>2

-----------------------------------------------------------------------------
(* Steps *)

(* A request begins: it reads, and the list stays. *)
LEMMA BeginEntry ==
    ASSUME DefaultsInv, NEW r \in Requests, NEW frame, At(r, "idle"), Goto(r, frame), UNCHANGED defaultsVars,
           frame.at \in {"put", "flag", "remove"}, frame.key \in Keys, frame.isDefault \in BOOLEAN,
           frame.at = "put" => frame.isDefault \/ \E k \in Keys : saved[k] # "NONE",
           frame.at = "remove" => (frame.isDefault <=> saved[frame.key] = "DEFAULT")
    PROVE  DefaultsInv'
<1>1. EntriesOK' /\ Serial'
    BY GotoSerial DEF DefaultsInv, EntriesOK, defaultsVars
<1>2. req'[r] = frame /\ \A q \in Requests \ {r} : req'[q] = req[q]
    BY GotoOK DEF DefaultsInv, Serial
<1>3. EntriesFramed'
    BY <1>2 DEF DefaultsInv, EntriesFramed, At
<1>4. ASSUME ~overlapped' PROVE EntriesAlone'
    <2>1. ~overlapped /\ \A q \in Requests \ {r} : req'[q].at = "idle"
        BY <1>4, OthersIdle DEF DefaultsInv, Idle
    <2>2. EntriesCurrent'
        BY <1>2, <2>1 DEF EntriesCurrent, At, defaultsVars
    <2>3. AtMostOne' /\ SomeDefault'
        BY <2>1 DEF DefaultsInv, EntriesAlone, AtMostOne, SomeDefault, defaultsVars
    <2>4. QED
        BY <2>2, <2>3 DEF EntriesAlone
<1>5. QED
    BY <1>1, <1>3, <1>4 DEF DefaultsInv

(* A request ends: it has written, or leaves the list as it is. *)
LEMMA EndEntry ==
    ASSUME DefaultsInv, NEW r \in Requests, ~At(r, "idle"), End(r),
           saved' \in [Keys -> {"NONE", "PLAIN", "DEFAULT"}], unset' \in BOOLEAN,
           ~overlapped => AtMostOne' /\ SomeDefault'
    PROVE  DefaultsInv'
<1>1. EntriesOK' /\ Serial'
    BY GotoSerial DEF DefaultsInv, EntriesOK, End
<1>2. req'[r] = Idle /\ \A q \in Requests \ {r} : req'[q] = req[q]
    BY GotoOK DEF DefaultsInv, Serial, End
<1>3. EntriesFramed'
    BY <1>2 DEF DefaultsInv, EntriesFramed, At, Idle
<1>4. ASSUME ~overlapped' PROVE EntriesAlone'
    <2>1. ~overlapped /\ \A q \in Requests \ {r} : req'[q].at = "idle"
        BY <1>4, OthersIdle DEF DefaultsInv, End
    <2>2. EntriesCurrent'
        BY <1>2, <2>1 DEF EntriesCurrent, At, Idle
    <2>3. QED
        BY <2>1, <2>2 DEF EntriesAlone
<1>5. QED
    BY <1>1, <1>3, <1>4 DEF DefaultsInv

LEMMA PutEntryKeeps == ASSUME DefaultsInv, NEW r \in Requests, PutEntry(r) PROVE DefaultsInv'
<1>1. At(r, "put") /\ End(r) /\ PutRow(req[r].key, req[r].isDefault)
    BY DEF PutEntry
<1>2. ~At(r, "idle") /\ req[r].key \in Keys /\ req[r].isDefault \in BOOLEAN
    BY <1>1 DEF DefaultsInv, EntriesFramed, At
<1>3. ~overlapped => req[r].isDefault \/ \E k \in Keys : saved[k] # "NONE"
    BY <1>1 DEF DefaultsInv, EntriesAlone, EntriesCurrent
<1>4. ~overlapped => AtMostOne' /\ SomeDefault'
    BY <1>1, <1>2, <1>3, PutKeepsOne DEF DefaultsInv, EntriesAlone
<1>5. QED
    BY <1>1, <1>2, <1>4, PutOK, EndEntry DEF DefaultsInv

LEMMA FlagEntryKeeps == ASSUME DefaultsInv, NEW r \in Requests, FlagEntry(r) PROVE DefaultsInv'
<1>1. At(r, "flag") /\ End(r)
    BY DEF FlagEntry
<1>2. ~At(r, "idle") /\ req[r].key \in Keys /\ req[r].isDefault \in BOOLEAN
    BY <1>1 DEF DefaultsInv, EntriesFramed, At
<1>3. CASE req[r].key \in Rows /\ PutRow(req[r].key, req[r].isDefault)
    <2>1. \E k \in Keys : saved[k] # "NONE"
        BY <1>3 DEF Rows
    <2>2. ~overlapped => AtMostOne' /\ SomeDefault'
        BY <1>2, <1>3, <2>1, PutKeepsOne DEF DefaultsInv, EntriesAlone
    <2>3. QED
        BY <1>1, <1>2, <1>3, <2>2, PutOK, EndEntry DEF DefaultsInv
<1>4. CASE UNCHANGED defaultsVars
    BY <1>1, <1>2, <1>4, EndEntry DEF DefaultsInv, EntriesOK, EntriesAlone, AtMostOne, SomeDefault, defaultsVars
<1>5. QED
    BY <1>3, <1>4 DEF FlagEntry

(* Removing the default promotes another entry, and no other removal changes *)
(* which is the default.                                                     *)
LEMMA DropEntryKeeps == ASSUME DefaultsInv, NEW r \in Requests, DropEntry(r) PROVE DefaultsInv'
<1> DEFINE k == req[r].key
           rest == [saved EXCEPT ![k] = "NONE"]
           others == Rows \ {k}
<1>1. At(r, "remove") /\ End(r)
    BY DEF DropEntry
<1>2. ~At(r, "idle") /\ k \in Keys /\ req[r].isDefault \in BOOLEAN
    BY <1>1 DEF DefaultsInv, EntriesFramed, At
<1>3. ~overlapped => EntriesAlone /\ (req[r].isDefault <=> saved[k] = "DEFAULT")
    BY <1>1 DEF DefaultsInv, EntriesAlone, EntriesCurrent
<1>4. CASE UNCHANGED defaultsVars
    BY <1>1, <1>2, <1>4, EndEntry DEF DefaultsInv, EntriesOK, EntriesAlone, AtMostOne, SomeDefault, defaultsVars
<1>5. saved \in [Keys -> {"NONE", "PLAIN", "DEFAULT"}] /\ unset \in BOOLEAN
    BY DEF DefaultsInv, EntriesOK
<1>6. rest \in [Keys -> {"NONE", "PLAIN", "DEFAULT"}] /\ rest[k] = "NONE"
        /\ \A j \in Keys \ {k} : rest[j] = saved[j]
    BY <1>2, <1>5
<1>7. ASSUME NEW kept, saved' = kept, kept \in [Keys -> {"NONE", "PLAIN", "DEFAULT"}],
             unset' = (unset /\ DefaultsOf(saved') = {}),
             ~overlapped => AtMostOne' /\ SomeDefault'
      PROVE  DefaultsInv'
    BY <1>1, <1>2, <1>5, <1>7, EndEntry
<1>8. CASE /\ k \in Rows /\ saved' = rest /\ (~req[r].isDefault \/ others = {})
           /\ unset' = (unset /\ DefaultsOf(saved') = {})
    <2>1. ASSUME ~overlapped PROVE AtMostOne'
        BY <1>3, <1>6, <1>8, <2>1 DEF EntriesAlone, AtMostOne
    <2>2. ASSUME ~overlapped PROVE SomeDefault'
        <3> SUFFICES ASSUME NEW j \in Keys, saved'[j] # "NONE", ~unset',
                            \A i \in Keys : saved'[i] # "DEFAULT"
                     PROVE  FALSE
            BY DEF SomeDefault
        <3>1. j # k /\ j \in others
            BY <1>6, <1>8 DEF Rows
        <3>2. saved[k] # "DEFAULT" /\ EntriesAlone
            <4>1. ~req[r].isDefault
                BY <1>8, <3>1
            <4>2. QED
                BY <1>3, <2>2, <4>1
        <3>3. DefaultsOf(saved') = {}
            BY DEF DefaultsOf
        <3>4. ~unset
            BY <1>5, <1>8, <3>3
        <3>5. PICK i \in Keys : saved[i] = "DEFAULT"
            BY <3>1, <3>2, <3>4 DEF EntriesAlone, SomeDefault, Rows
        <3>6. saved'[i] = "DEFAULT"
            BY <1>6, <1>8, <3>2, <3>5
        <3>7. QED
            BY <3>6
    <2>3. QED
        BY <1>6, <1>7, <1>8, <2>1, <2>2
<1>9. ASSUME NEW next \in others, k \in Rows, req[r].isDefault, saved' = [rest EXCEPT ![next] = "DEFAULT"],
             unset' = (unset /\ DefaultsOf(saved') = {})
      PROVE  DefaultsInv'
    <2>1. next \in Keys /\ next # k
        BY DEF Rows
    <2>2. saved' \in [Keys -> {"NONE", "PLAIN", "DEFAULT"}] /\ saved'[next] = "DEFAULT"
            /\ \A j \in Keys \ {next} : saved'[j] = rest[j]
        BY <1>6, <1>9, <2>1
    <2>3. ASSUME ~overlapped PROVE AtMostOne'
        BY <1>3, <1>6, <1>9, <2>1, <2>2, <2>3 DEF EntriesAlone, AtMostOne
    <2>4. SomeDefault'
        BY <2>1, <2>2 DEF SomeDefault
    <2>5. QED
        BY <1>7, <1>9, <2>2, <2>3, <2>4
<1>10. QED
    BY <1>4, <1>8, <1>9 DEF DropEntry

LEMMA DefaultsKeep == DefaultsInv /\ [DefaultsNext]_<<defaultsVars, handlerVars>> => DefaultsInv'
<1> SUFFICES ASSUME DefaultsInv, [DefaultsNext]_<<defaultsVars, handlerVars>> PROVE DefaultsInv'
    OBVIOUS
<1>1. CASE UNCHANGED <<defaultsVars, handlerVars>>
    BY <1>1 DEF DefaultsInv, Serial, Tracked, EntriesOK, EntriesFramed, EntriesAlone, OneByOne, AtMostOne, SomeDefault, EntriesCurrent,
                InFlight, At, defaultsVars, handlerVars
<1>2. ASSUME NEW r \in Requests, NEW call, NEW k \in Keys, NEW isDefault \in BOOLEAN,
             SaveEntry(r, call, k, isDefault)
      PROVE  DefaultsInv'
    <2> DEFINE frame == [at |-> "put", key |-> k, isDefault |-> isDefault \/ Rows = {}]
    <2>1. At(r, "idle") /\ Goto(r, frame) /\ UNCHANGED defaultsVars
        BY <1>2 DEF SaveEntry, Begin
    <2>2. frame.isDefault \/ \E j \in Keys : saved[j] # "NONE"
        BY DEF Rows
    <2>3. QED
        BY <2>1, <2>2, BeginEntry
<1>3. ASSUME NEW r \in Requests, NEW call, NEW k \in Keys, NEW isDefault \in BOOLEAN,
             Flagged(r, call, k, isDefault)
      PROVE  DefaultsInv'
    <2> DEFINE frame == [at |-> "flag", key |-> k, isDefault |-> isDefault]
    <2>1. At(r, "idle") /\ Goto(r, frame) /\ UNCHANGED defaultsVars
        BY <1>3 DEF Flagged, Begin
    <2>2. QED
        BY <2>1, BeginEntry
<1>4. ASSUME NEW r \in Requests, NEW k \in Keys, RemoveEntry(r, k) PROVE DefaultsInv'
    <2> DEFINE frame == [at |-> "remove", key |-> k, isDefault |-> saved[k] = "DEFAULT"]
    <2>1. At(r, "idle") /\ Goto(r, frame) /\ UNCHANGED defaultsVars
        BY <1>4 DEF RemoveEntry, Begin
    <2>2. QED
        BY <2>1, BeginEntry
<1>5. ASSUME NEW r \in Requests, Abort(r), UNCHANGED defaultsVars PROVE DefaultsInv'
    BY <1>5, EndEntry DEF Abort, DefaultsInv, EntriesOK, EntriesAlone, AtMostOne, SomeDefault, defaultsVars
<1>6. QED
    BY <1>1, <1>2, <1>3, <1>4, <1>5, PutEntryKeeps, FlagEntryKeeps, DropEntryKeeps
       DEF DefaultsNext, DefaultsStep

LEMMA DefaultsSuffice == DefaultsInv => OneDefault
<1> SUFFICES ASSUME DefaultsInv, ~overlapped
             PROVE  /\ Cardinality(DefaultsOf(saved)) <= 1
                    /\ Rows # {} /\ ~unset => DefaultsOf(saved) # {}
    BY DEF OneDefault
<1>1. AtMostOne /\ SomeDefault
    BY DEF DefaultsInv, EntriesAlone
<1>2. \A x, y \in DefaultsOf(saved) : x = y
    BY <1>1 DEF AtMostOne, DefaultsOf
<1>3. QED
    BY <1>1, <1>2, SetOfOne DEF SomeDefault, DefaultsOf, Rows

(* One default among any number of entries, whatever is saved, flagged, removed   *)
(* or cut off, as long as no two requests overlap.                                *)
THEOREM OneEntryIsDefault == DefaultsSpec => []OneDefault
<1>1. HandlersInit /\ DefaultsInit => DefaultsInv
    <2> SUFFICES ASSUME HandlersInit, DefaultsInit PROVE DefaultsInv
        OBVIOUS
    <2>1. EntriesOK
        BY DEF DefaultsInit, EntriesOK
    <2>2. Serial /\ \A r \in Requests : At(r, "idle")
        BY InitSerial
    <2>3. EntriesCurrent /\ EntriesFramed
        BY <2>2 DEF EntriesCurrent, EntriesFramed, At
    <2>4. AtMostOne /\ SomeDefault
        BY DEF DefaultsInit, AtMostOne, SomeDefault
    <2>5. QED
        BY <2>1, <2>2, <2>3, <2>4 DEF DefaultsInv, EntriesAlone
<1>2. QED
    BY <1>1, DefaultsKeep, DefaultsSuffice, PTL DEF DefaultsSpec

-----------------------------------------------------------------------------
(* Menu.  Alone, a plan is as coherent as the form that changed it, because    *)
(* what the form was judged by is what is there when it is written.             *)

Coherent(row) == (row.original = 0 \/ row.original > row.price) /\ (row.jain => row.veg)

Judgement == \A r \in Requests : At(r, "plan") => Coherent(Updated(plan, req[r].dto))

PlanAlone ==
    /\ plan.status = "SAVED" => Coherent(plan)
    /\ Judgement

PlansInv == Serial /\ (~overlapped => PlanAlone)

(* A request begins or ends, with the plan as it should be. *)
LEMMA PlanRequestKeeps ==
    ASSUME PlansInv, NEW r \in Requests, NEW frame, Goto(r, frame),
           ~overlapped => (plan'.status = "SAVED" => Coherent(plan')),
           frame = Idle \/ (~overlapped /\ frame.at = "plan" => Coherent(Updated(plan', frame.dto))),
           At(r, "plan") \/ plan' = plan
    PROVE  PlansInv'
<1>1. Serial' /\ req'[r] = frame /\ \A q \in Requests \ {r} : req'[q] = req[q]
    BY GotoOK, GotoSerial DEF PlansInv, Serial
<1>2. ASSUME ~overlapped' PROVE PlanAlone'
    <2>1. ~overlapped
        BY <1>2, GotoOK DEF PlansInv, Serial
    <2>2. CASE At(r, "idle") /\ frame = Idle
        BY <1>1, <2>1, <2>2 DEF PlansInv, PlanAlone, Judgement, At, Idle
    <2>3. CASE ~At(r, "idle") \/ frame # Idle
        <3>1. \A q \in Requests \ {r} : req'[q].at = "idle"
            BY <1>2, <2>3, OthersIdle DEF PlansInv
        <3>2. Judgement'
            BY <1>1, <2>1, <3>1 DEF Judgement, At, Idle
        <3>3. QED
            BY <2>1, <3>2 DEF PlanAlone
    <2>4. QED
        BY <2>2, <2>3
<1>3. QED
    BY <1>1, <1>2 DEF PlansInv

LEMMA PlanCallKeeps ==
    ASSUME PlansInv, NEW call, Instant(call),
           ~overlapped => (plan'.status = "SAVED" => Coherent(plan'))
    PROVE  PlansInv'
<1>1. /\ Serial' /\ req' = req
      /\ ~overlapped' => ~overlapped /\ \A q \in Requests : At(q, "idle")
    BY InstantSerial DEF PlansInv
<1>2. ~overlapped' => PlanAlone'
    BY <1>1 DEF PlanAlone, Judgement, At
<1>3. QED
    BY <1>1, <1>2 DEF PlansInv

LEMMA CreatePlanKeeps == ASSUME PlansInv, CreatePlan PROVE PlansInv'
<1>1. PICK dto \in PlanColumns : PlanAllowed(dto, dto) /\ plan' = Updated([status |-> "SAVED"], dto)
    BY DEF CreatePlan
<1>2. /\ plan'.original = dto.original /\ plan'.price = dto.price
      /\ plan'.jain = dto.jain /\ plan'.veg = dto.veg
    BY <1>1 DEF PlanColumns, Updated
<1>3. Coherent(plan')
    BY <1>1, <1>2 DEF Coherent, PlanAllowed
<1>4. QED
    BY <1>3, PlanCallKeeps DEF CreatePlan

LEMMA UpdatePlanKeeps == ASSUME PlansInv, NEW r \in Requests, UpdatePlan(r) PROVE PlansInv'
<1>1. PICK dto \in PlanUpdates :
          /\ PlanAllowed(dto, Updated(plan, dto))
          /\ Goto(r, [at |-> "plan", dto |-> dto])
    BY DEF UpdatePlan, Begin
<1>2. plan' = plan /\ Coherent(Updated(plan, dto))
    BY <1>1 DEF UpdatePlan, menuVars, PlanAllowed, Coherent
<1>3. QED
    BY <1>1, <1>2, PlanRequestKeeps DEF PlansInv, PlanAlone

LEMMA WritePlanKeeps == ASSUME PlansInv, NEW r \in Requests, WritePlan(r) PROVE PlansInv'
<1>1. At(r, "plan") /\ plan' = Updated(plan, req[r].dto) /\ Goto(r, Idle)
    BY DEF WritePlan, End
<1>2. ~overlapped => Coherent(plan')
    BY <1>1 DEF PlansInv, PlanAlone, Judgement
<1>3. QED
    BY <1>1, <1>2, PlanRequestKeeps

LEMMA DishStepKeeps ==
    ASSUME PlansInv, NEW r \in Requests, UpdateDish(r) \/ WriteDish(r) \/ (Abort(r) /\ UNCHANGED menuVars)
    PROVE  PlansInv'
<1>1. plan' = plan
    BY DEF UpdateDish, WriteDish, menuVars
<1>2. PICK frame : Goto(r, frame) /\ (frame = Idle \/ frame.at = "dish")
    <2>1. CASE UpdateDish(r)
        <3>1. PICK dto : Goto(r, [at |-> "dish", dto |-> dto])
            BY <2>1 DEF UpdateDish, Begin
        <3>2. [at |-> "dish", dto |-> dto].at = "dish"
            OBVIOUS
        <3>3. QED
            BY <3>1, <3>2
    <2>2. CASE Goto(r, Idle)
        BY <2>2
    <2>3. QED
        BY <2>1, <2>2 DEF WriteDish, Abort, End
<1>3. QED
    BY <1>1, <1>2, PlanRequestKeeps DEF PlansInv, PlanAlone

LEMMA MenuKeeps == PlansInv /\ [MenuNext]_<<menuVars, handlerVars>> => PlansInv'
<1> SUFFICES ASSUME PlansInv, [MenuNext]_<<menuVars, handlerVars>> PROVE PlansInv'
    OBVIOUS
<1>1. CASE UNCHANGED <<menuVars, handlerVars>>
    BY <1>1 DEF PlansInv, Serial, Tracked, PlanAlone, OneByOne, Judgement, InFlight, At, menuVars, handlerVars
<1>2. CASE CreateDish \/ DeleteDish
    <2>1. plan' = plan /\ \E call : Instant(call)
        BY <1>2 DEF CreateDish, DeleteDish
    <2>2. QED
        BY <2>1, PlanCallKeeps DEF PlansInv, PlanAlone
<1>3. QED
    BY <1>1, <1>2, CreatePlanKeeps, UpdatePlanKeeps, WritePlanKeeps, DishStepKeeps
       DEF MenuNext, MenuAlone, MenuStep

(* A plan's prices and diets agree after every partial update that overlaps no    *)
(* other request, whichever columns it names and at any prices.                   *)
THEOREM PlansStayCoherent == MenuSpec => []OffersAreCoherent
<1>1. HandlersInit /\ MenuInit => PlansInv
    <2> SUFFICES ASSUME HandlersInit, MenuInit PROVE PlansInv
        OBVIOUS
    <2>1. Serial /\ \A r \in Requests : At(r, "idle")
        BY InitSerial
    <2>2. plan.status # "SAVED"
        BY DEF MenuInit, None
    <2>3. QED
        BY <2>1, <2>2 DEF PlansInv, PlanAlone, Judgement, At
<1>2. PlansInv => OffersAreCoherent
    BY DEF PlansInv, PlanAlone, Coherent, OffersAreCoherent
<1>3. QED
    BY <1>1, <1>2, MenuKeeps, PTL DEF MenuSpec

-----------------------------------------------------------------------------
(* Referrals.  While redemptions come one by one, the member who redeems has   *)
(* no referrer yet from the first read to the last write, and coins and log     *)
(* follow from who redeemed whose code.                                         *)

Member == [code : ReferralCodes \cup {NoCode}, referredBy : Members \cup {Nobody}, coins : Nat]

MembersOK ==
    /\ members \in [Members -> Member]
    /\ coinLog \in [Members -> Nat]
    /\ shared \subseteq Members \X ReferralCodes

RedemptionsFramed ==
    \A r \in Requests :
        \/ At(r, "idle")
        \/ /\ req[r].at \in {"generate", "referrer", "bonuses"}
           /\ req[r].user \in Members
           /\ At(r, "bonuses") => req[r].referrer \in Members \ {req[r].user}

(* Every coin has its row, in every interleaving. *)
Logged == \A u \in Members : coinLog[u] = members[u].coins

(* What the requests have read. *)
RedemptionsCurrent ==
    \A r \in Requests :
        /\ At(r, "generate") => members[req[r].user].code = NoCode
        /\ At(r, "referrer") \/ At(r, "bonuses") => members[req[r].user].referredBy = Nobody

CodesStand == \A s \in shared : members[s[1]].code = s[2]

Invited(u) == {v \in Members : members[v].referredBy = u}

Earned(u) ==
    (IF members[u].referredBy = Nobody THEN 0 ELSE RefereeBonus) + ReferrerBonus * Cardinality(Invited(u))

CoinsEarned == \A u \in Members : members[u].coins = Earned(u)

ReferralsAlone == RedemptionsCurrent /\ CodesStand /\ CoinsEarned

ReferralsInv == Serial /\ MembersOK /\ RedemptionsFramed /\ Logged /\ (~overlapped => ReferralsAlone)

-----------------------------------------------------------------------------
(* The requests *)

(* A request goes on, or ends: if it is alone nobody else has read anything. *)
LEMMA RedemptionKeeps ==
    ASSUME ReferralsInv, NEW r \in Requests, NEW frame, Goto(r, frame),
           \/ frame = Idle
           \/ /\ frame.at \in {"generate", "referrer", "bonuses"}
              /\ frame.user \in Members
              /\ frame.at = "bonuses" => frame.referrer \in Members \ {frame.user}
              /\ ~overlapped => /\ frame.at = "generate" => members'[frame.user].code = NoCode
                                /\ frame.at # "generate" => members'[frame.user].referredBy = Nobody,
           ~At(r, "idle") \/ members' = members,
           members' \in [Members -> Member], coinLog' \in [Members -> Nat],
           shared' \subseteq Members \X ReferralCodes,
           Logged', ~overlapped => CodesStand' /\ CoinsEarned'
    PROVE  ReferralsInv'
<1>1. Serial' /\ req'[r] = frame /\ \A q \in Requests \ {r} : req'[q] = req[q]
    BY GotoOK, GotoSerial DEF ReferralsInv, Serial
<1>2. MembersOK'
    BY DEF MembersOK
<1>3. RedemptionsFramed'
    BY <1>1 DEF ReferralsInv, RedemptionsFramed, At, Idle
<1>4. ASSUME ~overlapped' PROVE ReferralsAlone'
    <2>1. ~overlapped
        BY <1>4, GotoOK DEF ReferralsInv, Serial
    <2>2. CASE At(r, "idle") /\ frame = Idle
        BY <1>1, <2>1, <2>2 DEF ReferralsInv, ReferralsAlone, RedemptionsCurrent, At, Idle
    <2>3. CASE ~At(r, "idle") \/ frame # Idle
        <3>1. \A q \in Requests \ {r} : req'[q].at = "idle"
            BY <1>4, <2>3, OthersIdle DEF ReferralsInv
        <3>2. RedemptionsCurrent'
            BY <1>1, <2>1, <3>1 DEF RedemptionsCurrent, At, Idle
        <3>3. QED
            BY <2>1, <3>2 DEF ReferralsAlone
    <2>4. QED
        BY <2>2, <2>3
<1>5. QED
    BY <1>1, <1>2, <1>3, <1>4 DEF ReferralsInv

(* Nothing but the request has changed. *)
LEMMA RedemptionReads ==
    ASSUME ReferralsInv, UNCHANGED <<members, coinLog>>
    PROVE  /\ members' = members
           /\ members' \in [Members -> Member] /\ coinLog' \in [Members -> Nat] /\ Logged'
           /\ shared \subseteq Members \X ReferralCodes
           /\ ~overlapped => CoinsEarned'
           /\ ~overlapped /\ shared' = shared => CodesStand'
<1>1. members' = members /\ coinLog' = coinLog
    OBVIOUS
<1>2. CoinsEarned => CoinsEarned'
    BY <1>1 DEF CoinsEarned, Earned, Invited
<1>3. QED
    BY <1>1, <1>2 DEF ReferralsInv, MembersOK, Logged, ReferralsAlone, CodesStand

(* A code is returned as it is, or one is made later, if there was none. *)
LEMMA SummaryKeeps ==
    ASSUME ReferralsInv, NEW r \in Requests, NEW u \in Members,
           LookUpCode(r, u, [at |-> "generate", user |-> u]),
           members' \in [Members -> Member], coinLog' \in [Members -> Nat],
           members'[u].code = members[u].code,
           \A s \in shared : members'[s[1]].code = members[s[1]].code,
           ~At(r, "idle") \/ members' = members,
           Logged', ~overlapped => CoinsEarned'
    PROVE  ReferralsInv'
<1>1. members[u] \in Member /\ shared \subseteq Members \X ReferralCodes
    BY DEF ReferralsInv, MembersOK
<1>2. CASE members[u].code # NoCode
    <2>1. Goto(r, Idle) /\ shared' = shared \cup {<<u, members[u].code>>}
        BY <1>2 DEF LookUpCode, End
    <2>2. <<u, members[u].code>> \in Members \X ReferralCodes
        BY <1>1, <1>2 DEF Member
    <2>3. ~overlapped => CodesStand'
        BY <2>1 DEF ReferralsInv, ReferralsAlone, CodesStand
    <2>4. QED
        BY <1>1, <2>1, <2>2, <2>3, RedemptionKeeps
<1>3. CASE members[u].code = NoCode
    <2> DEFINE frame == [at |-> "generate", user |-> u]
    <2>1. Goto(r, frame) /\ shared' = shared
        BY <1>3 DEF LookUpCode
    <2>2. ~overlapped => CodesStand'
        BY <2>1 DEF ReferralsInv, ReferralsAlone, CodesStand
    <2>3. members'[frame.user].code = NoCode
        BY <1>3
    <2>4. QED
        BY <1>1, <2>1, <2>2, <2>3, RedemptionKeeps
<1>4. QED
    BY <1>2, <1>3

-----------------------------------------------------------------------------
(* Steps *)

LEMMA GetSummaryKeeps == ASSUME ReferralsInv, NEW r \in Requests, NEW u \in Members, GetSummary(r, u) PROVE ReferralsInv'
BY RedemptionReads, SummaryKeeps DEF GetSummary

LEMMA RedeemKeeps ==
    ASSUME ReferralsInv, NEW r \in Requests, NEW u \in Members, NEW c, Redeem(r, u, c)
    PROVE  ReferralsInv'
<1> DEFINE frame == [at |-> "referrer", user |-> u, code |-> c]
<1>1. Goto(r, frame) /\ UNCHANGED <<members, coinLog>> /\ shared' = shared /\ members[u].referredBy = Nobody
    BY DEF Redeem, Begin, referralVars
<1>2. QED
    BY <1>1, RedemptionReads, RedemptionKeeps

LEMMA FindReferrerKeeps == ASSUME ReferralsInv, NEW r \in Requests, FindReferrer(r) PROVE ReferralsInv'
<1> DEFINE u == req[r].user
           frame(v) == [at |-> "bonuses", user |-> u, referrer |-> v]
<1>1. At(r, "referrer") /\ UNCHANGED <<members, coinLog>> /\ shared' = shared
    BY DEF FindReferrer, referralVars
<1>2. u \in Members /\ (~overlapped => members[u].referredBy = Nobody)
    BY <1>1 DEF ReferralsInv, RedemptionsFramed, ReferralsAlone, RedemptionsCurrent, At
<1>3. CASE Goto(r, Idle)
    BY <1>1, <1>3, RedemptionReads, RedemptionKeeps
<1>4. ASSUME NEW v \in Members \ {u}, Goto(r, frame(v)) PROVE ReferralsInv'
    BY <1>1, <1>2, <1>4, RedemptionReads, RedemptionKeeps
<1>5. QED
    BY <1>3, <1>4 DEF FindReferrer, End

LEMMA GenerateCodeKeeps == ASSUME ReferralsInv, NEW r \in Requests, GenerateCode(r) PROVE ReferralsInv'
<1> DEFINE u == req[r].user
<1>1. At(r, "generate") /\ Goto(r, Idle) /\ coinLog' = coinLog
    BY DEF GenerateCode, End
<1>2. u \in Members /\ (~overlapped => members[u].code = NoCode)
    BY <1>1 DEF ReferralsInv, RedemptionsFramed, ReferralsAlone, RedemptionsCurrent, At
<1>3. CASE UNCHANGED <<members, shared>>
    BY <1>1, <1>3, RedemptionReads, RedemptionKeeps
<1>4. ASSUME NEW c \in ReferralCodes, members' = [members EXCEPT ![u].code = c],
             shared' = shared \cup {<<u, c>>}
      PROVE  ReferralsInv'
    <2>1. members \in [Members -> Member]
        BY DEF ReferralsInv, MembersOK
    <2>2. /\ members' \in [Members -> Member] /\ members'[u].code = c
          /\ \A v \in Members : /\ members'[v].referredBy = members[v].referredBy
                                /\ members'[v].coins = members[v].coins
                                /\ v # u => members'[v] = members[v]
        BY <1>2, <1>4, <2>1 DEF Member
    <2>3. Logged'
        BY <1>1, <2>2 DEF ReferralsInv, Logged
    <2>4. \A v \in Members : Invited(v)' = Invited(v)
        BY <2>2 DEF Invited
    <2>5. ~overlapped => CoinsEarned'
        BY <2>2, <2>4 DEF ReferralsInv, ReferralsAlone, CoinsEarned, Earned
    <2>6. ASSUME ~overlapped PROVE CodesStand'
        <3>1. \A s \in shared : s[1] \in Members /\ s[2] \in ReferralCodes /\ members[s[1]].code = s[2]
            BY <2>6 DEF ReferralsInv, MembersOK, ReferralsAlone, CodesStand
        <3>2. \A s \in shared : s[1] # u
            BY <1>2, <2>6, <3>1, ReferralsAssumption
        <3>3. QED
            BY <1>4, <2>2, <3>1, <3>2 DEF CodesStand
    <2>7. shared' \subseteq Members \X ReferralCodes
        BY <1>2, <1>4 DEF ReferralsInv, MembersOK
    <2>8. QED
        <3>1. ~At(r, "idle") /\ coinLog' \in [Members -> Nat]
            BY <1>1 DEF At, ReferralsInv, MembersOK
        <3>2. QED
            BY <1>1, <2>2, <2>3, <2>5, <2>6, <2>7, <3>1, RedemptionKeeps
<1>5. QED
    BY <1>3, <1>4 DEF GenerateCode

LEMMA OneMore == ASSUME NEW b \in Nat, NEW n \in Nat PROVE b * (n + 1) = b * n + b
OBVIOUS

(* Both bonuses are what the two users have earned by one more name. *)
LEMMA CreditedOK ==
    ASSUME NEW m \in Member, NEW b \in Nat
    PROVE  /\ Credited(m, b) \in Member
           /\ Credited(m, b).code = m.code /\ Credited(m, b).referredBy = m.referredBy
           /\ Credited(m, b).coins = m.coins + b
BY DEF Credited, Member

LEMMA PayBonusesKeeps == ASSUME ReferralsInv, NEW r \in Requests, PayBonuses(r) PROVE ReferralsInv'
<1>0. At(r, "bonuses") /\ req[r].user \in Members /\ req[r].referrer \in Members \ {req[r].user}
    BY DEF PayBonuses, ReferralsInv, RedemptionsFramed, At
<1>u. PICK u \in Members, v \in Members : u # v /\ u = req[r].user /\ v = req[r].referrer
    BY <1>0
<1>1. /\ At(r, "bonuses")
      /\ coinLog' = [coinLog EXCEPT ![u] = @ + RefereeBonus, ![v] = @ + ReferrerBonus]
      /\ members' = [members EXCEPT ![u] = [Credited(@, RefereeBonus) EXCEPT !.referredBy = v],
                                    ![v] = Credited(@, ReferrerBonus)]
      /\ LookUpCode(r, u, [at |-> "generate", user |-> u])
    BY <1>u DEF PayBonuses
<1>2. u \in Members /\ v \in Members /\ u # v /\ ~At(r, "idle")
    BY <1>0, <1>u DEF At
<1>3. members \in [Members -> Member] /\ coinLog \in [Members -> Nat] /\ shared \subseteq Members \X ReferralCodes
    BY DEF ReferralsInv, MembersOK
<1>4. RefereeBonus \in Nat /\ ReferrerBonus \in Nat /\ IsFiniteSet(Members) /\ Nobody \notin Members
    BY ReferralsAssumption
<1>5. /\ members' \in [Members -> Member]
      /\ \A w \in Members : members'[w].code = members[w].code
      /\ members'[u].referredBy = v /\ members'[u].coins = members[u].coins + RefereeBonus
      /\ members'[v].referredBy = members[v].referredBy /\ members'[v].coins = members[v].coins + ReferrerBonus
      /\ \A w \in Members \ {u, v} : members'[w] = members[w]
    <2> DEFINE referee == [Credited(members[u], RefereeBonus) EXCEPT !.referredBy = v]
               referrer == Credited(members[v], ReferrerBonus)
    <2>1. /\ referee \in Member /\ referee.code = members[u].code /\ referee.referredBy = v
          /\ referee.coins = members[u].coins + RefereeBonus
        BY <1>2, <1>3, <1>4, CreditedOK DEF Member
    <2>2. /\ referrer \in Member /\ referrer.code = members[v].code
          /\ referrer.referredBy = members[v].referredBy
          /\ referrer.coins = members[v].coins + ReferrerBonus
        BY <1>2, <1>3, <1>4, CreditedOK
    <2>3. members' = [members EXCEPT ![u] = referee, ![v] = referrer]
        BY <1>1, <1>2
    <2> HIDE DEF referee, referrer
    <2>4. /\ members' \in [Members -> Member]
          /\ members'[u] = referee /\ members'[v] = referrer
          /\ \A w \in Members \ {u, v} : members'[w] = members[w]
        BY <1>2, <1>3, <2>1, <2>2, <2>3
    <2>5. QED
        BY <1>2, <2>1, <2>2, <2>4
<1>6. /\ coinLog' \in [Members -> Nat]
      /\ coinLog'[u] = coinLog[u] + RefereeBonus /\ coinLog'[v] = coinLog[v] + ReferrerBonus
      /\ \A w \in Members \ {u, v} : coinLog'[w] = coinLog[w]
    BY <1>1, <1>2, <1>3, <1>4
<1>7. Logged'
    BY <1>2, <1>5, <1>6 DEF ReferralsInv, Logged
<1>8. ASSUME ~overlapped PROVE CoinsEarned'
    <2>1. members[u].referredBy = Nobody /\ CoinsEarned
        BY <1>0, <1>u, <1>8 DEF ReferralsInv, ReferralsAlone, RedemptionsCurrent
    <2>2. \A w \in Members : IsFiniteSet(Invited(w)) /\ Cardinality(Invited(w)) \in Nat
        BY <1>4, FS_Subset, FS_CardinalityType DEF Invited
    <2>3. Invited(v)' = Invited(v) \cup {u} /\ u \notin Invited(v)
        BY <1>2, <1>4, <1>5, <2>1 DEF Invited
    <2>4. Cardinality(Invited(v)') = Cardinality(Invited(v)) + 1
        BY <1>2, <2>2, <2>3, FS_AddElement
    <2>5. \A w \in Members \ {v} : Invited(w)' = Invited(w)
        BY <1>2, <1>4, <1>5, <2>1 DEF Invited
    <2>6. members'[u].coins = Earned(u)'
        <3>1. members[u].coins = 0 + ReferrerBonus * Cardinality(Invited(u))
            BY <1>2, <2>1 DEF CoinsEarned, Earned
        <3>2. Earned(u)' = RefereeBonus + ReferrerBonus * Cardinality(Invited(u))
            BY <1>2, <1>4, <1>5, <2>5 DEF Earned
        <3>3. ReferrerBonus * Cardinality(Invited(u)) \in Nat
            BY <1>2, <1>4, <2>2
        <3>4. QED
            BY <1>4, <1>5, <3>1, <3>2, <3>3
    <2>7. members'[v].coins = Earned(v)'
        <3> DEFINE referee == IF members[v].referredBy = Nobody THEN 0 ELSE RefereeBonus
                   n == Cardinality(Invited(v))
        <3>1. members[v].coins = referee + ReferrerBonus * n
            BY <1>2, <2>1 DEF CoinsEarned, Earned
        <3>2. Earned(v)' = referee + ReferrerBonus * (n + 1)
            BY <1>5, <2>4 DEF Earned
        <3>3. ReferrerBonus * (n + 1) = ReferrerBonus * n + ReferrerBonus
            BY <1>2, <1>4, <2>2, OneMore
        <3>4. referee \in Nat /\ ReferrerBonus * n \in Nat
            BY <1>2, <1>4, <2>2
        <3> HIDE DEF referee, n
        <3>5. QED
            BY <1>4, <1>5, <3>1, <3>2, <3>3, <3>4
    <2>8. \A w \in Members \ {u, v} : members'[w].coins = Earned(w)'
        BY <1>5, <2>1, <2>5 DEF CoinsEarned, Earned
    <2>9. QED
        BY <2>6, <2>7, <2>8 DEF CoinsEarned
<1>9. \A s \in shared : members'[s[1]].code = members[s[1]].code
    BY <1>3, <1>5
<1>10. QED
    BY <1>1, <1>2, <1>5, <1>6, <1>7, <1>8, <1>9, SummaryKeeps

LEMMA AbortKeeps == ASSUME ReferralsInv, NEW r \in Requests, Abort(r), UNCHANGED referralVars PROVE ReferralsInv'
<1>1. Goto(r, Idle) /\ UNCHANGED <<members, coinLog>> /\ shared' = shared
    BY DEF Abort, End, referralVars
<1>2. QED
    BY <1>1, RedemptionReads, RedemptionKeeps

LEMMA ReferralsKeep == ReferralsInv /\ [ReferralsNext]_<<referralVars, handlerVars>> => ReferralsInv'
<1> SUFFICES ASSUME ReferralsInv, [ReferralsNext]_<<referralVars, handlerVars>> PROVE ReferralsInv'
    OBVIOUS
<1>1. CASE UNCHANGED <<referralVars, handlerVars>>
    <2>1. UNCHANGED <<members, coinLog, shared, req, overlapped>>
        BY <1>1 DEF referralVars, handlerVars
    <2>2. Logged' /\ (~overlapped => CoinsEarned' /\ CodesStand')
        BY <2>1, RedemptionReads
    <2>3. QED
        BY <2>1, <2>2 DEF ReferralsInv, Serial, Tracked, MembersOK, RedemptionsFramed, ReferralsAlone, OneByOne, RedemptionsCurrent, InFlight, At
<1>2. QED
    BY <1>1, GetSummaryKeeps, RedeemKeeps, FindReferrerKeeps, GenerateCodeKeeps, PayBonusesKeeps, AbortKeeps
       DEF ReferralsNext, ReferralsStep

(* Whoever redeems which code, and wherever requests are cut off: codes that were   *)
(* handed out stay, and everybody has the coins of the invitations on record, as    *)
(* long as no two requests overlap; for any number of users and any bonuses.        *)
THEOREM CoinsFollowReferrals == ReferralsSpec => []ReferralsAgree
<1>1. HandlersInit /\ ReferralsInit => ReferralsInv
    <2> SUFFICES ASSUME HandlersInit, ReferralsInit PROVE ReferralsInv
        OBVIOUS
    <2>1. Serial /\ \A r \in Requests : At(r, "idle")
        BY InitSerial
    <2>2. MembersOK /\ RedemptionsFramed /\ Logged
        BY <2>1 DEF ReferralsInit, MembersOK, Member, RedemptionsFramed, Logged
    <2>3. \A u \in Members : Invited(u) = {} /\ members[u].referredBy = Nobody /\ members[u].coins = 0
        BY ReferralsAssumption DEF ReferralsInit, Invited
    <2>4. CoinsEarned
        BY <2>3, FS_EmptySet, ReferralsAssumption DEF CoinsEarned, Earned
    <2>5. RedemptionsCurrent /\ CodesStand
        BY <2>1 DEF RedemptionsCurrent, CodesStand, ReferralsInit, At
    <2>6. QED
        BY <2>1, <2>2, <2>4, <2>5 DEF ReferralsInv, ReferralsAlone
<1>2. ReferralsInv => ReferralsAgree
    BY DEF ReferralsInv, ReferralsAlone, Logged, CodesStand, CoinsEarned, Earned, Invited, ReferralsAgree
<1>3. QED
    BY <1>1, <1>2, ReferralsKeep, PTL DEF ReferralsSpec

-----------------------------------------------------------------------------
(* Sessions.  What a request carries on its way through a sign-in, a refresh, *)
(* a logout or a deletion; and, while requests come one by one: a code is     *)
(* good for no sign-in before it is used up, a session is exchanged for none  *)
(* before it is revoked, and an open one is of the last sign-in.              *)

Code == [purpose : Purposes, state : {"unused", "used", "gone"}, age : {"valid", "expired", "old"},
         known : BOOLEAN, pairs : Nat]

Token == [owner : Accounts, state : {"active", "revoked", "gone"}, born : Nat, used : Nat]

SessionTables ==
    /\ accounts \in [Accounts -> [status : {"NONE", "NEW", "ACTIVE", "DELETED"}, hasPhone : BOOLEAN]]
    /\ codes \in Seq(Code) /\ tokens \in Seq(Token)
    /\ outs \in [Accounts -> Nat]

SignInFrame(f) ==
    \/ f = Idle
    \/ f \in [at : {"sms"}, purpose : Purposes]
    \/ f \in [at : {"use", "account", "create", "useDeletion", "findDeleted"},
              realm : {Users, Partners}, code : 1..Len(codes)]
    \/ f \in [at : {"mark", "token"}, account : Accounts, born : Nat,
              code : 0..Len(codes), from : 0..Len(tokens)]
    \/ f \in [at : {"revoke"}, token : 1..Len(tokens)]
    \/ f \in [at : {"logout", "erase"}, account : Accounts]

(* What is still so of a code or a token between its look-up and its last use. *)
SignInCurrent(f) ==
    /\ f.at \in {"use", "account", "create"} => codes[f.code].pairs = 0
    /\ f.at \in {"account", "create"} => f.realm = Users \/ codes[f.code].state # "unused"
    /\ f.at \in {"mark", "token"} => f.born = outs[f.account] /\ (f.code # 0 => codes[f.code].pairs = 0)
    /\ f.at = "mark" => f.from = 0
    /\ f.at = "token" =>
          /\ f.code # 0 => codes[f.code].state # "unused"
          /\ f.from # 0 => tokens[f.from].used = 0 /\ tokens[f.from].state # "active"
    /\ f.at = "revoke" => tokens[f.token].used = 0 /\ tokens[f.token].born = outs[tokens[f.token].owner]

NumbersUnique ==
    /\ \A a, b \in Users : accounts[a].hasPhone /\ accounts[b].hasPhone => a = b
    /\ \A a, b \in Partners : accounts[a].hasPhone /\ accounts[b].hasPhone => a = b

CodesSingle == \A i \in DOMAIN codes : codes[i].pairs <= 1 /\ (codes[i].state = "unused" => codes[i].pairs = 0)

TokensSingle ==
    \A t \in DOMAIN tokens :
        /\ tokens[t].used <= 1
        /\ tokens[t].state = "active" => tokens[t].used = 0 /\ tokens[t].born = outs[tokens[t].owner]

SessionsInv ==
    /\ Serial /\ SessionTables /\ NumbersUnique
    /\ \A r \in Requests : SignInFrame(req[r])
    /\ ~overlapped => CodesSingle /\ TokensSingle /\ \A r \in Requests : SignInCurrent(req[r])

(* Tables that only grow leave what a request carries in its place. *)
LEMMA FramesStay ==
    ASSUME SessionTables, SessionTables', Len(codes) <= Len(codes'), Len(tokens) <= Len(tokens'),
           NEW f, SignInFrame(f)
    PROVE  SignInFrame(f)'
BY DEF SignInFrame, SessionTables

(* A request goes on to another step. *)
LEMMA SignInStep ==
    ASSUME SessionsInv, NEW r \in Requests, NEW frame, Goto(r, frame),
           SessionTables', Len(codes) <= Len(codes'), Len(tokens) <= Len(tokens'), NumbersUnique',
           SignInFrame(frame)', ~At(r, "idle") \/ frame # Idle,
           ~overlapped => CodesSingle' /\ TokensSingle' /\ SignInCurrent(frame)'
    PROVE  SessionsInv'
<1>1. Serial' /\ req'[r] = frame /\ \A q \in Requests \ {r} : req'[q] = req[q]
    BY GotoOK, GotoSerial DEF SessionsInv, Serial
<1>2. \A q \in Requests : SignInFrame(req[q])
    BY DEF SessionsInv
<1>3. ASSUME NEW q \in Requests PROVE (SignInFrame(req[q]))'
    <2>1. CASE q = r
        BY <1>1, <2>1 DEF SignInFrame
    <2>2. CASE q # r
        <3>1. PICK f : f = req[q]
            OBVIOUS
        <3>2. SignInFrame(f)'
            BY <1>2, <3>1, FramesStay DEF SessionsInv
        <3>3. req'[q] = f
            BY <1>1, <2>2, <3>1
        <3>4. QED
            BY <3>2, <3>3 DEF SignInFrame
    <2>3. QED
        BY <2>1, <2>2
<1>4. ASSUME ~overlapped' PROVE CodesSingle' /\ TokensSingle' /\ \A q \in Requests : (SignInCurrent(req[q]))'
    <2>1. ~overlapped /\ \A q \in Requests \ {r} : req'[q].at = "idle"
        BY <1>4, OthersIdle DEF SessionsInv
    <2>2. SignInCurrent(frame)'
        BY <2>1
    <2>3. \A q \in Requests \ {r} : (SignInCurrent(req[q]))'
        BY <2>1 DEF SignInCurrent
    <2>4. (SignInCurrent(req[r]))'
        BY <1>1, <2>2 DEF SignInCurrent
    <2>5. QED
        BY <2>1, <2>3, <2>4
<1>5. QED
    BY <1>1, <1>3, <1>4 DEF SessionsInv

(* A request that only reads, and begins or goes on. *)
LEMMA SignInReads ==
    ASSUME SessionsInv, NEW r \in Requests, NEW frame, Goto(r, frame), UNCHANGED sessionVars,
           SignInFrame(frame), ~At(r, "idle") \/ frame # Idle, ~overlapped => SignInCurrent(frame)
    PROVE  SessionsInv'
<1>1. accounts' = accounts /\ codes' = codes /\ tokens' = tokens /\ outs' = outs
    BY DEF sessionVars
<1>2. SessionTables' /\ NumbersUnique' /\ SignInFrame(frame)'
    BY <1>1 DEF SessionsInv, SessionTables, NumbersUnique, SignInFrame
<1>3. ~overlapped => CodesSingle' /\ TokensSingle' /\ SignInCurrent(frame)'
    BY <1>1 DEF SessionsInv, CodesSingle, TokensSingle, SignInCurrent
<1>4. Len(codes) <= Len(codes') /\ Len(tokens) <= Len(tokens')
    BY <1>1 DEF SessionsInv, SessionTables
<1>5. QED
    BY <1>2, <1>3, <1>4, SignInStep

(* A call of one statement. *)
LEMMA SignInCall ==
    ASSUME SessionsInv, Serial', req' = req, ~overlapped' => ~overlapped,
           SessionTables', Len(codes) <= Len(codes'), tokens' = tokens, outs' = outs, NumbersUnique',
           CodesSingle => CodesSingle',
           ~overlapped' => \/ \A q \in Requests : At(q, "idle")
                           \/ \A i \in DOMAIN codes : /\ codes'[i].pairs = codes[i].pairs
                                                      /\ codes'[i].state = codes[i].state
    PROVE  SessionsInv'
<1>1. ASSUME NEW q \in Requests PROVE (SignInFrame(req[q]))'
    <2>1. PICK f : f = req[q]
        OBVIOUS
    <2>2. SignInFrame(f)'
        BY <2>1, FramesStay DEF SessionsInv, SessionTables
    <2>3. QED
        BY <2>1, <2>2 DEF SignInFrame
<1>2. ASSUME ~overlapped' PROVE CodesSingle' /\ TokensSingle' /\ \A q \in Requests : (SignInCurrent(req[q]))'
    <2>1. CodesSingle /\ TokensSingle /\ \A q \in Requests : SignInCurrent(req[q]) /\ SignInFrame(req[q])
        BY <1>2 DEF SessionsInv
    <2>2. CodesSingle' /\ TokensSingle'
        BY <2>1 DEF TokensSingle
    <2>3. CASE \A q \in Requests : At(q, "idle")
        BY <2>2, <2>3 DEF SignInCurrent, At
    <2>4. CASE \A i \in DOMAIN codes : codes'[i].pairs = codes[i].pairs /\ codes'[i].state = codes[i].state
        <3>1. ASSUME NEW q \in Requests PROVE (SignInCurrent(req[q]))'
            <4>1. SignInFrame(req[q]) /\ SignInCurrent(req[q]) /\ codes \in Seq(Code)
                BY <2>1 DEF SessionsInv, SessionTables
            <4>2. req[q].at \in {"use", "account", "create"} => req[q].code \in DOMAIN codes
                BY <4>1 DEF SignInFrame, Idle
            <4>3. req[q].at \in {"mark", "token"} => req[q].code = 0 \/ req[q].code \in DOMAIN codes
                BY <4>1 DEF SignInFrame, Idle
            <4>4. QED
                BY <2>4, <4>1, <4>2, <4>3 DEF SignInCurrent
        <3>2. QED
            BY <2>2, <3>1
    <2>5. QED
        BY <1>2, <2>3, <2>4
<1>3. QED
    BY <1>1, <1>2 DEF SessionsInv

(* Writing a state other than "unused" leaves every code good for one sign-in. *)
LEMMA CodesStay ==
    ASSUME SessionTables, CodesSingle, codes' \in Seq(Code), Len(codes') = Len(codes),
           \A j \in DOMAIN codes : codes'[j].pairs = codes[j].pairs,
           \A j \in DOMAIN codes : codes'[j].state = "unused" => codes[j].state = "unused"
    PROVE  CodesSingle'
<1>1. DOMAIN codes' = DOMAIN codes
    BY DEF SessionTables
<1>2. QED
    BY <1>1 DEF CodesSingle

(* What the writes do to the codes and to the sessions. *)
LEMMA SetCodeOK ==
    ASSUME SessionTables, NEW i \in DOMAIN codes, NEW state \in {"unused", "used", "gone"}, SetCode(i, state)
    PROVE  /\ codes' \in Seq(Code) /\ Len(codes') = Len(codes)
           /\ \A j \in DOMAIN codes : /\ codes'[j].pairs = codes[j].pairs
                                      /\ codes'[j].state = IF j = i THEN state ELSE codes[j].state
<1>1. codes \in Seq(Code) /\ codes[i] \in Code
    BY DEF SessionTables
<1>2. \A c \in Code : /\ [c EXCEPT !.state = state] \in Code
                      /\ [c EXCEPT !.state = state].pairs = c.pairs
                      /\ [c EXCEPT !.state = state].state = state
    BY DEF Code
<1>3. codes' = [codes EXCEPT ![i] = [codes[i] EXCEPT !.state = state]]
    BY DEF SetCode
<1>4. codes' \in Seq(Code) /\ Len(codes') = Len(codes)
    BY <1>1, <1>2, <1>3
<1>5. QED
    BY <1>1, <1>2, <1>3, <1>4

LEMMA AddCodeOK ==
    ASSUME SessionTables, NEW purpose \in Purposes, AddCode(purpose)
    PROVE  /\ codes' \in Seq(Code) /\ Len(codes) <= Len(codes')
           /\ \A j \in DOMAIN codes : codes'[j] = codes[j]
           /\ CodesSingle => CodesSingle'
<1>1. PICK c : codes' = Append(codes, c) /\ c \in Code /\ c.pairs = 0
    BY DEF AddCode, Code
<1>2. codes \in Seq(Code)
    BY DEF SessionTables
<1>3. /\ codes' \in Seq(Code) /\ Len(codes) <= Len(codes')
      /\ \A j \in DOMAIN codes : codes'[j] = codes[j]
      /\ codes'[Len(codes) + 1] = c /\ \A j \in DOMAIN codes' : j \in DOMAIN codes \/ j = Len(codes) + 1
    BY <1>1, <1>2
<1>4. QED
    BY <1>1, <1>3 DEF CodesSingle

(* Every code of some kind goes to a state that is not "unused". *)
LEMMA CodesUsedUp ==
    ASSUME SessionTables, NEW S, NEW state \in {"used", "gone"},
           codes' = [i \in DOMAIN codes |-> IF codes[i].state \in S THEN [codes[i] EXCEPT !.state = state] ELSE codes[i]]
    PROVE  /\ codes' \in Seq(Code) /\ Len(codes') = Len(codes)
           /\ \A j \in DOMAIN codes :
                 /\ codes'[j].pairs = codes[j].pairs
                 /\ codes'[j].state = IF codes[j].state \in S THEN state ELSE codes[j].state
<1>1. codes \in Seq(Code)
    BY DEF SessionTables
<1>2. \A c \in Code : /\ [c EXCEPT !.state = state] \in Code
                      /\ [c EXCEPT !.state = state].pairs = c.pairs
                      /\ [c EXCEPT !.state = state].state = state
    BY DEF Code
<1>3. \A j \in DOMAIN codes : codes[j] \in Code /\ codes'[j] \in Code
    BY <1>1, <1>2
<1>4. DOMAIN codes' = 1..Len(codes) /\ Len(codes) \in Nat
    BY <1>1
<1>5. codes' \in Seq(Code)
    BY <1>3, <1>4
<1>6. QED
    BY <1>1, <1>2, <1>3, <1>4, <1>5

LEMMA CloseSessionsOK ==
    ASSUME SessionTables, NEW a, NEW state \in {"revoked", "gone"}, CloseSessions(a, state)
    PROVE  /\ tokens' \in Seq(Token) /\ Len(tokens') = Len(tokens)
           /\ \A t \in DOMAIN tokens :
                 /\ tokens'[t].owner = tokens[t].owner /\ tokens'[t].born = tokens[t].born
                 /\ tokens'[t].used = tokens[t].used
                 /\ tokens'[t].state = "active" => tokens[t].state = "active" /\ tokens[t].owner # a
<1>1. tokens \in Seq(Token)
    BY DEF SessionTables
<1>2. \A c \in Token : /\ [c EXCEPT !.state = state] \in Token
                       /\ [c EXCEPT !.state = state].owner = c.owner
                       /\ [c EXCEPT !.state = state].born = c.born
                       /\ [c EXCEPT !.state = state].used = c.used
                       /\ [c EXCEPT !.state = state].state = state
    BY DEF Token
<1>3. /\ DOMAIN tokens' = 1..Len(tokens) /\ Len(tokens) \in Nat
      /\ \A t \in DOMAIN tokens : tokens[t] \in Token
      /\ \A t \in DOMAIN tokens :
            tokens'[t] = IF tokens[t].owner = a /\ (tokens[t].state = "active" \/ state = "gone")
                         THEN [tokens[t] EXCEPT !.state = state] ELSE tokens[t]
    BY <1>1 DEF CloseSessions
<1>4. tokens' \in Seq(Token)
    BY <1>2, <1>3 DEF CloseSessions
<1>5. Len(tokens') = Len(tokens)
    BY <1>3, <1>4
<1>6. ASSUME NEW t \in DOMAIN tokens
      PROVE  /\ tokens'[t].owner = tokens[t].owner /\ tokens'[t].born = tokens[t].born
             /\ tokens'[t].used = tokens[t].used
             /\ tokens'[t].state = "active" => tokens[t].state = "active" /\ tokens[t].owner # a
    <2>1. CASE tokens[t].owner = a /\ (tokens[t].state = "active" \/ state = "gone")
        <3>1. tokens[t] \in Token /\ tokens'[t] = [tokens[t] EXCEPT !.state = state]
            BY <1>3, <2>1
        <3>2. tokens'[t].state = state /\ state # "active"
            BY <1>2, <3>1
        <3>3. QED
            BY <1>2, <3>1, <3>2
    <2>2. CASE ~(tokens[t].owner = a /\ (tokens[t].state = "active" \/ state = "gone"))
        BY <1>3, <2>2
    <2>3. QED
        BY <2>1, <2>2
<1>7. QED
    BY <1>4, <1>5, <1>6

-----------------------------------------------------------------------------
(* One lemma per action, or per group of them *)

LEMMA SignInCallsKeep == SessionsInv /\ SessionsAlone => SessionsInv'
<1> SUFFICES ASSUME SessionsInv, SessionsAlone PROVE SessionsInv'
    OBVIOUS
<1>0. SessionTables /\ Serial /\ NumbersUnique /\ codes \in Seq(Code)
    BY DEF SessionsInv, SessionTables
<1>1. ASSUME NEW purpose \in Purposes, NEW call, Instant(call), AddCode(purpose), UNCHANGED <<accounts, tokens, outs>>
      PROVE  SessionsInv'
    <2>1. SessionTables' /\ NumbersUnique'
        BY <1>0, <1>1, AddCodeOK DEF SessionTables, NumbersUnique
    <2>2. QED
        BY <1>0, <1>1, <2>1, AddCodeOK, InstantSerial, SignInCall
<1>2. CASE AgeCodes
    <2>1. \A c \in Code : /\ [c EXCEPT !.age = Older[@]] \in Code
                          /\ [c EXCEPT !.age = Older[@]].pairs = c.pairs
                          /\ [c EXCEPT !.age = Older[@]].state = c.state
        BY DEF Code, Older
    <2>2. /\ DOMAIN codes' = 1..Len(codes) /\ Len(codes) \in Nat
          /\ \A i \in DOMAIN codes : codes[i] \in Code /\ codes'[i] = [codes[i] EXCEPT !.age = Older[@]]
        BY <1>0, <1>2 DEF AgeCodes
    <2>3. codes' \in Seq(Code)
        BY <1>2, <2>1, <2>2 DEF AgeCodes
    <2>4. Len(codes') = Len(codes)
        BY <2>2, <2>3
    <2>5. \A i \in DOMAIN codes : codes'[i].pairs = codes[i].pairs /\ codes'[i].state = codes[i].state
        BY <2>1, <2>2
    <2>6. UNCHANGED <<accounts, tokens, outs, req, overlapped>>
        BY <1>2 DEF AgeCodes, handlerVars
    <2>7. SessionTables' /\ NumbersUnique' /\ Serial'
        BY <1>0, <2>3, <2>6 DEF SessionTables, NumbersUnique, Serial, Tracked, OneByOne, InFlight, At
    <2>8. CodesSingle => CodesSingle'
        BY <2>2, <2>5 DEF CodesSingle
    <2>9. QED
        BY <2>2, <2>4, <2>5, <2>6, <2>7, <2>8, SignInCall
<1>3. ASSUME NEW a \in Accounts, CompleteProfile(a) PROVE SessionsInv'
    <2>1. /\ Instant("completeProfile") /\ codes' = codes /\ tokens' = tokens /\ outs' = outs
          /\ accounts' = [accounts EXCEPT ![a].status = "ACTIVE"]
        BY <1>3 DEF CompleteProfile
    <2>2. accounts \in [Accounts -> [status : {"NONE", "NEW", "ACTIVE", "DELETED"}, hasPhone : BOOLEAN]]
        BY <1>0 DEF SessionTables
    <2>3. /\ accounts' \in [Accounts -> [status : {"NONE", "NEW", "ACTIVE", "DELETED"}, hasPhone : BOOLEAN]]
          /\ \A b \in Accounts : accounts'[b].hasPhone = accounts[b].hasPhone
        BY <2>1, <2>2
    <2>4. SessionTables' /\ NumbersUnique' /\ (CodesSingle => CodesSingle')
        BY <1>0, <2>1, <2>3 DEF SessionTables, NumbersUnique, CodesSingle, Accounts
    <2>5. QED
        BY <1>0, <2>1, <2>4, InstantSerial, SignInCall
<1>4. "LOGIN" \in Purposes /\ "ACCOUNT_DELETION" \in Purposes
    BY DEF Purposes
<1>5. QED
    BY <1>1, <1>2, <1>3, <1>4 DEF SessionsAlone, SendOtp, RequestAccountDeletion

LEMMA NewestIsUnused ==
    ASSUME SessionTables, NEW i, NEW purposes, Matches(i, purposes)
    PROVE  codes[i].state = "unused"
<1> DEFINE live == {j \in DOMAIN codes : /\ codes[j].purpose \in purposes
                                         /\ codes[j].state = "unused"
                                         /\ codes[j].age = "valid"}
<1>1. Len(codes) \in Nat /\ DOMAIN codes = 1..Len(codes)
    BY DEF SessionTables
<1>2. live # {} /\ i = Max(live)
    BY <1>1 DEF Matches, Newest
<1>3. live \in SUBSET (1..Len(codes))
    BY <1>1
<1> HIDE DEF live
<1>4. i \in live
    BY <1>1, <1>2, <1>3, LastIsThere
<1>5. QED
    BY <1>4 DEF live

(* A code is found, and what follows carries it. *)
LEMMA CodeFound ==
    ASSUME SessionsInv, NEW r \in Requests, NEW i, NEW purposes, Matches(i, purposes),
           NEW step \in {"use", "account", "useDeletion"}, NEW realm \in {Users, Partners},
           step = "account" => realm = Users,
           Goto(r, [at |-> step, realm |-> realm, code |-> i]), UNCHANGED sessionVars
    PROVE  SessionsInv'
<1> DEFINE frame == [at |-> step, realm |-> realm, code |-> i]
<1>1. codes \in Seq(Code) /\ i \in DOMAIN codes /\ codes[i].state = "unused"
    BY NewestIsUnused DEF SessionsInv, SessionTables, Matches
<1>2. SignInFrame(frame) /\ frame # Idle
    BY <1>1 DEF SignInFrame, Idle
<1>3. ~overlapped => codes[i].pairs = 0
    BY <1>1 DEF SessionsInv, CodesSingle
<1>4. ~overlapped => SignInCurrent(frame)
    BY <1>3 DEF SignInCurrent
<1>5. QED
    BY <1>2, <1>4, SignInReads

(* The steps of a sign-in. *)
LEMMA SendingKeeps ==
    ASSUME SessionsInv, NEW r \in Requests, PartnerSendOtp(r) \/ PartnerRequestDeletion(r) \/ PartnerAddCode(r)
    PROVE  SessionsInv'
<1>1. ASSUME NEW purpose \in Purposes, Goto(r, [at |-> "sms", purpose |-> purpose]), UNCHANGED sessionVars
      PROVE  SessionsInv'
    <2> DEFINE frame == [at |-> "sms", purpose |-> purpose]
    <2>1. SignInFrame(frame) /\ SignInCurrent(frame) /\ frame # Idle
        BY DEF SignInFrame, SignInCurrent, Idle
    <2>2. QED
        BY <1>1, <2>1, SignInReads
<1>2. "VERIFY_PHONE" \in Purposes /\ "ACCOUNT_DELETION" \in Purposes
    BY DEF Purposes
<1>3. CASE PartnerAddCode(r)
    <2>1. At(r, "sms") /\ AddCode(req[r].purpose) /\ Goto(r, Idle) /\ UNCHANGED <<accounts, tokens, outs>>
        BY <1>3 DEF PartnerAddCode, End
    <2>2. req[r].purpose \in Purposes /\ ~At(r, "idle")
        BY <2>1 DEF SessionsInv, SignInFrame, At, Idle
    <2>3. SessionTables /\ SessionTables' /\ NumbersUnique'
        BY <2>1, <2>2, AddCodeOK DEF SessionsInv, SessionTables, NumbersUnique
    <2>4. Len(codes) <= Len(codes') /\ Len(tokens) <= Len(tokens')
        BY <2>1, <2>2, <2>3, AddCodeOK DEF SessionTables
    <2>5. ~overlapped => CodesSingle' /\ TokensSingle'
        BY <2>1, <2>2, <2>3, AddCodeOK DEF SessionsInv, TokensSingle
    <2>6. SignInFrame(Idle)' /\ SignInCurrent(Idle)'
        BY DEF SignInFrame, SignInCurrent, Idle
    <2>7. QED
        BY <2>1, <2>2, <2>3, <2>4, <2>5, <2>6, SignInStep
<1>4. QED
    BY <1>1, <1>2, <1>3 DEF PartnerSendOtp, PartnerRequestDeletion, CountRecent, Begin

(* A code is used up before or after the account is found, according to the realm. *)
LEMMA UseCodeKeeps ==
    ASSUME SessionsInv, NEW r \in Requests, PartnerUseCode(r) \/ UseDeletionCode(r)
    PROVE  SessionsInv'
<1>1. PICK f : f = req[r]
    OBVIOUS
<1>2. /\ f \in [at : {"use", "account", "create", "useDeletion", "findDeleted"},
                 realm : {Users, Partners}, code : 1..Len(codes)]
      /\ f.at \in {"use", "useDeletion"} /\ ~At(r, "idle") /\ UNCHANGED <<accounts, tokens, outs>>
    BY <1>1 DEF SessionsInv, SignInFrame, PartnerUseCode, UseDeletionCode, At, Idle
<1>3. SessionTables /\ f.code \in DOMAIN codes
    BY <1>2 DEF SessionsInv, SessionTables
<1>4. CASE End(r) /\ UNCHANGED codes
    <2>1. SignInFrame(Idle) /\ SignInCurrent(Idle) /\ Goto(r, Idle) /\ UNCHANGED sessionVars
        BY <1>2, <1>4 DEF SignInFrame, SignInCurrent, Idle, End, sessionVars
    <2>2. QED
        BY <1>2, <2>1, SignInReads
<1>5. ASSUME NEW step \in {"account", "findDeleted"}, SetCode(f.code, "used"), Goto(r, [f EXCEPT !.at = step]),
             step = "account" => f.at = "use"
      PROVE  SessionsInv'
    <2> DEFINE frame == [f EXCEPT !.at = step]
    <2>1. /\ frame \in [at : {"use", "account", "create", "useDeletion", "findDeleted"},
                         realm : {Users, Partners}, code : 1..Len(codes)]
          /\ frame.at = step /\ frame.code = f.code /\ frame.realm = f.realm
        BY <1>2
    <2>2. /\ codes' \in Seq(Code) /\ Len(codes') = Len(codes)
          /\ \A j \in DOMAIN codes : /\ codes'[j].pairs = codes[j].pairs
                                     /\ codes'[j].state = IF j = f.code THEN "used" ELSE codes[j].state
        BY <1>3, <1>5, SetCodeOK
    <2> HIDE DEF frame
    <2>3. SessionTables' /\ NumbersUnique' /\ Len(codes) <= Len(codes') /\ Len(tokens) <= Len(tokens')
        BY <1>2, <1>3, <2>2 DEF SessionsInv, SessionTables, NumbersUnique
    <2>4. SignInFrame(frame)'
        BY <2>1, <2>2 DEF SignInFrame
    <2>5. ASSUME ~overlapped PROVE CodesSingle' /\ TokensSingle' /\ SignInCurrent(frame)'
        <3>1. CodesSingle /\ TokensSingle /\ SignInCurrent(f)
            BY <1>1, <2>5 DEF SessionsInv
        <3>2. CodesSingle' /\ TokensSingle'
            BY <1>2, <1>3, <2>2, <3>1, CodesStay DEF TokensSingle
        <3>3. step = "account" => codes'[f.code].pairs = 0 /\ codes'[f.code].state = "used"
            BY <1>2, <1>3, <1>5, <2>2, <3>1 DEF SignInCurrent
        <3>4. SignInCurrent(frame)'
            BY <2>1, <3>3 DEF SignInCurrent
        <3>5. QED
            BY <3>2, <3>4
    <2>6. Goto(r, frame)
        BY <1>5 DEF frame
    <2>7. QED
        BY <1>2, <2>3, <2>4, <2>5, <2>6, SignInStep
<1>6. QED
    BY <1>1, <1>4, <1>5 DEF PartnerUseCode, UseDeletionCode, Continue, At

LEMMA FindAccountKeeps ==
    ASSUME SessionsAssumption, SessionsInv, NEW r \in Requests, NEW f, f = req[r],
           f \in [at : {"account", "create"}, realm : {Users, Partners}, code : 1..Len(codes)],
           NEW a \in f.realm, AfterAccount(r, a),
           accounts' \in [Accounts -> [status : {"NONE", "NEW", "ACTIVE", "DELETED"}, hasPhone : BOOLEAN]],
           NumbersUnique', UNCHANGED <<codes, tokens, outs>>
    PROVE  SessionsInv'
<1> DEFINE step == IF a \in Users THEN "mark" ELSE "token"
<1>0. PICK frame : frame = [at |-> step, account |-> a, born |-> outs[a], code |-> f.code, from |-> 0]
    OBVIOUS
<1>1. /\ SessionTables /\ a \in Accounts /\ outs[a] \in Nat /\ step \in {"mark", "token"}
      /\ f.code \in 1..Len(codes) /\ f.at \in {"account", "create"}
    BY DEF SessionsInv, SessionTables, Accounts
<1>2. /\ Len(codes) \in Nat /\ Len(tokens) \in Nat /\ SessionTables'
      /\ Len(codes) <= Len(codes') /\ Len(tokens) <= Len(tokens')
    BY <1>1 DEF SessionTables
<1>3. SignInFrame(frame)' /\ frame # Idle
    BY <1>0, <1>1, <1>2 DEF SignInFrame, Idle
<1>4. Goto(r, frame) /\ ~At(r, "idle")
    BY <1>0, <1>1 DEF AfterAccount, At
<1>5. ASSUME ~overlapped PROVE CodesSingle' /\ TokensSingle' /\ SignInCurrent(frame)'
    <2>1. CodesSingle /\ TokensSingle /\ SignInCurrent(f)
        BY <1>5 DEF SessionsInv
    <2>2. codes[f.code].pairs = 0 /\ (f.realm = Users \/ codes[f.code].state # "unused")
        BY <1>1, <2>1 DEF SignInCurrent
    <2>3. step = "token" => codes[f.code].state # "unused"
        BY <2>2 DEF SessionsAssumption
    <2>4. SignInCurrent(frame)'
        BY <1>0, <1>1, <2>2, <2>3 DEF SignInCurrent
    <2>5. QED
        BY <2>1, <2>4 DEF CodesSingle, TokensSingle
<1> HIDE DEF step
<1>6. QED
    BY <1>2, <1>3, <1>4, <1>5, SignInStep

LEMMA AccountKeeps ==
    ASSUME SessionsAssumption, SessionsInv, NEW r \in Requests, FindAccount(r) \/ CreateAccount(r)
    PROVE  SessionsInv'
<1>1. PICK f : f = req[r]
    OBVIOUS
<1>2. /\ f \in [at : {"account", "create"}, realm : {Users, Partners}, code : 1..Len(codes)]
      /\ f.realm \in {Users, Partners} /\ ~At(r, "idle") /\ UNCHANGED <<codes, tokens, outs>> /\ SessionTables
    BY <1>1 DEF SessionsInv, SignInFrame, FindAccount, CreateAccount, At, Idle, sessionVars
<1>3. accounts \in [Accounts -> [status : {"NONE", "NEW", "ACTIVE", "DELETED"}, hasPhone : BOOLEAN]] /\ NumbersUnique
    BY DEF SessionsInv, SessionTables
<1>4. CASE End(r) /\ UNCHANGED sessionVars
    <2>1. SignInFrame(Idle) /\ SignInCurrent(Idle) /\ Goto(r, Idle)
        BY <1>4 DEF SignInFrame, SignInCurrent, Idle, End
    <2>2. QED
        BY <1>2, <1>4, <2>1, SignInReads
<1>5. CASE At(r, "account") /\ Continue(r, "create") /\ UNCHANGED sessionVars
    <2> DEFINE frame == [f EXCEPT !.at = "create"]
    <2>1. /\ frame \in [at : {"use", "account", "create", "useDeletion", "findDeleted"},
                         realm : {Users, Partners}, code : 1..Len(codes)]
          /\ frame.at = "create" /\ frame.code = f.code /\ frame.realm = f.realm /\ f.at = "account"
        BY <1>1, <1>2, <1>5 DEF At
    <2>2. Goto(r, frame)
        BY <1>1, <1>5 DEF Continue
    <2> HIDE DEF frame
    <2>3. SignInFrame(frame)
        BY <2>1 DEF SignInFrame
    <2>4. ~overlapped => SignInCurrent(f)
        BY <1>1 DEF SessionsInv
    <2>5. ~overlapped => SignInCurrent(frame)
        BY <2>1, <2>4 DEF SignInCurrent
    <2>6. QED
        BY <1>2, <1>5, <2>2, <2>3, <2>5, SignInReads
<1>6. ASSUME NEW a \in Holders(f.realm), AfterAccount(r, a), accounts' = accounts PROVE SessionsInv'
    <2>1. a \in f.realm /\ NumbersUnique'
        BY <1>3, <1>6 DEF Holders, NumbersUnique
    <2>2. QED
        BY <1>1, <1>2, <1>3, <1>6, <2>1, FindAccountKeeps
<1>7. ASSUME NEW a \in f.realm, AfterAccount(r, a), Holders(f.realm) = {},
             accounts' = [accounts EXCEPT ![a] = [status |-> "NEW", hasPhone |-> TRUE]]
      PROVE  SessionsInv'
    <2>1. a \in Accounts
        BY <1>2 DEF Accounts
    <2>2. /\ accounts' \in [Accounts -> [status : {"NONE", "NEW", "ACTIVE", "DELETED"}, hasPhone : BOOLEAN]]
          /\ \A b \in Accounts \ {a} : accounts'[b] = accounts[b]
        BY <1>3, <1>7, <2>1
    <2>3. \A b \in f.realm : ~accounts[b].hasPhone
        BY <1>7 DEF Holders
    <2>4. NumbersUnique'
        BY <1>2, <1>3, <2>2, <2>3 DEF NumbersUnique, Accounts, SessionsAssumption
    <2>5. QED
        BY <1>1, <1>2, <1>7, <2>2, <2>4, FindAccountKeeps
<1>8. QED
    BY <1>1, <1>4, <1>5, <1>6, <1>7 DEF FindAccount, CreateAccount, sessionVars

LEMMA MarkUsedKeeps ==
    ASSUME SessionsInv, NEW r \in Requests, MarkUsed(r)
    PROVE  SessionsInv'
<1>1. PICK f : f = req[r]
    OBVIOUS
<1>2. /\ f \in [at : {"mark", "token"}, account : Accounts, born : Nat, code : 0..Len(codes), from : 0..Len(tokens)]
      /\ f.at = "mark" /\ ~At(r, "idle") /\ UNCHANGED <<accounts, tokens, outs>> /\ SessionTables
    BY <1>1 DEF SessionsInv, SignInFrame, MarkUsed, At, Idle
<1>3. PICK frame : frame = [f EXCEPT !.at = "token"]
    OBVIOUS
<1>4. /\ frame \in [at : {"mark", "token"}, account : Accounts, born : Nat, code : 0..Len(codes), from : 0..Len(tokens)]
      /\ frame.at = "token" /\ frame.code = f.code /\ frame.account = f.account /\ frame.born = f.born
      /\ frame.from = f.from
    BY <1>2, <1>3
<1>5. Goto(r, frame)
    BY <1>1, <1>3 DEF MarkUsed, Continue
<1>6. /\ codes' \in Seq(Code) /\ Len(codes') = Len(codes)
      /\ \A j \in DOMAIN codes : codes'[j].pairs = codes[j].pairs
      /\ \A j \in DOMAIN codes : codes'[j].state = IF codes[j].state \in {"unused"} THEN "used" ELSE codes[j].state
    <2>1. codes' = [i \in DOMAIN codes |->
                       IF codes[i].state \in {"unused"} THEN [codes[i] EXCEPT !.state = "used"] ELSE codes[i]]
        BY DEF MarkUsed
    <2>2. QED
        BY <1>2, <2>1, CodesUsedUp
<1>7. SessionTables' /\ NumbersUnique' /\ Len(codes) <= Len(codes') /\ Len(tokens) <= Len(tokens')
    BY <1>2, <1>6 DEF SessionsInv, SessionTables, NumbersUnique
<1>8. SignInFrame(frame)'
    BY <1>2, <1>4, <1>6 DEF SignInFrame
<1>9. ASSUME ~overlapped PROVE CodesSingle' /\ TokensSingle' /\ SignInCurrent(frame)'
    <2>1. CodesSingle /\ TokensSingle /\ SignInCurrent(f)
        BY <1>1, <1>9 DEF SessionsInv
    <2>2. CodesSingle' /\ TokensSingle'
        BY <1>2, <1>6, <2>1, CodesStay DEF TokensSingle
    <2>3. f.from = 0 /\ f.born = outs[f.account] /\ (f.code # 0 => codes[f.code].pairs = 0)
        BY <1>2, <2>1 DEF SignInCurrent
    <2>4. f.code # 0 => f.code \in DOMAIN codes
        BY <1>2 DEF SessionTables
    <2>5. SignInCurrent(frame)'
        BY <1>2, <1>4, <1>6, <2>3, <2>4 DEF SignInCurrent
    <2>6. QED
        BY <2>2, <2>5
<1>10. QED
    BY <1>2, <1>5, <1>7, <1>8, <1>9, SignInStep

LEMMA MappedIsSeq ==
    ASSUME NEW S, NEW n \in Nat, NEW g, g = [i \in DOMAIN g |-> g[i]], DOMAIN g = 1..n,
           \A i \in 1..n : g[i] \in S
    PROVE  g \in Seq(S)
<1>1. g = [i \in 1..n |-> g[i]]
    OBVIOUS
<1>2. QED
    BY <1>1

(* A new session counts for the code or for the session it was made from. *)
LEMMA IssueKeeps ==
    ASSUME SessionsInv, NEW r \in Requests, GenerateTokenPair(r)
    PROVE  SessionsInv'
<1>1. PICK f : f = req[r]
    OBVIOUS
<1>2. /\ f \in [at : {"mark", "token"}, account : Accounts, born : Nat, code : 0..Len(codes), from : 0..Len(tokens)]
      /\ f.at = "token" /\ ~At(r, "idle") /\ UNCHANGED <<accounts, outs>> /\ Goto(r, Idle)
      /\ codes \in Seq(Code) /\ tokens \in Seq(Token)
    <2>1. At(r, "token") /\ UNCHANGED <<accounts, outs>> /\ Goto(r, Idle)
        BY DEF GenerateTokenPair, End
    <2>2. SignInFrame(f) /\ f.at = "token" /\ ~At(r, "idle")
        BY <1>1, <2>1 DEF SessionsInv, At
    <2>3. codes \in Seq(Code) /\ tokens \in Seq(Token)
        BY DEF SessionsInv, SessionTables
    <2>4. QED
        BY <2>1, <2>2, <2>3 DEF SignInFrame, Idle
<1>3. PICK new : new = [owner |-> f.account, state |-> "active", born |-> f.born, used |-> 0]
    OBVIOUS
<1>4. PICK old : old = [t \in DOMAIN tokens |-> [tokens[t] EXCEPT !.used = IF t = f.from THEN @ + 1 ELSE @]]
    OBVIOUS
<1>5. tokens' = Append(old, new) /\ codes' = [i \in DOMAIN codes |-> [codes[i] EXCEPT !.pairs = IF i = f.code THEN @ + 1 ELSE @]]
    BY <1>1, <1>3, <1>4 DEF GenerateTokenPair
<1>6. new \in Token
    BY <1>2, <1>3 DEF Token
<1>7. /\ old \in Seq(Token) /\ Len(old) = Len(tokens)
      /\ \A t \in DOMAIN tokens : /\ old[t].owner = tokens[t].owner /\ old[t].state = tokens[t].state
                                  /\ old[t].born = tokens[t].born
                                  /\ old[t].used = IF t = f.from THEN tokens[t].used + 1 ELSE tokens[t].used
    <2>1. \A x \in Token, n \in Nat : /\ [x EXCEPT !.used = n] \in Token /\ [x EXCEPT !.used = n].used = n
                                      /\ [x EXCEPT !.used = n].owner = x.owner
                                      /\ [x EXCEPT !.used = n].state = x.state
                                      /\ [x EXCEPT !.used = n].born = x.born
        BY DEF Token
    <2>2. ASSUME NEW t \in DOMAIN tokens
          PROVE  /\ old[t] \in Token
                 /\ old[t].owner = tokens[t].owner /\ old[t].state = tokens[t].state
                 /\ old[t].born = tokens[t].born
                 /\ old[t].used = IF t = f.from THEN tokens[t].used + 1 ELSE tokens[t].used
        <3>0. tokens \in Seq(Token)
            BY <1>2
        <3>a. tokens[t] \in Token
            BY <3>0
        <3>1. tokens[t] \in Token /\ tokens[t].used \in Nat
            BY <3>a DEF Token
        <3>2. PICK n \in Nat : n = IF t = f.from THEN tokens[t].used + 1 ELSE tokens[t].used
            BY <3>1
        <3>3. old[t] = [tokens[t] EXCEPT !.used = n]
            BY <1>4, <3>2
        <3>4. QED
            BY <2>1, <3>1, <3>2, <3>3
    <2>3. DOMAIN old = 1..Len(tokens) /\ Len(tokens) \in Nat
        BY <1>2, <1>4
    <2>a. \A t \in 1..Len(tokens) : old[t] \in Token
        BY <2>2, <1>2
    <2>4. old \in Seq(Token)
        BY <1>4, <2>a, <2>3, MappedIsSeq
    <2>5. QED
        BY <2>2, <2>3, <2>4
<1>8. /\ codes' \in Seq(Code) /\ Len(codes') = Len(codes)
      /\ \A i \in DOMAIN codes : /\ codes'[i].state = codes[i].state
                                 /\ codes'[i].pairs = IF i = f.code THEN codes[i].pairs + 1 ELSE codes[i].pairs
    <2>1. \A x \in Code, n \in Nat : /\ [x EXCEPT !.pairs = n] \in Code /\ [x EXCEPT !.pairs = n].pairs = n
                                     /\ [x EXCEPT !.pairs = n].state = x.state
        BY DEF Code
    <2>2. ASSUME NEW i \in DOMAIN codes
          PROVE  /\ codes'[i] \in Code /\ codes'[i].state = codes[i].state
                 /\ codes'[i].pairs = IF i = f.code THEN codes[i].pairs + 1 ELSE codes[i].pairs
        <3>0. codes \in Seq(Code)
            BY <1>2
        <3>a. codes[i] \in Code
            BY <3>0
        <3>1. codes[i] \in Code /\ codes[i].pairs \in Nat
            BY <3>a DEF Code
        <3>2. PICK n \in Nat : n = IF i = f.code THEN codes[i].pairs + 1 ELSE codes[i].pairs
            BY <3>1
        <3>3. codes'[i] = [codes[i] EXCEPT !.pairs = n]
            BY <1>5, <3>2
        <3>4. QED
            BY <2>1, <3>1, <3>2, <3>3
    <2>3. DOMAIN codes' = 1..Len(codes) /\ Len(codes) \in Nat
        BY <1>2, <1>5
    <2>a. \A i \in 1..Len(codes) : codes'[i] \in Code
        BY <2>2, <1>2
    <2>4. codes' \in Seq(Code)
        BY <1>5, <2>a, <2>3, MappedIsSeq
    <2>5. QED
        BY <2>2, <2>3, <2>4
<1>9. /\ tokens' \in Seq(Token) /\ Len(tokens') = Len(tokens) + 1 /\ tokens'[Len(tokens) + 1] = new
      /\ \A t \in DOMAIN tokens' : t \in DOMAIN tokens \/ t = Len(tokens) + 1
      /\ \A t \in DOMAIN tokens : tokens'[t] = old[t]
    BY <1>5, <1>6, <1>7, <1>2
<1>10. SessionTables' /\ NumbersUnique' /\ Len(codes) <= Len(codes') /\ Len(tokens) <= Len(tokens')
    BY <1>2, <1>8, <1>9 DEF SessionsInv, SessionTables, NumbersUnique
<1>11. ASSUME ~overlapped PROVE CodesSingle' /\ TokensSingle'
    <2>1. CodesSingle /\ TokensSingle /\ SignInCurrent(f)
        BY <1>1, <1>11 DEF SessionsInv
    <2>2. /\ f.born = outs[f.account]
          /\ f.code # 0 => codes[f.code].pairs = 0 /\ codes[f.code].state # "unused"
          /\ f.from # 0 => tokens[f.from].used = 0 /\ tokens[f.from].state # "active"
        BY <1>2, <2>1 DEF SignInCurrent
    <2>3. CodesSingle'
        <3> SUFFICES ASSUME NEW i \in DOMAIN codes'
                     PROVE  codes'[i].pairs <= 1 /\ (codes'[i].state = "unused" => codes'[i].pairs = 0)
            BY DEF CodesSingle
        <3>1. i \in DOMAIN codes /\ i # 0
            BY <1>2, <1>8
        <3>2. QED
            BY <1>8, <2>1, <2>2, <3>1 DEF CodesSingle
    <2>4. TokensSingle'
        <3> SUFFICES ASSUME NEW t \in DOMAIN tokens'
                     PROVE  /\ tokens'[t].used <= 1
                            /\ tokens'[t].state = "active" =>
                                  tokens'[t].used = 0 /\ tokens'[t].born = outs'[tokens'[t].owner]
            BY DEF TokensSingle
        <3>1. CASE t = Len(tokens) + 1
            BY <1>2, <1>3, <1>9, <2>2, <3>1
        <3>2. CASE t \in DOMAIN tokens
            <4>1. t # 0 /\ tokens'[t] = old[t] /\ outs' = outs
                BY <1>2, <1>9, <3>2
            <4>2. QED
                BY <1>7, <2>1, <2>2, <3>2, <4>1 DEF TokensSingle
        <3>3. QED
            BY <1>9, <3>1, <3>2
    <2>5. QED
        BY <2>3, <2>4
<1>12. SignInFrame(Idle)' /\ SignInCurrent(Idle)'
    BY DEF SignInFrame, SignInCurrent, Idle
<1>13. QED
    BY <1>2, <1>10, <1>11, <1>12, SignInStep

(* A step that closes sessions, or changes nothing of them but their states. *)
LEMMA TokensStay ==
    ASSUME SessionTables, TokensSingle, tokens' \in Seq(Token), Len(tokens') = Len(tokens),
           \A t \in DOMAIN tokens :
              /\ tokens'[t].used = tokens[t].used
              /\ tokens'[t].state = "active" => /\ tokens[t].state = "active"
                                                /\ tokens'[t].born = outs'[tokens'[t].owner]
    PROVE  TokensSingle'
<1>1. DOMAIN tokens' = DOMAIN tokens
    BY DEF SessionTables
<1>2. QED
    BY <1>1 DEF TokensSingle

LEMMA RefreshKeeps ==
    ASSUME SessionsInv, NEW r \in Requests, NEW t \in DOMAIN tokens, RefreshToken(r, t)
    PROVE  SessionsInv'
<1>1. PICK frame : frame = [at |-> "revoke", token |-> t]
    OBVIOUS
<1>2. Goto(r, frame) /\ UNCHANGED sessionVars /\ tokens[t].state = "active"
    BY <1>1 DEF RefreshToken, Begin
<1>3. t \in 1..Len(tokens)
    BY DEF SessionsInv, SessionTables
<1>4. SignInFrame(frame) /\ frame # Idle
    BY <1>1, <1>3 DEF SignInFrame, Idle
<1>5. ASSUME ~overlapped PROVE SignInCurrent(frame)
    <2>1. TokensSingle
        BY <1>5 DEF SessionsInv
    <2>2. QED
        BY <1>1, <1>2, <2>1 DEF TokensSingle, SignInCurrent
<1>6. QED
    BY <1>2, <1>4, <1>5, SignInReads

LEMMA RotateKeeps ==
    ASSUME SessionsInv, NEW r \in Requests, RotateToken(r)
    PROVE  SessionsInv'
<1>1. PICK f : f = req[r]
    OBVIOUS
<1>2. f \in [at : {"revoke"}, token : 1..Len(tokens)] /\ ~At(r, "idle") /\ UNCHANGED <<accounts, codes, outs>>
    <2>1. SignInFrame(f) /\ f.at = "revoke" /\ ~At(r, "idle") /\ UNCHANGED <<accounts, codes, outs>>
        BY <1>1 DEF SessionsInv, RotateToken, At
    <2>2. QED
        BY <2>1 DEF SignInFrame, Idle
<1>3. PICK t : t = f.token
    OBVIOUS
<1>4. /\ SessionTables /\ tokens \in Seq(Token) /\ codes \in Seq(Code) /\ t \in DOMAIN tokens
      /\ outs \in [Accounts -> Nat]
    BY <1>2, <1>3 DEF SessionsInv, SessionTables
<1>5. CASE End(r) /\ UNCHANGED tokens
    <2>1. SignInFrame(Idle) /\ SignInCurrent(Idle) /\ Goto(r, Idle) /\ UNCHANGED sessionVars
        BY <1>2, <1>5 DEF SignInFrame, SignInCurrent, Idle, End, sessionVars
    <2>2. QED
        BY <1>2, <2>1, SignInReads
<1>6. ASSUME tokens' = [tokens EXCEPT ![t].state = "revoked"],
             Goto(r, [at |-> "token", account |-> tokens[t].owner, born |-> tokens[t].born, code |-> 0, from |-> t])
      PROVE  SessionsInv'
    <2>1. PICK frame : frame = [at |-> "token", account |-> tokens[t].owner, born |-> tokens[t].born,
                                code |-> 0, from |-> t]
        OBVIOUS
    <2>2. tokens[t] \in Token
        BY <1>4
    <2>3. \A x \in Token : /\ [x EXCEPT !.state = "revoked"] \in Token
                           /\ [x EXCEPT !.state = "revoked"].state = "revoked"
                           /\ [x EXCEPT !.state = "revoked"].used = x.used
                           /\ [x EXCEPT !.state = "revoked"].born = x.born
                           /\ [x EXCEPT !.state = "revoked"].owner = x.owner
        BY DEF Token
    <2>4. PICK x : x = [tokens[t] EXCEPT !.state = "revoked"]
        OBVIOUS
    <2>5. /\ x \in Token /\ x.state = "revoked" /\ x.used = tokens[t].used
          /\ x.born = tokens[t].born /\ x.owner = tokens[t].owner
        BY <2>2, <2>3, <2>4
    <2>6. tokens' = [tokens EXCEPT ![t] = x]
        BY <1>6, <2>4
    <2>7. tokens' \in Seq(Token) /\ Len(tokens') = Len(tokens) /\ tokens'[t] = x
          /\ \A u \in DOMAIN tokens : u # t => tokens'[u] = tokens[u]
        BY <1>4, <2>5, <2>6
    <2>8. SessionTables' /\ NumbersUnique' /\ Len(codes) <= Len(codes') /\ Len(tokens) <= Len(tokens')
        BY <1>2, <1>4, <2>7 DEF SessionsInv, SessionTables, NumbersUnique
    <2>9. tokens[t].owner \in Accounts /\ tokens[t].born \in Nat
        BY <2>2 DEF Token
    <2>10. SignInFrame(frame)' /\ frame # Idle
        <3>1. t \in 0..Len(tokens') /\ 0 \in 0..Len(codes')
            BY <1>4, <2>7, <2>8 DEF SessionTables
        <3>2. QED
            BY <2>1, <2>9, <3>1 DEF SignInFrame, Idle
    <2>11. ASSUME ~overlapped PROVE CodesSingle' /\ TokensSingle' /\ SignInCurrent(frame)'
        <3>1. CodesSingle /\ TokensSingle /\ SignInCurrent(f)
            BY <1>1, <2>11 DEF SessionsInv
        <3>2. tokens[t].used = 0 /\ tokens[t].born = outs[tokens[t].owner]
            BY <1>2, <1>3, <3>1 DEF SignInCurrent
        <3>3. CodesSingle'
            BY <1>2, <3>1 DEF CodesSingle
        <3>4. \A u \in DOMAIN tokens :
                 /\ tokens'[u].used = tokens[u].used
                 /\ tokens'[u].state = "active" => /\ tokens[u].state = "active"
                                                   /\ tokens'[u].born = outs'[tokens'[u].owner]
            BY <1>2, <2>5, <2>7, <3>1 DEF TokensSingle
        <3>5. TokensSingle'
            BY <1>4, <2>7, <3>1, <3>4, TokensStay
        <3>6. SignInCurrent(frame)'
            BY <1>2, <2>1, <2>5, <2>7, <3>2 DEF SignInCurrent
        <3>7. QED
            BY <3>3, <3>5, <3>6
    <2>12. Goto(r, frame)
        BY <1>6, <2>1
    <2>13. QED
        BY <2>8, <2>10, <2>11, <2>12, SignInStep
<1>7. QED
    BY <1>1, <1>3, <1>5, <1>6 DEF RotateToken

(* Logging out and erasing an account close its sessions and count it. *)
LEMMA EndingKeeps ==
    ASSUME SessionsInv, NEW r \in Requests, NEW a \in Accounts, NEW state \in {"revoked", "gone"},
           CloseSessions(a, state), SignedOut(a), End(r), ~At(r, "idle"),
           accounts' \in [Accounts -> [status : {"NONE", "NEW", "ACTIVE", "DELETED"}, hasPhone : BOOLEAN]],
           NumbersUnique', codes' \in Seq(Code), Len(codes') = Len(codes),
           \A j \in DOMAIN codes : codes'[j].pairs = codes[j].pairs,
           \A j \in DOMAIN codes : codes'[j].state = "unused" => codes[j].state = "unused"
    PROVE  SessionsInv'
<1>1. /\ tokens' \in Seq(Token) /\ Len(tokens') = Len(tokens)
      /\ \A t \in DOMAIN tokens :
            /\ tokens'[t].owner = tokens[t].owner /\ tokens'[t].born = tokens[t].born
            /\ tokens'[t].used = tokens[t].used
            /\ tokens'[t].state = "active" => tokens[t].state = "active" /\ tokens[t].owner # a
    BY CloseSessionsOK DEF SessionsInv
<1>2. /\ SessionTables /\ outs \in [Accounts -> Nat] /\ tokens \in Seq(Token) /\ codes \in Seq(Code)
      /\ \A t \in DOMAIN tokens : tokens[t] \in Token
    BY DEF SessionsInv, SessionTables
<1>3. /\ outs' \in [Accounts -> Nat] /\ \A b \in Accounts \ {a} : outs'[b] = outs[b]
    BY <1>2 DEF SignedOut
<1>4. SessionTables' /\ Len(codes) <= Len(codes') /\ Len(tokens) <= Len(tokens')
    BY <1>1, <1>2, <1>3 DEF SessionTables
<1>5. SignInFrame(Idle)' /\ SignInCurrent(Idle)'
    BY DEF SignInFrame, SignInCurrent, Idle
<1>6. ASSUME ~overlapped PROVE CodesSingle' /\ TokensSingle'
    <2>1. CodesSingle /\ TokensSingle
        BY <1>6 DEF SessionsInv
    <2>2. \A t \in DOMAIN tokens : tokens[t].owner \in Accounts
        BY <1>2 DEF Token
    <2>3. \A t \in DOMAIN tokens :
             /\ tokens'[t].used = tokens[t].used
             /\ tokens'[t].state = "active" => /\ tokens[t].state = "active"
                                               /\ tokens'[t].born = outs'[tokens'[t].owner]
        <3> SUFFICES ASSUME NEW t \in DOMAIN tokens
                     PROVE  /\ tokens'[t].used = tokens[t].used
                            /\ tokens'[t].state = "active" => /\ tokens[t].state = "active"
                                                              /\ tokens'[t].born = outs'[tokens'[t].owner]
            OBVIOUS
        <3>1. tokens'[t].state = "active" => tokens[t].state = "active" /\ tokens[t].owner \in Accounts \ {a}
            BY <1>1, <2>2
        <3>2. tokens[t].state = "active" => tokens[t].born = outs[tokens[t].owner]
            BY <2>1 DEF TokensSingle
        <3>3. QED
            BY <1>1, <1>3, <3>1, <3>2
    <2>4. CodesSingle'
        BY <1>2, <2>1, CodesStay
    <2>5. QED
        BY <1>1, <1>2, <2>1, <2>3, <2>4, TokensStay
<1>7. Goto(r, Idle)
    BY DEF End
<1>8. QED
    BY <1>4, <1>5, <1>6, <1>7, SignInStep

LEMMA EndOfSessionsKeeps ==
    ASSUME SessionsInv, NEW r \in Requests, RevokeAll(r) \/ EraseAccount(r)
    PROVE  SessionsInv'
<1>1. PICK a : a = req[r].account
    OBVIOUS
<1>2. a \in Accounts /\ ~At(r, "idle")
    <2>1. SignInFrame(req[r]) /\ req[r].at \in {"logout", "erase"} /\ ~At(r, "idle")
        BY DEF SessionsInv, RevokeAll, EraseAccount, At
    <2>2. QED
        BY <1>1, <2>1 DEF SignInFrame, Idle
<1>3. /\ SessionTables /\ codes \in Seq(Code) /\ NumbersUnique
      /\ accounts \in [Accounts -> [status : {"NONE", "NEW", "ACTIVE", "DELETED"}, hasPhone : BOOLEAN]]
    BY DEF SessionsInv, SessionTables
<1>4. CASE RevokeAll(r)
    <2>1. CloseSessions(a, "revoked") /\ SignedOut(a) /\ End(r) /\ accounts' = accounts /\ codes' = codes
        BY <1>1, <1>4 DEF RevokeAll
    <2>2. NumbersUnique'
        BY <1>3, <2>1 DEF NumbersUnique
    <2>3. /\ accounts' \in [Accounts -> [status : {"NONE", "NEW", "ACTIVE", "DELETED"}, hasPhone : BOOLEAN]]
          /\ codes' \in Seq(Code) /\ Len(codes') = Len(codes)
          /\ \A j \in DOMAIN codes : codes'[j].pairs = codes[j].pairs
          /\ \A j \in DOMAIN codes : codes'[j].state = "unused" => codes[j].state = "unused"
        BY <1>3, <2>1
    <2>4. QED
        BY <1>2, <2>1, <2>2, <2>3, EndingKeeps
<1>5. CASE EraseAccount(r)
    <2>1. /\ CloseSessions(a, "gone") /\ SignedOut(a) /\ End(r)
          /\ accounts' = [accounts EXCEPT ![a] = [status |-> "DELETED", hasPhone |-> FALSE]]
          /\ codes' = IF a \in Partners THEN codes
                      ELSE [i \in DOMAIN codes |-> [codes[i] EXCEPT !.state = "gone"]]
        BY <1>1, <1>5 DEF EraseAccount
    <2>2. /\ accounts' \in [Accounts -> [status : {"NONE", "NEW", "ACTIVE", "DELETED"}, hasPhone : BOOLEAN]]
          /\ \A b \in Accounts : accounts'[b].hasPhone => accounts[b].hasPhone
        BY <1>2, <1>3, <2>1
    <2>3. NumbersUnique'
        BY <1>3, <2>2 DEF NumbersUnique, Accounts
    <2>4. /\ codes' \in Seq(Code) /\ Len(codes') = Len(codes)
          /\ \A j \in DOMAIN codes : codes'[j].pairs = codes[j].pairs
          /\ \A j \in DOMAIN codes : codes'[j].state = "unused" => codes[j].state = "unused"
        <3>1. CASE a \in Partners
            BY <1>3, <2>1, <3>1
        <3>2. CASE a \notin Partners
            <4>1. \A i \in DOMAIN codes : codes[i] \in Code
                BY <1>3
            <4>2. \A i \in DOMAIN codes : codes[i].state \in {"unused", "used", "gone"}
                BY <4>1 DEF Code
            <4>3. codes' = [i \in DOMAIN codes |->
                               IF codes[i].state \in {"unused", "used", "gone"}
                               THEN [codes[i] EXCEPT !.state = "gone"] ELSE codes[i]]
                BY <2>1, <3>2, <4>2
            <4>4. /\ codes' \in Seq(Code) /\ Len(codes') = Len(codes)
                  /\ \A j \in DOMAIN codes :
                        /\ codes'[j].pairs = codes[j].pairs
                        /\ codes'[j].state = IF codes[j].state \in {"unused", "used", "gone"}
                                             THEN "gone" ELSE codes[j].state
                BY <1>3, <4>3, CodesUsedUp
            <4>5. QED
                BY <4>2, <4>4
        <3>3. QED
            BY <3>1, <3>2
    <2>5. QED
        BY <1>2, <2>1, <2>2, <2>3, <2>4, EndingKeeps
<1>6. QED
    BY <1>4, <1>5

(* Calls that look something up and go on with what they found. *)
LEMMA LookUpsKeep ==
    ASSUME SessionsInv, NEW r \in Requests,
           \/ \E i \in DOMAIN codes : \/ VerifyOtp(r, i) \/ PartnerVerifyOtp(r, i)
                                      \/ ConfirmAccountDeletion(r, i) \/ PartnerConfirmDeletion(r, i)
           \/ \E a \in Accounts : Logout(r, a)
           \/ FindDeleted(r)
    PROVE  SessionsInv'
<1>1. ASSUME NEW i \in DOMAIN codes,
             VerifyOtp(r, i) \/ PartnerVerifyOtp(r, i)
                \/ ConfirmAccountDeletion(r, i) \/ PartnerConfirmDeletion(r, i)
      PROVE  SessionsInv'
    <2>1. CASE VerifyOtp(r, i)
        BY <2>1, CodeFound DEF VerifyOtp, Begin
    <2>2. CASE PartnerVerifyOtp(r, i)
        BY <2>2, CodeFound DEF PartnerVerifyOtp, Begin
    <2>3. CASE ConfirmAccountDeletion(r, i) \/ PartnerConfirmDeletion(r, i)
        BY <2>3, CodeFound DEF ConfirmAccountDeletion, PartnerConfirmDeletion, ConfirmDeletion, Begin
    <2>4. QED
        BY <1>1, <2>1, <2>2, <2>3
<1>2. ASSUME NEW a \in Accounts, NEW step \in {"logout", "erase"},
             Goto(r, [at |-> step, account |-> a]), UNCHANGED sessionVars
      PROVE  SessionsInv'
    <2> DEFINE frame == [at |-> step, account |-> a]
    <2>1. SignInFrame(frame) /\ SignInCurrent(frame) /\ frame # Idle
        BY DEF SignInFrame, SignInCurrent, Idle
    <2>2. QED
        BY <1>2, <2>1, SignInReads
<1>3. ASSUME NEW a \in Accounts, Logout(r, a) PROVE SessionsInv'
    BY <1>2, <1>3 DEF Logout, Begin
<1>4. CASE FindDeleted(r)
    <2>1. /\ At(r, "findDeleted") /\ UNCHANGED sessionVars
          /\ End(r) \/ \E a \in Holders(req[r].realm) : Goto(r, [at |-> "erase", account |-> a])
        BY <1>4 DEF FindDeleted
    <2>2. req[r].realm \in {Users, Partners} /\ ~At(r, "idle")
        BY <2>1 DEF SessionsInv, SignInFrame, At, Idle
    <2>3. Holders(req[r].realm) \subseteq Accounts
        BY <2>2 DEF Holders, Accounts
    <2>4. CASE End(r)
        <3>1. SignInFrame(Idle) /\ SignInCurrent(Idle) /\ Goto(r, Idle)
            BY <2>4 DEF SignInFrame, SignInCurrent, Idle, End
        <3>2. QED
            BY <2>1, <2>2, <3>1, SignInReads
    <2>5. ASSUME NEW a \in Holders(req[r].realm), Goto(r, [at |-> "erase", account |-> a])
          PROVE  SessionsInv'
        BY <1>2, <2>1, <2>3, <2>5
    <2>6. QED
        BY <2>1, <2>4, <2>5
<1>5. QED
    BY <1>1, <1>3, <1>4

LEMMA SessionsAborts ==
    ASSUME SessionsInv, NEW r \in Requests, Abort(r), UNCHANGED sessionVars
    PROVE  SessionsInv'
<1>1. SignInFrame(Idle) /\ SignInCurrent(Idle) /\ Goto(r, Idle) /\ ~At(r, "idle")
    BY DEF SignInFrame, SignInCurrent, Idle, Abort, End
<1>2. QED
    BY <1>1, SignInReads

LEMMA SessionsKeep ==
    ASSUME SessionsAssumption
    PROVE  SessionsInv /\ [SessionsNext]_<<sessionVars, handlerVars>> => SessionsInv'
<1> SUFFICES ASSUME SessionsInv, [SessionsNext]_<<sessionVars, handlerVars>> PROVE SessionsInv'
    OBVIOUS
<1>1. ASSUME NEW r \in Requests, SessionsStep(r) PROVE SessionsInv'
    BY <1>1, SendingKeeps, LookUpsKeep, UseCodeKeeps, AccountKeeps, MarkUsedKeeps, IssueKeeps,
       RefreshKeeps, RotateKeeps, EndOfSessionsKeeps DEF SessionsStep
<1>2. CASE UNCHANGED <<sessionVars, handlerVars>>
    BY <1>2 DEF SessionsInv, SessionTables, NumbersUnique, CodesSingle, TokensSingle, SignInFrame, SignInCurrent,
                Serial, Tracked, OneByOne, InFlight, At, sessionVars, handlerVars
<1>3. QED
    BY <1>1, <1>2, SignInCallsKeep, SessionsAborts DEF SessionsNext

LEMMA SessionsBegin == HandlersInit /\ SessionsInit => SessionsInv
<1> SUFFICES ASSUME HandlersInit, SessionsInit PROVE SessionsInv
    OBVIOUS
<1>1. Serial /\ \A r \in Requests : req[r] = Idle
    BY InitSerial DEF HandlersInit
<1>2. SessionTables /\ NumbersUnique
    BY DEF SessionsInit, SessionTables, NumbersUnique, Accounts
<1>3. CodesSingle /\ TokensSingle
    BY DEF SessionsInit, CodesSingle, TokensSingle
<1>4. \A r \in Requests : SignInFrame(req[r]) /\ SignInCurrent(req[r])
    <2>1. SignInFrame(Idle) /\ SignInCurrent(Idle)
        BY DEF SignInFrame, SignInCurrent, Idle
    <2>2. QED
        BY <1>1, <2>1
<1>5. QED
    BY <1>1, <1>2, <1>3, <1>4 DEF SessionsInv

LEMMA SessionsInvariant ==
    ASSUME SessionsAssumption
    PROVE  SessionsSpec => []SessionsInv
<1>1. HandlersInit /\ SessionsInit => SessionsInv
    BY SessionsBegin
<1>2. SessionsInv /\ [SessionsNext]_<<sessionVars, handlerVars>> => SessionsInv'
    BY SessionsKeep
<1>3. QED
    BY <1>1, <1>2, PTL DEF SessionsSpec

(* Whatever is killed half way, requests that come one by one use a code for  *)
(* one sign-in and a refresh token for one exchange; and however they overlap *)
(* no two accounts of a realm have the number (verifyOtp, refreshToken).      *)
THEOREM SignInsAreSingleUse == SessionsSpec => []SingleUse
<1>1. SessionsInv => SingleUse
    <2> SUFFICES ASSUME SessionsInv PROVE SingleUse
        OBVIOUS
    <2>1. /\ \A a, b \in Holders(Users) : a = b
          /\ \A a, b \in Holders(Partners) : a = b
        BY DEF SessionsInv, NumbersUnique, Holders
    <2>2. Cardinality(Holders(Users)) <= 1 /\ Cardinality(Holders(Partners)) <= 1
        BY <2>1, SetOfOne
    <2>3. QED
        BY <2>2 DEF SessionsInv, CodesSingle, TokensSingle, SingleUse
<1>2. QED
    BY <1>1, SessionsAssumption, SessionsInvariant, PTL

(* Logging out and deleting an account end every session it had (logout,     *)
(* confirmAccountDeletion): one that is open belongs to a sign-in, or to     *)
(* a refresh of one, that came after the last of them.                       *)
THEOREM LogoutsEndSessions == SessionsSpec => []SessionsEnd
<1>1. SessionsInv => SessionsEnd
    BY DEF SessionsInv, TokensSingle, SessionsEnd
<1>2. QED
    BY <1>1, SessionsAssumption, SessionsInvariant, PTL

-----------------------------------------------------------------------------
(* Vetting.  While requests come one by one: an application that is handed in *)
(* or approved is complete, kitchen and account are live together, and a      *)
(* request for the licence is still what the call about it has seen.          *)

AssistStatuses == {"PENDING_PAYMENT", "DOCUMENTS_SUBMITTED", "APPLICATION_FILED",
                   "GOVT_REVIEW_IN_PROGRESS", "APPROVED", "REJECTED", "CANCELLED"}

Assistance == [status : AssistStatuses, documents : SUBSET AssistDocuments, paid : BOOLEAN]

Standing == [status : {"ONBOARDING", "UNDER_REVIEW", "ACTIVE", "DELETED"}, step : 0..Completed]

VettingTables == account \in Standing /\ assist \in Seq(Assistance)

VettingFrame(f) ==
    \/ f = Idle
    \/ f \in [at : {"documents", "readStep", "writeStep"}, to : 1..6]
    \/ f \in [at : {"kitchen"}, found : BOOLEAN]
    \/ f \in [at : {"assistance", "submit"}, licensed : BOOLEAN]
    \/ f \in [at : {"approve", "reject", "start"}]
    \/ f \in [at : {"pay", "cancel"}, request : 1..Len(assist)]
    \/ f \in [at : {"change"}, request : 1..Len(assist), to : AssistStatuses \ {"PENDING_PAYMENT", "CANCELLED"}]

Papers == Required \ {"dish"}

FunnelOK ==
    /\ account.status \in {"UNDER_REVIEW", "ACTIVE"} => Papers \subseteq given
    /\ (kitchen = "ACTIVE") <=> (account.status = "ACTIVE")
    /\ account.status \in {"ONBOARDING", "UNDER_REVIEW"} => account.step <= Submitted

FunnelCurrent(f) ==
    /\ f.at = "writeStep" => f.to > account.step
    /\ f.at \in {"assistance", "submit"} => account.status = "ONBOARDING" /\ Papers \subseteq given
    /\ f.at \in {"approve", "reject"} => account.status = "UNDER_REVIEW"

LicencesOK ==
    /\ \A i \in DOMAIN assist : assist[i].paid => assist[i].status \notin {"PENDING_PAYMENT", "CANCELLED"}
    /\ \A i, j \in OpenRequests : i = j

LicenceCurrent(f) ==
    /\ f.at = "start" => OpenRequests = {}
    /\ f.at \in {"pay", "change"} => NonTerminal(assist[f.request].status)
    /\ f.at = "cancel" => assist[f.request].status = "PENDING_PAYMENT"

(* The operators look at the review queue, and at nothing else. *)
OnlyTheQueue == Decidable \subseteq {"UNDER_REVIEW"}

VettingInv ==
    /\ Serial /\ VettingTables
    /\ \A r \in Requests : VettingFrame(req[r])
    /\ ~overlapped => LicencesOK /\ \A r \in Requests : LicenceCurrent(req[r])
    /\ OnlyTheQueue /\ ~overlapped => FunnelOK /\ \A r \in Requests : FunnelCurrent(req[r])

(* A request goes on to another step. *)
LEMMA VettingGoes ==
    ASSUME VettingInv, NEW r \in Requests, NEW frame, Goto(r, frame),
           VettingTables', Len(assist) <= Len(assist'), VettingFrame(frame)',
           ~At(r, "idle") \/ frame # Idle,
           ~overlapped => LicencesOK' /\ LicenceCurrent(frame)',
           OnlyTheQueue /\ ~overlapped => FunnelOK' /\ FunnelCurrent(frame)'
    PROVE  VettingInv'
<1>1. Serial' /\ req'[r] = frame /\ \A q \in Requests \ {r} : req'[q] = req[q]
    BY GotoOK, GotoSerial DEF VettingInv, Serial
<1>2. ASSUME NEW q \in Requests PROVE (VettingFrame(req[q]))'
    <2>1. CASE q = r
        BY <1>1, <2>1 DEF VettingFrame
    <2>2. CASE q # r
        <3>1. PICK f : f = req[q]
            OBVIOUS
        <3>2. VettingFrame(f) /\ Len(assist) \in Nat /\ Len(assist') \in Nat
            BY <3>1 DEF VettingInv, VettingTables
        <3>3. VettingFrame(f)'
            BY <3>2 DEF VettingFrame
        <3>4. req'[q] = f
            BY <1>1, <2>2, <3>1
        <3>5. QED
            BY <3>3, <3>4 DEF VettingFrame
    <2>3. QED
        BY <2>1, <2>2
<1>3. ASSUME ~overlapped'
      PROVE  /\ LicencesOK' /\ \A q \in Requests : (LicenceCurrent(req[q]))'
             /\ OnlyTheQueue => FunnelOK' /\ \A q \in Requests : (FunnelCurrent(req[q]))'
    <2>1. ~overlapped /\ \A q \in Requests \ {r} : req'[q].at = "idle"
        BY <1>3, OthersIdle DEF VettingInv
    <2>2. \A q \in Requests \ {r} : (LicenceCurrent(req[q]))' /\ (FunnelCurrent(req[q]))'
        BY <2>1 DEF LicenceCurrent, FunnelCurrent
    <2>3. (LicenceCurrent(req[r]))' /\ (OnlyTheQueue => (FunnelCurrent(req[r]))')
        BY <1>1, <2>1 DEF LicenceCurrent, FunnelCurrent
    <2>4. QED
        BY <2>1, <2>2, <2>3
<1>4. QED
    BY <1>1, <1>2, <1>3 DEF VettingInv, OnlyTheQueue

(* A request that changes nothing but the funnel's things, or nothing at all. *)
LEMMA FunnelGoes ==
    ASSUME VettingInv, NEW r \in Requests, NEW frame, Goto(r, frame), assist' = assist, account' \in Standing,
           VettingFrame(frame), ~At(r, "idle") \/ frame # Idle, ~overlapped => LicenceCurrent(frame),
           OnlyTheQueue /\ ~overlapped => FunnelOK' /\ FunnelCurrent(frame)'
    PROVE  VettingInv'
<1>1. VettingTables' /\ Len(assist) <= Len(assist') /\ VettingFrame(frame)'
    BY DEF VettingInv, VettingTables, VettingFrame
<1>2. ~overlapped => LicencesOK' /\ LicenceCurrent(frame)'
    BY DEF VettingInv, LicencesOK, LicenceCurrent, OpenRequests
<1>3. QED
    BY <1>1, <1>2, VettingGoes

(* A request that changes nothing but the requests for the licence. *)
LEMMA LicenceGoes ==
    ASSUME VettingInv, NEW r \in Requests, NEW frame, Goto(r, frame), UNCHANGED <<given, account, kitchen>>,
           assist' \in Seq(Assistance), Len(assist) <= Len(assist'), VettingFrame(frame)',
           ~At(r, "idle") \/ frame # Idle,
           ~overlapped => LicencesOK' /\ LicenceCurrent(frame)', FunnelCurrent(frame)
    PROVE  VettingInv'
<1>1. VettingTables'
    BY DEF VettingInv, VettingTables
<1>2. OnlyTheQueue /\ ~overlapped => FunnelOK' /\ FunnelCurrent(frame)'
    BY DEF VettingInv, FunnelOK, FunnelCurrent
<1>3. QED
    BY <1>1, <1>2, VettingGoes

LEMMA VettingReads ==
    ASSUME VettingInv, NEW r \in Requests, NEW frame, Goto(r, frame), UNCHANGED vettingVars,
           VettingFrame(frame), ~At(r, "idle") \/ frame # Idle,
           ~overlapped => LicenceCurrent(frame),
           OnlyTheQueue /\ ~overlapped => FunnelCurrent(frame)
    PROVE  VettingInv'
<1>1. UNCHANGED <<given, account, kitchen, assist>> /\ account \in Standing
    BY DEF vettingVars, VettingInv, VettingTables
<1>2. OnlyTheQueue /\ ~overlapped => FunnelOK' /\ FunnelCurrent(frame)'
    BY <1>1 DEF VettingInv, FunnelOK, FunnelCurrent
<1>3. QED
    BY <1>1, <1>2, FunnelGoes

LEMMA IdleVets == VettingFrame(Idle) /\ LicenceCurrent(Idle) /\ FunnelCurrent(Idle)
                  /\ VettingFrame(Idle)' /\ LicenceCurrent(Idle)' /\ FunnelCurrent(Idle)'
BY DEF VettingFrame, LicenceCurrent, FunnelCurrent, Idle

(* What the request at a step of the funnel carries. *)
LEMMA FunnelCarries ==
    ASSUME VettingInv, NEW r \in Requests, NEW f, f = req[r],
           f.at \in {"documents", "readStep", "writeStep"}
    PROVE  f \in [at : {"documents", "readStep", "writeStep"}, to : 1..6] /\ ~At(r, "idle")
BY DEF VettingInv, VettingFrame, At, Idle

LEMMA StepsAreOfTheFunnel == \A thing \in DOMAIN StepOf : StepOf[thing] \in 1..6
BY DEF StepOf

-----------------------------------------------------------------------------
(* The funnel and the review *)

LEMMA SaveKeeps ==
    ASSUME VettingInv, NEW r \in Requests, NEW thing \in DOMAIN StepOf, Save(r, thing)
    PROVE  VettingInv'
<1>1. PICK step \in {"documents", "readStep"} : Goto(r, [at |-> step, to |-> StepOf[thing]])
    BY DEF Save, Begin
<1>2. PICK frame : frame = [at |-> step, to |-> StepOf[thing]]
    OBVIOUS
<1>3. StepOf[thing] \in 1..6
    BY StepsAreOfTheFunnel
<1>4. /\ VettingFrame(frame) /\ frame # Idle /\ LicenceCurrent(frame) /\ FunnelCurrent(frame)'
    BY <1>2, <1>3 DEF VettingFrame, Idle, LicenceCurrent, FunnelCurrent
<1>5. given' = given \cup {thing} /\ UNCHANGED <<account, kitchen, assist>>
    BY DEF Save
<1>6. OnlyTheQueue /\ ~overlapped => FunnelOK'
    BY <1>5 DEF VettingInv, FunnelOK
<1>7. account' \in Standing
    BY <1>5 DEF VettingInv, VettingTables
<1>8. QED
    BY <1>1, <1>2, <1>4, <1>5, <1>6, <1>7, FunnelGoes

LEMMA KitchenKeeps ==
    ASSUME VettingInv, NEW r \in Requests, SaveKitchenDetails(r) \/ WriteKitchen(r)
    PROVE  VettingInv'
<1>1. CASE SaveKitchenDetails(r)
    <2>1. PICK frame : frame = [at |-> "kitchen", found |-> kitchen # "NONE"]
        OBVIOUS
    <2>2. VettingFrame(frame) /\ frame # Idle /\ LicenceCurrent(frame) /\ FunnelCurrent(frame)
        BY <2>1 DEF VettingFrame, Idle, LicenceCurrent, FunnelCurrent
    <2>3. QED
        BY <1>1, <2>1, <2>2, VettingReads DEF SaveKitchenDetails, Begin
<1>2. CASE WriteKitchen(r)
    <2>0. ~At(r, "idle") /\ UNCHANGED <<account, assist>> /\ account' \in Standing
        BY <1>2 DEF WriteKitchen, At, VettingInv, VettingTables
    <2>1. CASE End(r) /\ UNCHANGED <<given, kitchen>>
        BY <2>0, <2>1, VettingReads, IdleVets DEF End, vettingVars
    <2>2. CASE /\ kitchen' = IF kitchen = "NONE" THEN "PENDING" ELSE kitchen
               /\ given' = given \cup {"kitchen"} /\ Later(r, "kitchen")
        <3>1. PICK frame : frame = [at |-> "readStep", to |-> 2]
            OBVIOUS
        <3>2. Goto(r, frame)
            BY <2>2, <3>1 DEF Later, StepOf
        <3>3. VettingFrame(frame) /\ LicenceCurrent(frame) /\ FunnelCurrent(frame)'
            BY <3>1 DEF VettingFrame, LicenceCurrent, FunnelCurrent
        <3>4. OnlyTheQueue /\ ~overlapped => FunnelOK'
            BY <2>0, <2>2 DEF VettingInv, FunnelOK
        <3>5. QED
            BY <2>0, <3>2, <3>3, <3>4, FunnelGoes
    <2>3. QED
        BY <1>2, <2>1, <2>2 DEF WriteKitchen
<1>3. QED
    BY <1>1, <1>2

LEMMA PositionKeeps ==
    ASSUME VettingInv, NEW r \in Requests, CountDocuments(r) \/ ReadStep(r) \/ WriteStep(r)
    PROVE  VettingInv'
<1>1. PICK f : f = req[r]
    OBVIOUS
<1>2. f \in [at : {"documents", "readStep", "writeStep"}, to : 1..6] /\ ~At(r, "idle")
    BY <1>1, FunnelCarries DEF CountDocuments, ReadStep, WriteStep, At
<1>3. CASE End(r) /\ UNCHANGED vettingVars
    BY <1>2, <1>3, VettingReads, IdleVets DEF End
<1>4. ASSUME NEW step \in {"readStep", "writeStep"}, Continue(r, step), UNCHANGED vettingVars,
             step = "writeStep" => f.to > account.step
      PROVE  VettingInv'
    <2>1. PICK frame : frame = [f EXCEPT !.at = step]
        OBVIOUS
    <2>2. frame \in [at : {"documents", "readStep", "writeStep"}, to : 1..6] /\ frame.at = step /\ frame.to = f.to
        BY <1>2, <2>1
    <2>3. VettingFrame(frame) /\ LicenceCurrent(frame) /\ FunnelCurrent(frame)
        BY <1>4, <2>2 DEF VettingFrame, LicenceCurrent, FunnelCurrent
    <2>4. Goto(r, frame)
        BY <1>1, <1>4, <2>1 DEF Continue
    <2>5. QED
        BY <1>2, <1>4, <2>3, <2>4, VettingReads
<1>5. CASE WriteStep(r)
    <2>1. account' = [account EXCEPT !.step = f.to] /\ Goto(r, Idle) /\ UNCHANGED <<given, kitchen, assist>>
        BY <1>1, <1>5 DEF WriteStep, End
    <2>2. account \in Standing /\ f.to \in 1..6
        BY <1>2 DEF VettingInv, VettingTables
    <2>3. account' \in Standing /\ account'.status = account.status /\ account'.step \in 1..6
        BY <2>1, <2>2 DEF Standing, Completed
    <2>4. OnlyTheQueue /\ ~overlapped => FunnelOK'
        BY <2>1, <2>3 DEF VettingInv, FunnelOK, Submitted
    <2>5. QED
        BY <1>2, <2>1, <2>3, <2>4, IdleVets, FunnelGoes
<1>6. QED
    BY <1>1, <1>3, <1>4, <1>5 DEF CountDocuments, ReadStep

LEMMA SubmissionKeeps ==
    ASSUME VettingInv, NEW r \in Requests, Submit(r) \/ ReadAssistance(r) \/ WriteSubmission(r)
    PROVE  VettingInv'
<1>1. CASE Submit(r)
    <2>1. PICK frame : frame = [at |-> "assistance", licensed |-> "FSSAI" \in given]
        OBVIOUS
    <2>2. /\ Goto(r, frame) /\ UNCHANGED vettingVars
          /\ account.status = "ONBOARDING" /\ Papers \subseteq given
        BY <1>1, <2>1 DEF Submit, Begin, Papers
    <2>3. VettingFrame(frame) /\ frame # Idle /\ LicenceCurrent(frame) /\ FunnelCurrent(frame)
        BY <2>1, <2>2 DEF VettingFrame, Idle, LicenceCurrent, FunnelCurrent
    <2>4. QED
        BY <2>2, <2>3, VettingReads
<1>2. CASE ReadAssistance(r)
    <2>1. PICK f : f = req[r]
        OBVIOUS
    <2>2. f.at = "assistance" /\ ~At(r, "idle") /\ UNCHANGED vettingVars
        BY <1>2, <2>1 DEF ReadAssistance, At
    <2>3. f \in [at : {"assistance", "submit"}, licensed : BOOLEAN]
        BY <2>1, <2>2 DEF VettingInv, VettingFrame, Idle
    <2>4. CASE End(r)
        BY <2>2, <2>4, VettingReads, IdleVets DEF End
    <2>5. CASE Continue(r, "submit")
        <3>1. PICK frame : frame = [f EXCEPT !.at = "submit"]
            OBVIOUS
        <3>2. frame \in [at : {"assistance", "submit"}, licensed : BOOLEAN] /\ frame.at = "submit"
            BY <2>3, <3>1
        <3>3. OnlyTheQueue /\ ~overlapped => FunnelCurrent(f)
            BY <2>1 DEF VettingInv
        <3>4. VettingFrame(frame) /\ LicenceCurrent(frame)
              /\ (OnlyTheQueue /\ ~overlapped => FunnelCurrent(frame))
            BY <2>2, <3>2, <3>3 DEF VettingFrame, LicenceCurrent, FunnelCurrent
        <3>5. Goto(r, frame)
            BY <2>1, <2>5, <3>1 DEF Continue
        <3>6. QED
            BY <2>2, <3>4, <3>5, VettingReads
    <2>6. QED
        BY <1>2, <2>4, <2>5 DEF ReadAssistance
<1>3. CASE WriteSubmission(r)
    <2>1. /\ account' = [status |-> "UNDER_REVIEW", step |-> Submitted] /\ Goto(r, Idle)
          /\ UNCHANGED <<given, kitchen, assist>> /\ req[r].at = "submit" /\ ~At(r, "idle")
        BY <1>3 DEF WriteSubmission, End, At
    <2>2. account' \in Standing /\ account'.status = "UNDER_REVIEW" /\ account'.step = Submitted
        BY <2>1 DEF Standing, Completed, Submitted
    <2>3. OnlyTheQueue /\ ~overlapped => FunnelOK'
        BY <2>1, <2>2 DEF VettingInv, FunnelOK, FunnelCurrent, Submitted
    <2>4. QED
        BY <2>1, <2>2, <2>3, IdleVets, FunnelGoes
<1>4. QED
    BY <1>1, <1>2, <1>3

LEMMA DecisionKeeps ==
    ASSUME VettingInv, NEW r \in Requests,
           Approve(r) \/ Reject(r) \/ \E decision \in {"approve", "reject"} : Review(r, decision)
    PROVE  VettingInv'
<1>1. ASSUME NEW decision \in {"approve", "reject"}, Review(r, decision) PROVE VettingInv'
    <2>1. PICK frame : frame = [at |-> decision]
        OBVIOUS
    <2>2. Goto(r, frame) /\ UNCHANGED vettingVars /\ (OnlyTheQueue => account.status = "UNDER_REVIEW")
        BY <1>1, <2>1 DEF Review, Begin, OnlyTheQueue
    <2>3. /\ VettingFrame(frame) /\ frame # Idle /\ LicenceCurrent(frame)
          /\ OnlyTheQueue => FunnelCurrent(frame)
        BY <2>1, <2>2 DEF VettingFrame, Idle, LicenceCurrent, FunnelCurrent
    <2>4. QED
        BY <2>2, <2>3, VettingReads
<1>2. CASE Approve(r)
    <2>1. /\ account' = [status |-> "ACTIVE", step |-> Completed] /\ Goto(r, Idle) /\ kitchen' = "ACTIVE"
          /\ UNCHANGED <<given, assist>> /\ req[r].at = "approve" /\ ~At(r, "idle")
        BY <1>2 DEF Approve, End, At
    <2>2. account' \in Standing /\ account'.status = "ACTIVE"
        BY <2>1 DEF Standing, Completed
    <2>3. OnlyTheQueue /\ ~overlapped => FunnelOK'
        BY <2>1, <2>2 DEF VettingInv, FunnelOK, FunnelCurrent
    <2>4. QED
        BY <2>1, <2>2, <2>3, IdleVets, FunnelGoes
<1>3. CASE Reject(r)
    <2>1. /\ account' = [account EXCEPT !.status = "ONBOARDING"] /\ Goto(r, Idle)
          /\ UNCHANGED <<given, kitchen, assist>> /\ req[r].at = "reject" /\ ~At(r, "idle")
          /\ account \in Standing
        BY <1>3 DEF Reject, End, At, VettingInv, VettingTables
    <2>2. account' \in Standing /\ account'.status = "ONBOARDING" /\ account'.step = account.step
        BY <2>1 DEF Standing
    <2>3. OnlyTheQueue /\ ~overlapped => FunnelOK'
        BY <2>1, <2>2 DEF VettingInv, FunnelOK, FunnelCurrent
    <2>4. QED
        BY <2>1, <2>2, <2>3, IdleVets, FunnelGoes
<1>4. QED
    BY <1>1, <1>2, <1>3

-----------------------------------------------------------------------------
(* The licence *)

LEMMA CurrentIsOpen ==
    ASSUME VettingTables, OpenRequests # {}
    PROVE  Current \in OpenRequests
<1>1. OpenRequests \in SUBSET (1..Len(assist)) /\ Len(assist) \in Nat
    BY DEF VettingTables, OpenRequests
<1>2. QED
    BY <1>1, LastIsThere DEF Current

(* A request that is open is changed. *)
LEMMA ChangeOK ==
    ASSUME VettingTables, NEW i \in DOMAIN assist, NEW x \in Assistance, assist' = [assist EXCEPT ![i] = x]
    PROVE  /\ assist' \in Seq(Assistance) /\ Len(assist') = Len(assist)
           /\ assist'[i] = x /\ \A j \in DOMAIN assist : j # i => assist'[j] = assist[j]
           /\ NonTerminal(assist[i].status) => OpenRequests' \subseteq OpenRequests
           /\ (/\ LicencesOK /\ NonTerminal(assist[i].status)
               /\ x.paid => x.status \notin {"PENDING_PAYMENT", "CANCELLED"}) => LicencesOK'
<1>1. assist \in Seq(Assistance)
    BY DEF VettingTables
<1>2. /\ assist' \in Seq(Assistance) /\ Len(assist') = Len(assist) /\ assist'[i] = x
      /\ DOMAIN assist' = DOMAIN assist /\ \A j \in DOMAIN assist : j # i => assist'[j] = assist[j]
    BY <1>1
<1>3. NonTerminal(assist[i].status) => OpenRequests' \subseteq OpenRequests
    BY <1>2 DEF OpenRequests
<1>4. QED
    BY <1>2, <1>3 DEF LicencesOK

LEMMA StartKeeps ==
    ASSUME VettingInv, NEW r \in Requests, StartAssistance(r) \/ CreateRequest(r)
    PROVE  VettingInv'
<1>1. CASE StartAssistance(r)
    <2>1. PICK frame : frame = [at |-> "start"]
        OBVIOUS
    <2>2. Goto(r, frame) /\ UNCHANGED vettingVars /\ OpenRequests = {}
        BY <1>1, <2>1 DEF StartAssistance, Begin
    <2>3. VettingFrame(frame) /\ frame # Idle /\ LicenceCurrent(frame) /\ FunnelCurrent(frame)
        BY <2>1, <2>2 DEF VettingFrame, Idle, LicenceCurrent, FunnelCurrent
    <2>4. QED
        BY <2>2, <2>3, VettingReads
<1>2. CASE CreateRequest(r)
    <2>1. PICK x : x = [status |-> "PENDING_PAYMENT", documents |-> {}, paid |-> FALSE]
        OBVIOUS
    <2>2. /\ assist' = Append(assist, x) /\ Goto(r, Idle) /\ UNCHANGED <<given, account, kitchen>>
          /\ req[r].at = "start" /\ ~At(r, "idle") /\ assist \in Seq(Assistance)
        BY <1>2, <2>1 DEF CreateRequest, End, At, VettingInv, VettingTables
    <2>3. x \in Assistance /\ ~x.paid
        BY <2>1 DEF Assistance, AssistStatuses
    <2>4. /\ assist' \in Seq(Assistance) /\ Len(assist) <= Len(assist') /\ assist'[Len(assist) + 1] = x
          /\ \A j \in DOMAIN assist : assist'[j] = assist[j]
          /\ \A j \in DOMAIN assist' : j \in DOMAIN assist \/ j = Len(assist) + 1
        BY <2>2, <2>3
    <2>5. ASSUME ~overlapped PROVE LicencesOK'
        <3>1. LicencesOK /\ OpenRequests = {}
            BY <2>2, <2>5 DEF VettingInv, LicenceCurrent
        <3>2. OpenRequests' \subseteq {Len(assist) + 1}
            BY <2>4, <3>1 DEF OpenRequests
        <3>3. QED
            BY <2>3, <2>4, <3>1, <3>2 DEF LicencesOK
    <2>6. QED
        BY <2>2, <2>4, <2>5, IdleVets, LicenceGoes
<1>3. QED
    BY <1>1, <1>2

(* Calls that go on with the request they have found. *)
LEMMA TakingKeeps ==
    ASSUME VettingInv, NEW r \in Requests,
           \/ \E step \in {"pay", "cancel"} : PartnerCalls(r, step)
           \/ \E i \in DOMAIN assist : OperatorTakes(r, i)
    PROVE  VettingInv'
<1>0. VettingTables /\ \A i \in DOMAIN assist : i \in 1..Len(assist) /\ assist[i] \in Assistance
    BY DEF VettingInv, VettingTables
<1>1. ASSUME NEW step \in {"pay", "cancel"}, PartnerCalls(r, step) PROVE VettingInv'
    <2>1. PICK frame : frame = [at |-> step, request |-> Current]
        OBVIOUS
    <2>2. /\ Goto(r, frame) /\ UNCHANGED vettingVars /\ Current \in OpenRequests
          /\ step = "cancel" => assist[Current].status = "PENDING_PAYMENT"
        BY <1>0, <1>1, <2>1, CurrentIsOpen DEF PartnerCalls, PartnerMay, Begin
    <2>3. Current \in 1..Len(assist) /\ NonTerminal(assist[Current].status)
        BY <1>0, <2>2 DEF OpenRequests
    <2>4. VettingFrame(frame) /\ frame # Idle /\ LicenceCurrent(frame) /\ FunnelCurrent(frame)
        BY <2>1, <2>2, <2>3 DEF VettingFrame, Idle, LicenceCurrent, FunnelCurrent
    <2>5. QED
        BY <2>2, <2>4, VettingReads
<1>2. ASSUME NEW i \in DOMAIN assist, OperatorTakes(r, i) PROVE VettingInv'
    <2>1. PICK to \in AssistStatuses \ {"PENDING_PAYMENT", "CANCELLED"} :
             Goto(r, [at |-> "change", request |-> i, to |-> to])
        BY <1>2 DEF OperatorTakes, InQueue, Advance, Begin, AssistStatuses
    <2>2. PICK frame : frame = [at |-> "change", request |-> i, to |-> to]
        OBVIOUS
    <2>3. NonTerminal(assist[i].status) /\ UNCHANGED vettingVars
        BY <1>2 DEF OperatorTakes, InQueue, Advance, NonTerminal
    <2>4. VettingFrame(frame) /\ frame # Idle /\ LicenceCurrent(frame) /\ FunnelCurrent(frame)
        BY <1>0, <2>2, <2>3 DEF VettingFrame, Idle, LicenceCurrent, FunnelCurrent
    <2>5. QED
        BY <2>1, <2>2, <2>3, <2>4, VettingReads
<1>3. QED
    BY <1>1, <1>2

LEMMA ChangesKeep ==
    ASSUME VettingInv, NEW r \in Requests, ConfirmAssistance(r) \/ CancelRequest(r) \/ ChangeRequest(r)
    PROVE  VettingInv'
<1>1. PICK i : i = req[r].request
    OBVIOUS
<1>2. PICK f : f = req[r]
    OBVIOUS
<1>3. f.at \in {"pay", "cancel", "change"} /\ ~At(r, "idle") /\ Goto(r, Idle) /\ UNCHANGED <<given, account, kitchen>>
    BY <1>2 DEF ConfirmAssistance, CancelRequest, ChangeRequest, At, End
<1>4. /\ i \in 1..Len(assist)
      /\ f.at = "change" => f.to \in AssistStatuses \ {"PENDING_PAYMENT", "CANCELLED"}
    BY <1>1, <1>2, <1>3 DEF VettingInv, VettingFrame, Idle
<1>5. VettingTables /\ assist \in Seq(Assistance) /\ i \in DOMAIN assist /\ account \in Standing
    BY <1>4 DEF VettingInv, VettingTables
<1>6. assist[i] \in Assistance
    BY <1>5
<1>7. ASSUME ~overlapped
      PROVE  /\ LicencesOK /\ NonTerminal(assist[i].status)
             /\ f.at = "cancel" => assist[i].status = "PENDING_PAYMENT"
    <2>1. LicencesOK /\ LicenceCurrent(f)
        BY <1>2, <1>7 DEF VettingInv
    <2>2. QED
        BY <1>1, <1>2, <1>3, <2>1 DEF LicenceCurrent, NonTerminal
<1>8. ASSUME NEW x \in Assistance, assist' = [assist EXCEPT ![i] = x],
             ~overlapped => (x.paid => x.status \notin {"PENDING_PAYMENT", "CANCELLED"})
      PROVE  VettingInv'
    <2>1. assist' \in Seq(Assistance) /\ Len(assist) <= Len(assist') /\ (~overlapped => LicencesOK')
        <3>1. VettingTables /\ i \in DOMAIN assist /\ assist' = [assist EXCEPT ![i] = x] /\ Len(assist) \in Nat
            BY <1>5, <1>8
        <3>2. assist' \in Seq(Assistance) /\ Len(assist') = Len(assist)
            BY <3>1, ChangeOK
        <3>3. ~overlapped => LicencesOK'
            BY <1>7, <1>8, <3>1, ChangeOK
        <3>4. QED
            BY <3>1, <3>2, <3>3
    <2>2. QED
        BY <1>3, <2>1, IdleVets, LicenceGoes
<1>9. \A a \in Assistance, s \in AssistStatuses :
          /\ [a EXCEPT !.status = s] \in Assistance
          /\ [a EXCEPT !.status = s].status = s /\ [a EXCEPT !.status = s].paid = a.paid
          /\ [a EXCEPT !.status = s, !.paid = TRUE] \in Assistance
          /\ [a EXCEPT !.status = s, !.paid = TRUE].status = s
    BY DEF Assistance
<1>10. CASE ConfirmAssistance(r)
    <2>1. PICK x : x = [assist[i] EXCEPT !.status = "DOCUMENTS_SUBMITTED", !.paid = TRUE]
        OBVIOUS
    <2>2. assist' = [assist EXCEPT ![i] = x]
        BY <1>1, <1>5, <1>10, <2>1 DEF ConfirmAssistance
    <2>3. "DOCUMENTS_SUBMITTED" \in AssistStatuses
        BY DEF AssistStatuses
    <2>4. x \in Assistance /\ x.status = "DOCUMENTS_SUBMITTED"
        BY <1>6, <1>9, <2>1, <2>3
    <2>5. QED
        BY <1>8, <2>2, <2>4
<1>11. CASE CancelRequest(r)
    <2>1. PICK x : x = [assist[i] EXCEPT !.status = "CANCELLED"]
        OBVIOUS
    <2>2. assist' = [assist EXCEPT ![i] = x] /\ f.at = "cancel"
        BY <1>1, <1>2, <1>5, <1>11, <2>1 DEF CancelRequest, Change, At
    <2>3. "CANCELLED" \in AssistStatuses
        BY DEF AssistStatuses
    <2>4. x \in Assistance /\ x.paid = assist[i].paid
        BY <1>6, <1>9, <2>1, <2>3
    <2>5. ~overlapped => ~x.paid
        BY <1>5, <1>7, <2>2, <2>4 DEF LicencesOK
    <2>6. QED
        BY <1>8, <2>2, <2>4, <2>5
<1>12. CASE ChangeRequest(r)
    <2>1. PICK x : x = [assist[i] EXCEPT !.status = f.to]
        OBVIOUS
    <2>2. assist' = [assist EXCEPT ![i] = x] /\ f.at = "change"
        BY <1>1, <1>2, <1>5, <1>12, <2>1 DEF ChangeRequest, Change, At
    <2>3. f.to \in AssistStatuses /\ f.to \notin {"PENDING_PAYMENT", "CANCELLED"}
        BY <1>4, <2>2
    <2>4. x \in Assistance /\ x.status = f.to
        BY <1>6, <1>9, <2>1, <2>3
    <2>5. QED
        BY <1>8, <2>2, <2>3, <2>4
<1>13. QED
    BY <1>10, <1>11, <1>12

-----------------------------------------------------------------------------
(* Calls of one statement, and the theorems *)

LEMMA VettingCalls ==
    ASSUME VettingInv, NEW call, Instant(call), VettingTables', Len(assist') = Len(assist),
           LicencesOK => LicencesOK', OnlyTheQueue /\ FunnelOK => FunnelOK'
    PROVE  VettingInv'
<1>1. Serial' /\ req' = req
      /\ (~overlapped' => ~overlapped /\ \A q \in Requests : At(q, "idle"))
    BY InstantSerial DEF VettingInv
<1>2. \A q \in Requests : (VettingFrame(req[q]))'
    BY <1>1 DEF VettingInv, VettingFrame
<1>3. ~overlapped' => \A q \in Requests : (LicenceCurrent(req[q]))' /\ (FunnelCurrent(req[q]))'
    BY <1>1 DEF LicenceCurrent, FunnelCurrent, At
<1>4. QED
    BY <1>1, <1>2, <1>3 DEF VettingInv, OnlyTheQueue

LEMMA VettingCallsKeep ==
    ASSUME VettingInv, VettingAlone
    PROVE  VettingInv'
<1>0. VettingTables /\ account \in Standing /\ assist \in Seq(Assistance)
    BY DEF VettingInv, VettingTables
<1>1. CASE RemoveDish
    <2>1. Instant("removeDish") /\ given' = given \ {"dish"} /\ UNCHANGED <<account, kitchen, assist>>
        BY <1>1 DEF RemoveDish
    <2>2. LicencesOK => LicencesOK'
        BY <2>1 DEF LicencesOK, OpenRequests
    <2>3. FunnelOK => FunnelOK'
        BY <2>1 DEF FunnelOK, Papers
    <2>4. VettingTables' /\ Len(assist') = Len(assist)
        BY <1>0, <2>1 DEF VettingTables
    <2>5. QED
        BY <2>1, <2>2, <2>3, <2>4, VettingCalls
<1>2. CASE DeleteAccount
    <2>1. /\ Instant("deletePartner") /\ account' = [account EXCEPT !.status = "DELETED"] /\ assist' = assist
          /\ kitchen' = IF kitchen = "NONE" THEN kitchen ELSE "SUSPENDED"
        BY <1>2 DEF DeleteAccount
    <2>2. LicencesOK => LicencesOK'
        BY <2>1 DEF LicencesOK, OpenRequests
    <2>3. account' \in Standing /\ account'.status = "DELETED"
        BY <1>0, <2>1 DEF Standing
    <2>4. FunnelOK'
        BY <2>1, <2>3 DEF FunnelOK
    <2>5. VettingTables' /\ Len(assist') = Len(assist)
        BY <1>0, <2>1, <2>3 DEF VettingTables
    <2>6. QED
        BY <2>1, <2>2, <2>4, <2>5, VettingCalls
<1>3. ASSUME NEW d \in AssistDocuments, UploadForLicence(d) PROVE VettingInv'
    <2>1. PICK i : i = Current
        OBVIOUS
    <2>2. /\ Instant("uploadForLicence") /\ UNCHANGED <<given, account, kitchen>> /\ i \in OpenRequests
          /\ assist' = [assist EXCEPT ![i].documents = @ \cup {d}]
        BY <1>0, <1>3, <2>1, CurrentIsOpen DEF UploadForLicence
    <2>3. i \in DOMAIN assist /\ NonTerminal(assist[i].status)
        BY <2>2 DEF OpenRequests
    <2>4. assist[i] \in Assistance
        BY <1>0, <2>3
    <2>5. PICK x : x = [assist[i] EXCEPT !.documents = @ \cup {d}]
        OBVIOUS
    <2>6. x \in Assistance /\ x.status = assist[i].status /\ x.paid = assist[i].paid
        BY <2>4, <2>5 DEF Assistance
    <2>7. assist' = [assist EXCEPT ![i] = x]
        BY <2>2, <2>5
    <2>8. LicencesOK => (x.paid => x.status \notin {"PENDING_PAYMENT", "CANCELLED"})
        BY <2>3, <2>6 DEF LicencesOK
    <2>9. /\ assist' \in Seq(Assistance) /\ Len(assist') = Len(assist) /\ (LicencesOK => LicencesOK')
        BY <1>0, <2>3, <2>6, <2>7, <2>8, ChangeOK
    <2>10. VettingTables'
        BY <1>0, <2>2, <2>9 DEF VettingTables
    <2>11. FunnelOK => FunnelOK'
        BY <2>2 DEF FunnelOK
    <2>12. QED
        BY <2>2, <2>9, <2>10, <2>11, VettingCalls
<1>4. QED
    BY <1>1, <1>2, <1>3 DEF VettingAlone

LEMMA VettingKeeps == VettingInv /\ [VettingNext]_<<vettingVars, handlerVars>> => VettingInv'
<1> SUFFICES ASSUME VettingInv, [VettingNext]_<<vettingVars, handlerVars>> PROVE VettingInv'
    OBVIOUS
<1>1. ASSUME NEW r \in Requests, VettingStep(r) PROVE VettingInv'
    <2>1. CASE \E thing \in DOMAIN StepOf \ {"kitchen"} : Save(r, thing)
        BY <2>1, SaveKeeps
    <2>2. CASE ~ \E thing \in DOMAIN StepOf \ {"kitchen"} : Save(r, thing)
        BY <1>1, <2>2, KitchenKeeps, PositionKeeps, SubmissionKeeps, DecisionKeeps, StartKeeps,
           TakingKeeps, ChangesKeep DEF VettingStep
    <2>3. QED
        BY <2>1, <2>2
<1>2. ASSUME NEW r \in Requests, Abort(r), UNCHANGED vettingVars PROVE VettingInv'
    BY <1>2, VettingReads, IdleVets DEF Abort, End
<1>3. CASE UNCHANGED <<vettingVars, handlerVars>>
    BY <1>3 DEF VettingInv, VettingTables, FunnelOK, FunnelCurrent, LicencesOK, LicenceCurrent, OpenRequests,
                VettingFrame, Serial, Tracked, OneByOne, InFlight, At, vettingVars, handlerVars
<1>4. QED
    BY <1>1, <1>2, <1>3, VettingCallsKeep DEF VettingNext

LEMMA VettingBegins == HandlersInit /\ VettingInit => VettingInv
<1> SUFFICES ASSUME HandlersInit, VettingInit PROVE VettingInv
    OBVIOUS
<1>1. Serial /\ \A r \in Requests : req[r] = Idle
    BY InitSerial DEF HandlersInit
<1>2. VettingTables
    BY DEF VettingInit, VettingTables, Standing, Completed
<1>3. LicencesOK /\ FunnelOK
    BY DEF VettingInit, LicencesOK, OpenRequests, FunnelOK, Submitted
<1>4. QED
    BY <1>1, <1>2, <1>3, IdleVets DEF VettingInv

LEMMA VettingInvariant == VettingSpec => []VettingInv
<1>1. QED
    BY VettingBegins, VettingKeeps, PTL DEF VettingSpec

(* Operators who decide on the review queue list only kitchens whose owner,     *)
(* place, photographs and bank account are on file, and a kitchen and its       *)
(* account go live and out of business together (submit, approve,               *)
(* confirmAccountDeletion), for requests that come one by one.                  *)
THEOREM LiveKitchensAreComplete ==
    ASSUME OnlyTheQueue
    PROVE  VettingSpec => []LiveIsComplete
<1>1. VettingInv => LiveIsComplete
    BY DEF VettingInv, FunnelOK, Papers, LiveIsComplete
<1>2. QED
    BY <1>1, VettingInvariant, PTL

(* The funnel's position never goes back (setStep, submit, approve), while      *)
(* requests come one by one and the operators decide on the review queue.       *)
THEOREM TheFunnelMovesForward ==
    ASSUME OnlyTheQueue
    PROVE  VettingSpec => StepsOnlyForward
<1>1. ASSUME VettingInv, [VettingNext]_<<vettingVars, handlerVars>>, ~overlapped'
      PROVE  account'.step >= account.step
    <2>1. account \in Standing /\ account.step \in 0..8
        BY <1>1 DEF VettingInv, VettingTables, Standing, Completed
    <2>2. ASSUME NEW r \in Requests, VettingStep(r), account' # account PROVE account'.step >= account.step
        <3>1. WriteStep(r) \/ WriteSubmission(r) \/ Approve(r) \/ Reject(r)
            BY <2>2 DEF VettingStep, Save, SaveKitchenDetails, WriteKitchen, CountDocuments, ReadStep, Submit,
                        ReadAssistance, Review, StartAssistance, CreateRequest, PartnerCalls, ConfirmAssistance,
                        CancelRequest, OperatorTakes, ChangeRequest, vettingVars
        <3>2. (WriteStep(r) \/ WriteSubmission(r)) => ~overlapped
            BY <1>1, GotoOK DEF VettingInv, Serial, WriteStep, WriteSubmission, End
        <3>3. CASE WriteStep(r)
            <4>1. account' = [account EXCEPT !.step = req[r].to] /\ req[r].at = "writeStep"
                BY <3>3 DEF WriteStep, At
            <4>2. req[r].to > account.step
                BY <1>1, <3>2, <3>3, <4>1 DEF VettingInv, FunnelCurrent
            <4>3. account'.step = req[r].to
                BY <2>1, <4>1 DEF Standing
            <4>4. req[r].to \in 1..6
                BY <1>1, <4>1 DEF VettingInv, VettingFrame, Idle
            <4>5. QED
                BY <2>1, <4>2, <4>3, <4>4
        <3>4. CASE WriteSubmission(r)
            <4>1. account' = [status |-> "UNDER_REVIEW", step |-> Submitted] /\ req[r].at = "submit"
                BY <3>4 DEF WriteSubmission, At
            <4>2. account.status = "ONBOARDING" /\ account.step <= Submitted
                BY <1>1, <3>2, <3>4, <4>1 DEF VettingInv, FunnelCurrent, FunnelOK
            <4>3. QED
                BY <2>1, <4>1, <4>2 DEF Submitted
        <3>5. CASE Approve(r)
            BY <2>1, <3>5 DEF Approve, Completed
        <3>6. CASE Reject(r)
            BY <2>1, <3>6 DEF Reject, Standing
        <3>7. QED
            BY <3>1, <3>3, <3>4, <3>5, <3>6
    <2>3. CASE DeleteAccount
        BY <2>1, <2>3 DEF DeleteAccount, Standing
    <2>4. CASE account' = account
        BY <2>1, <2>4
    <2>5. QED
        BY <1>1, <2>2, <2>3, <2>4 DEF VettingNext, VettingAlone, RemoveDish, UploadForLicence, vettingVars
<1>2. VettingInv /\ [VettingNext]_<<vettingVars, handlerVars>>
         => [overlapped' \/ account'.step >= account.step]_vettingVars
    BY <1>1
<1>3. QED
    BY <1>2, VettingInvariant, PTL DEF VettingSpec, StepsOnlyForward

(* Whatever the operators look at: a request for the licence whose fee is       *)
(* confirmed is not withdrawn, and there is one at a time                       *)
(* (assertCancellable, start), while calls come one by one.                     *)
THEOREM PaidRequestsStand == VettingSpec => []PaidIsNotCancelled
<1>1. VettingInv => PaidIsNotCancelled
    <2> SUFFICES ASSUME VettingInv, ~overlapped PROVE PaidIsNotCancelled
        BY DEF PaidIsNotCancelled
    <2>1. LicencesOK /\ Cardinality(OpenRequests) <= 1
        BY SetOfOne DEF VettingInv, LicencesOK
    <2>2. QED
        BY <2>1 DEF LicencesOK, PaidIsNotCancelled
<1>2. QED
    BY <1>1, VettingInvariant, PTL

-----------------------------------------------------------------------------
(* Engagement.  A counter and the customers whose rows it counts change       *)
(* together in every interleaving.  While requests come one by one, what an   *)
(* aggregate has read is what is there when it is written.                    *)

ReviewRow == [order : Delivered \cup {NoOrder}, dish : BOOLEAN]

EngagementTables ==
    /\ reviews \in Seq(ReviewRow)
    /\ answered \subseteq DOMAIN reviews
    /\ rated \in [kitchen : SUBSET Nat, dish : SUBSET Nat]
    /\ marks \in [Kinds -> [Fans -> Nat]] /\ tapped \in [Kinds -> [Fans -> Nat]]
    /\ counter \in [Counted -> Int] /\ rowless \in [Counted -> Int]

EngagementFrame(f) ==
    \/ f = Idle
    \/ f \in [at : {"insertReview"}, review : ReviewRow]
    \/ f \in [at : {"aggregate", "writeRating"}, of : {"kitchen", "dish"}, found : SUBSET Nat,
              review : 1..Len(reviews)]
    \/ f \in [at : {"toggle"}, kind : Kinds, user : Fans, found : Nat]

FansOf(k) == {u \in Fans : marks[k][u] # 0}

CountersAreOfRows == \A k \in Counted : counter[k] = rowless[k] + Cardinality(FansOf(k))

RatingsOK == answered \subseteq rated.kitchen /\ {i \in answered : reviews[i].dish} \subseteq rated.dish

RatingCurrent(f) ==
    /\ f.at = "writeRating" => f.found = AboutIt(f.of)
    /\ f.at \in {"aggregate", "writeRating"} => f.of = "kitchen" \/ f.review \in rated.kitchen

EngagementInv ==
    /\ Serial /\ EngagementTables /\ CountersAreOfRows
    /\ \A r \in Requests : EngagementFrame(req[r])
    /\ ~overlapped => RatingsOK /\ \A r \in Requests : RatingCurrent(req[r])

LEMMA EngagementGoes ==
    ASSUME EngagementInv, NEW r \in Requests, NEW frame, Goto(r, frame),
           EngagementTables', CountersAreOfRows', Len(reviews) <= Len(reviews'), EngagementFrame(frame)',
           ~At(r, "idle") \/ frame # Idle,
           ~overlapped => RatingsOK' /\ RatingCurrent(frame)'
    PROVE  EngagementInv'
<1>1. Serial' /\ req'[r] = frame /\ \A q \in Requests \ {r} : req'[q] = req[q]
    BY GotoOK, GotoSerial DEF EngagementInv, Serial
<1>2. ASSUME NEW q \in Requests PROVE (EngagementFrame(req[q]))'
    <2>1. CASE q = r
        BY <1>1, <2>1 DEF EngagementFrame
    <2>2. CASE q # r
        <3>1. PICK f : f = req[q]
            OBVIOUS
        <3>2. EngagementFrame(f) /\ Len(reviews) \in Nat /\ Len(reviews') \in Nat
            BY <3>1 DEF EngagementInv, EngagementTables
        <3>3. EngagementFrame(f)'
            BY <3>2 DEF EngagementFrame
        <3>4. req'[q] = f
            BY <1>1, <2>2, <3>1
        <3>5. QED
            BY <3>3, <3>4 DEF EngagementFrame
    <2>3. QED
        BY <2>1, <2>2
<1>3. ASSUME ~overlapped' PROVE RatingsOK' /\ \A q \in Requests : (RatingCurrent(req[q]))'
    <2>1. ~overlapped /\ \A q \in Requests \ {r} : req'[q].at = "idle"
        BY <1>3, OthersIdle DEF EngagementInv
    <2>2. \A q \in Requests \ {r} : (RatingCurrent(req[q]))'
        BY <2>1 DEF RatingCurrent
    <2>3. (RatingCurrent(req[r]))'
        BY <1>1, <2>1 DEF RatingCurrent
    <2>4. QED
        BY <2>1, <2>2, <2>3
<1>4. QED
    BY <1>1, <1>2, <1>3 DEF EngagementInv

LEMMA IdleEngages == EngagementFrame(Idle) /\ RatingCurrent(Idle) /\ EngagementFrame(Idle)' /\ RatingCurrent(Idle)'
BY DEF EngagementFrame, RatingCurrent, Idle

(* A request about reviews. *)
LEMMA ReviewGoes ==
    ASSUME EngagementInv, NEW r \in Requests, NEW frame, Goto(r, frame),
           UNCHANGED <<marks, tapped, counter, rowless>>,
           reviews' \in Seq(ReviewRow), Len(reviews) <= Len(reviews'), answered' \subseteq DOMAIN reviews',
           rated' \in [kitchen : SUBSET Nat, dish : SUBSET Nat], EngagementFrame(frame)',
           ~At(r, "idle") \/ frame # Idle,
           ~overlapped => RatingsOK' /\ RatingCurrent(frame)'
    PROVE  EngagementInv'
<1>1. EngagementTables'
    BY DEF EngagementInv, EngagementTables
<1>2. CountersAreOfRows'
    BY DEF EngagementInv, CountersAreOfRows, FansOf
<1>3. QED
    BY <1>1, <1>2, EngagementGoes

LEMMA EngagementReads ==
    ASSUME EngagementInv, NEW r \in Requests, NEW frame, Goto(r, frame), UNCHANGED engagementVars,
           EngagementFrame(frame), ~At(r, "idle") \/ frame # Idle, ~overlapped => RatingCurrent(frame)
    PROVE  EngagementInv'
<1>1. UNCHANGED <<reviews, rated, answered, marks, tapped, counter, rowless>>
    BY DEF engagementVars
<1>2. /\ reviews' \in Seq(ReviewRow) /\ Len(reviews) <= Len(reviews') /\ answered' \subseteq DOMAIN reviews'
      /\ rated' \in [kitchen : SUBSET Nat, dish : SUBSET Nat]
    BY <1>1 DEF EngagementInv, EngagementTables
<1>3. EngagementFrame(frame)'
    BY <1>1 DEF EngagementFrame
<1>4. ~overlapped => RatingsOK' /\ RatingCurrent(frame)'
    BY <1>1 DEF EngagementInv, RatingsOK, RatingCurrent, AboutIt
<1>5. QED
    BY <1>1, <1>2, <1>3, <1>4, ReviewGoes

-----------------------------------------------------------------------------
(* Reviews *)

LEMMA CreateReviewKeeps ==
    ASSUME EngagementInv, NEW r \in Requests, NEW order \in Delivered \cup {NoOrder}, NEW aboutDish \in BOOLEAN,
           CreateReview(r, order, aboutDish)
    PROVE  EngagementInv'
<1>1. PICK frame : frame = [at |-> "insertReview", review |-> [order |-> order, dish |-> aboutDish]]
    OBVIOUS
<1>2. EngagementFrame(frame) /\ frame # Idle /\ RatingCurrent(frame)
    BY <1>1 DEF EngagementFrame, ReviewRow, Idle, RatingCurrent
<1>3. Goto(r, frame) /\ UNCHANGED engagementVars
    BY <1>1 DEF CreateReview, Begin
<1>4. QED
    BY <1>2, <1>3, EngagementReads

LEMMA InsertReviewKeeps ==
    ASSUME EngagementInv, NEW r \in Requests, InsertReview(r)
    PROVE  EngagementInv'
<1>1. PICK new : new = req[r].review
    OBVIOUS
<1>2. At(r, "insertReview") /\ ~At(r, "idle") /\ UNCHANGED <<rated, answered, marks, tapped, counter, rowless>>
    BY DEF InsertReview, At
<1>3. new \in ReviewRow
    BY <1>1, <1>2 DEF EngagementInv, EngagementFrame, At, Idle
<1>4. CASE End(r) /\ UNCHANGED reviews
    BY <1>2, <1>4, EngagementReads, IdleEngages DEF End, engagementVars
<1>5. ASSUME reviews' = Append(reviews, new),
             Goto(r, [at |-> "aggregate", of |-> "kitchen", found |-> {}, review |-> Len(reviews')])
      PROVE  EngagementInv'
    <2>1. PICK frame : frame = [at |-> "aggregate", of |-> "kitchen", found |-> {}, review |-> Len(reviews')]
        OBVIOUS
    <2>2. /\ reviews \in Seq(ReviewRow) /\ answered \subseteq DOMAIN reviews
          /\ rated \in [kitchen : SUBSET Nat, dish : SUBSET Nat]
        BY DEF EngagementInv, EngagementTables
    <2>3. /\ reviews' \in Seq(ReviewRow) /\ Len(reviews) <= Len(reviews') /\ Len(reviews') \in 1..Len(reviews')
          /\ DOMAIN reviews \subseteq DOMAIN reviews' /\ \A i \in DOMAIN reviews : reviews'[i] = reviews[i]
        BY <1>3, <1>5, <2>2
    <2>4. EngagementFrame(frame)' /\ RatingCurrent(frame)' /\ frame # Idle
        BY <2>1, <2>3 DEF EngagementFrame, RatingCurrent, Idle
    <2>5. ~overlapped => RatingsOK'
        BY <1>2, <2>2, <2>3 DEF EngagementInv, RatingsOK
    <2>6. answered' \subseteq DOMAIN reviews' /\ rated' \in [kitchen : SUBSET Nat, dish : SUBSET Nat]
        BY <1>2, <2>2, <2>3
    <2>7. QED
        BY <1>2, <1>5, <2>1, <2>3, <2>4, <2>5, <2>6, ReviewGoes
<1>6. QED
    BY <1>1, <1>4, <1>5 DEF InsertReview

LEMMA RatingCarries ==
    ASSUME EngagementInv, NEW r \in Requests, NEW f, f = req[r], f.at \in {"aggregate", "writeRating"}
    PROVE  /\ f \in [at : {"aggregate", "writeRating"}, of : {"kitchen", "dish"}, found : SUBSET Nat,
                     review : 1..Len(reviews)]
           /\ ~At(r, "idle")
BY DEF EngagementInv, EngagementFrame, At, Idle

LEMMA AggregateKeeps ==
    ASSUME EngagementInv, NEW r \in Requests, AggregateRatings(r)
    PROVE  EngagementInv'
<1>1. PICK f : f = req[r]
    OBVIOUS
<1>2. /\ f \in [at : {"aggregate", "writeRating"}, of : {"kitchen", "dish"}, found : SUBSET Nat,
                review : 1..Len(reviews)]
      /\ f.at = "aggregate" /\ ~At(r, "idle") /\ UNCHANGED engagementVars
    BY <1>1, RatingCarries DEF AggregateRatings, At
<1>3. PICK found : found = AboutIt(f.of)
    OBVIOUS
<1>4. found \in SUBSET Nat
    BY <1>3 DEF AboutIt, EngagementInv, EngagementTables
<1>5. PICK frame : frame = [f EXCEPT !.at = "writeRating", !.found = found]
    OBVIOUS
<1>6. /\ frame \in [at : {"aggregate", "writeRating"}, of : {"kitchen", "dish"}, found : SUBSET Nat,
                    review : 1..Len(reviews)]
      /\ frame.at = "writeRating" /\ frame.of = f.of /\ frame.found = found /\ frame.review = f.review
    BY <1>2, <1>4, <1>5
<1>7. Goto(r, frame)
    BY <1>1, <1>3, <1>5 DEF AggregateRatings
<1>8. EngagementFrame(frame)
    BY <1>6 DEF EngagementFrame
<1>9. ~overlapped => RatingCurrent(f)
    BY <1>1 DEF EngagementInv
<1>10. ~overlapped => RatingCurrent(frame)
    BY <1>2, <1>3, <1>6, <1>9 DEF RatingCurrent
<1>11. QED
    BY <1>2, <1>7, <1>8, <1>10, EngagementReads

LEMMA WriteRatingKeeps ==
    ASSUME EngagementInv, NEW r \in Requests, WriteRating(r)
    PROVE  EngagementInv'
<1>1. PICK f : f = req[r]
    OBVIOUS
<1>2. /\ f \in [at : {"aggregate", "writeRating"}, of : {"kitchen", "dish"}, found : SUBSET Nat,
                review : 1..Len(reviews)]
      /\ f.at = "writeRating" /\ ~At(r, "idle")
    BY <1>1, RatingCarries DEF WriteRating, At
<1>3. UNCHANGED <<reviews, marks, tapped, counter, rowless>> /\ rated' = [rated EXCEPT ![f.of] = f.found]
    BY <1>1 DEF WriteRating
<1>4. /\ reviews \in Seq(ReviewRow) /\ answered \subseteq DOMAIN reviews
      /\ rated \in [kitchen : SUBSET Nat, dish : SUBSET Nat]
    BY DEF EngagementInv, EngagementTables
<1>5. /\ rated' \in [kitchen : SUBSET Nat, dish : SUBSET Nat]
      /\ f.of = "kitchen" => rated'.kitchen = f.found /\ rated'.dish = rated.dish
      /\ f.of = "dish" => rated'.dish = f.found /\ rated'.kitchen = rated.kitchen
    <2>1. CASE f.of = "kitchen"
        <3>1. rated' = [rated EXCEPT !.kitchen = f.found]
            BY <1>3, <2>1
        <3>2. QED
            BY <1>2, <1>4, <2>1, <3>1
    <2>2. CASE f.of = "dish"
        <3>1. rated' = [rated EXCEPT !.dish = f.found]
            BY <1>3, <2>2
        <3>2. QED
            BY <1>2, <1>4, <2>2, <3>1
    <2>3. QED
        BY <1>2, <2>1, <2>2
<1>6. ASSUME ~overlapped
      PROVE  /\ RatingsOK /\ f.found = AboutIt(f.of)
             /\ f.of = "kitchen" => rated'.kitchen = DOMAIN reviews
             /\ f.of = "dish" => f.review \in rated'.kitchen /\ rated'.dish = {i \in DOMAIN reviews : reviews[i].dish}
    <2>1. RatingsOK /\ RatingCurrent(f)
        BY <1>1, <1>6 DEF EngagementInv
    <2>2. f.found = AboutIt(f.of) /\ (f.of = "kitchen" \/ f.review \in rated.kitchen)
        BY <1>2, <2>1 DEF RatingCurrent
    <2>3. AboutIt("kitchen") = DOMAIN reviews /\ AboutIt("dish") = {i \in DOMAIN reviews : reviews[i].dish}
        BY DEF AboutIt
    <2>4. QED
        BY <1>5, <2>1, <2>2, <2>3
<1>7. reviews' \in Seq(ReviewRow) /\ Len(reviews) <= Len(reviews') /\ f.review \in DOMAIN reviews
    BY <1>2, <1>3, <1>4
<1>8. CASE /\ f.of = "kitchen" /\ UNCHANGED answered
           /\ Goto(r, [f EXCEPT !.at = "aggregate", !.of = "dish"])
    <2>1. PICK frame : frame = [f EXCEPT !.at = "aggregate", !.of = "dish"]
        OBVIOUS
    <2>2. /\ frame \in [at : {"aggregate", "writeRating"}, of : {"kitchen", "dish"}, found : SUBSET Nat,
                        review : 1..Len(reviews)]
          /\ frame.at = "aggregate" /\ frame.review = f.review
        BY <1>2, <2>1
    <2>3. EngagementFrame(frame)'
        BY <1>3, <2>2 DEF EngagementFrame
    <2>4. ~overlapped => RatingsOK' /\ RatingCurrent(frame)'
        BY <1>3, <1>4, <1>5, <1>6, <1>7, <1>8, <2>2 DEF RatingsOK, RatingCurrent
    <2>5. answered' \subseteq DOMAIN reviews'
        BY <1>3, <1>4, <1>8
    <2>6. QED
        BY <1>2, <1>3, <1>5, <1>7, <1>8, <2>1, <2>3, <2>4, <2>5, ReviewGoes
<1>9. CASE /\ f.of = "dish" \/ ~reviews[f.review].dish
           /\ End(r) /\ answered' = answered \cup {f.review}
    <2>1. answered' \subseteq DOMAIN reviews'
        BY <1>3, <1>4, <1>7, <1>9
    <2>2. ~overlapped => RatingsOK'
        BY <1>2, <1>3, <1>4, <1>5, <1>6, <1>7, <1>9 DEF RatingsOK
    <2>3. QED
        BY <1>2, <1>3, <1>5, <1>7, <1>9, <2>1, <2>2, ReviewGoes, IdleEngages DEF End
<1>10. QED
    BY <1>1, <1>2, <1>8, <1>9 DEF WriteRating

-----------------------------------------------------------------------------
(* Toggles *)

(* One row more or less is one more or less to count. *)
LEMMA MarkCounts ==
    ASSUME EngagementAssumption, EngagementTables, CountersAreOfRows, NEW k \in Kinds, NEW u \in Fans, NEW id \in Nat,
           marks' = [marks EXCEPT ![k][u] = id], rowless' = rowless,
           \/ id # 0 /\ marks[k][u] = 0 /\ Bump(k, 1)
           \/ id = 0 /\ marks[k][u] # 0 /\ Bump(k, -1)
    PROVE  marks' \in [Kinds -> [Fans -> Nat]] /\ counter' \in [Counted -> Int] /\ CountersAreOfRows'
<1>1. marks \in [Kinds -> [Fans -> Nat]] /\ counter \in [Counted -> Int] /\ rowless \in [Counted -> Int]
    BY DEF EngagementTables
<1>2. /\ marks' \in [Kinds -> [Fans -> Nat]]
      /\ marks'[k][u] = id /\ \A v \in Fans : v # u => marks'[k][v] = marks[k][v]
      /\ \A j \in Kinds : j # k => marks'[j] = marks[j]
    BY <1>1
<1>3. \A j \in Counted : IsFiniteSet(FansOf(j)) /\ Cardinality(FansOf(j)) \in Nat
    BY FS_Subset, FS_CardinalityType DEF EngagementAssumption, FansOf
<1>4. \A j \in Kinds : j # k => FansOf(j)' = FansOf(j)
    BY <1>2 DEF FansOf
<1>5. PICK by \in {-1, 1} : /\ Bump(k, by)
                            /\ k \in Counted => Cardinality(FansOf(k)') = Cardinality(FansOf(k)) + by
    <2>1. CASE id # 0 /\ marks[k][u] = 0 /\ Bump(k, 1)
        <3>1. FansOf(k)' = FansOf(k) \cup {u} /\ u \notin FansOf(k)
            BY <1>2, <2>1 DEF FansOf
        <3>2. k \in Counted => Cardinality(FansOf(k)') = Cardinality(FansOf(k)) + 1
            <4>1. PICK S : S = FansOf(k)
                OBVIOUS
            <4>2. k \in Counted => IsFiniteSet(S) /\ u \notin S
                BY <1>3, <3>1, <4>1
            <4>3. k \in Counted => Cardinality(S \cup {u}) = Cardinality(S) + 1
                BY <4>2, FS_AddElement
            <4>4. QED
                BY <3>1, <4>1, <4>3
        <3>3. QED
            BY <2>1, <3>2
    <2>2. CASE id = 0 /\ marks[k][u] # 0 /\ Bump(k, -1)
        <3>1. FansOf(k)' = FansOf(k) \ {u} /\ u \in FansOf(k)
            BY <1>2, <2>2 DEF FansOf
        <3>2. k \in Counted => Cardinality(FansOf(k)') = Cardinality(FansOf(k)) + (-1)
            BY <1>3, <3>1, FS_RemoveElement
        <3>3. QED
            BY <2>2, <3>2
    <2>3. QED
        BY <2>1, <2>2
<1>6. /\ counter' \in [Counted -> Int]
      /\ k \in Counted => counter'[k] = counter[k] + by
      /\ \A j \in Counted : j # k => counter'[j] = counter[j]
    BY <1>1, <1>5 DEF Bump
<1>7. ASSUME NEW j \in Counted PROVE counter'[j] = rowless'[j] + Cardinality(FansOf(j)')
    <2>1. counter[j] = rowless[j] + Cardinality(FansOf(j)) /\ rowless[j] \in Int /\ Cardinality(FansOf(j)) \in Nat
        BY <1>1, <1>3 DEF CountersAreOfRows
    <2>2. CASE j = k
        BY <1>5, <1>6, <2>1, <2>2
    <2>3. CASE j # k
        <3>1. FansOf(j)' = FansOf(j)
            BY <1>4, <2>3 DEF Kinds
        <3>2. QED
            BY <1>6, <2>1, <2>3, <3>1
    <2>4. QED
        BY <2>2, <2>3
<1>8. CountersAreOfRows'
    BY <1>7 DEF CountersAreOfRows
<1>9. QED
    BY <1>2, <1>6, <1>8

LEMMA ToggleKeeps ==
    ASSUME EngagementInv, NEW r \in Requests, NEW kind \in Kinds, NEW u \in Fans, Toggle(r, kind, u)
    PROVE  EngagementInv'
<1>1. PICK frame : frame = [at |-> "toggle", kind |-> kind, user |-> u, found |-> marks[kind][u]]
    OBVIOUS
<1>2. marks[kind][u] \in Nat
    BY DEF EngagementInv, EngagementTables
<1>3. EngagementFrame(frame) /\ frame # Idle /\ RatingCurrent(frame)
    BY <1>1, <1>2 DEF EngagementFrame, Idle, RatingCurrent
<1>4. Goto(r, frame) /\ UNCHANGED engagementVars
    BY <1>1 DEF Toggle, Begin
<1>5. QED
    BY <1>3, <1>4, EngagementReads

LEMMA MarkKeeps ==
    ASSUME EngagementAssumption, EngagementInv, NEW r \in Requests, PutMark(r) \/ TakeMark(r)
    PROVE  EngagementInv'
<1>1. PICK f : f = req[r]
    OBVIOUS
<1>2. f.at = "toggle" /\ ~At(r, "idle") /\ Goto(r, Idle) /\ UNCHANGED <<reviews, rated, answered, rowless>>
    BY <1>1 DEF PutMark, TakeMark, At, End
<1>3. f.kind \in Kinds /\ f.user \in Fans
    BY <1>1, <1>2 DEF EngagementInv, EngagementFrame, Idle
<1>4. PICK k, u : k = f.kind /\ u = f.user
    OBVIOUS
<1>5. EngagementTables /\ CountersAreOfRows /\ tapped \in [Kinds -> [Fans -> Nat]]
      /\ marks \in [Kinds -> [Fans -> Nat]] /\ k \in Kinds /\ u \in Fans
    BY <1>3, <1>4 DEF EngagementInv, EngagementTables
<1>6. CASE UNCHANGED <<marks, tapped, counter>>
    BY <1>2, <1>6, EngagementReads, IdleEngages DEF engagementVars
<1>7. ASSUME marks' \in [Kinds -> [Fans -> Nat]], counter' \in [Counted -> Int], CountersAreOfRows',
             tapped' \in [Kinds -> [Fans -> Nat]]
      PROVE  EngagementInv'
    <2>1. EngagementTables'
        BY <1>2, <1>5, <1>7 DEF EngagementTables
    <2>2. ~overlapped => RatingsOK'
        BY <1>2 DEF EngagementInv, RatingsOK
    <2>3. Len(reviews) <= Len(reviews')
        BY <1>2, <1>5 DEF EngagementTables
    <2>4. QED
        BY <1>2, <1>7, <2>1, <2>2, <2>3, EngagementGoes, IdleEngages
<1>8. CASE /\ marks[k][u] = 0 /\ tapped' = [tapped EXCEPT ![k][u] = @ + 1]
           /\ marks' = [marks EXCEPT ![k][u] = tapped[k][u] + 1] /\ Bump(k, 1)
    <2>1. PICK id : id = tapped[k][u] + 1
        OBVIOUS
    <2>2. id \in Nat /\ id # 0 /\ tapped' \in [Kinds -> [Fans -> Nat]]
        BY <1>5, <1>8, <2>1
    <2>3. marks' \in [Kinds -> [Fans -> Nat]] /\ counter' \in [Counted -> Int] /\ CountersAreOfRows'
        BY <1>2, <1>5, <1>8, <2>1, <2>2, MarkCounts
    <2>4. QED
        BY <1>7, <2>2, <2>3
<1>9. CASE /\ marks[k][u] # 0 /\ tapped' = tapped
           /\ marks' = [marks EXCEPT ![k][u] = 0] /\ Bump(k, -1)
    <2>1. marks' \in [Kinds -> [Fans -> Nat]] /\ counter' \in [Counted -> Int] /\ CountersAreOfRows'
        BY <1>2, <1>5, <1>9, MarkCounts
    <2>2. QED
        BY <1>5, <1>7, <1>9, <2>1
<1>10. QED
    BY <1>1, <1>4, <1>6, <1>8, <1>9 DEF PutMark, TakeMark

LEMMA EngagementCalls ==
    ASSUME EngagementInv, NEW call, Instant(call), UNCHANGED <<reviews, rated, answered>>,
           EngagementTables', CountersAreOfRows'
    PROVE  EngagementInv'
<1>1. Serial' /\ req' = req
      /\ (~overlapped' => ~overlapped /\ \A q \in Requests : At(q, "idle"))
    BY InstantSerial DEF EngagementInv
<1>2. \A q \in Requests : (EngagementFrame(req[q]))'
    BY <1>1 DEF EngagementInv, EngagementFrame
<1>3. ~overlapped' => RatingsOK' /\ \A q \in Requests : (RatingCurrent(req[q]))'
    BY <1>1 DEF EngagementInv, RatingsOK, RatingCurrent, At
<1>4. QED
    BY <1>1, <1>2, <1>3 DEF EngagementInv

LEMMA EngagementCallsKeep ==
    ASSUME EngagementAssumption, EngagementInv, EngagementAlone
    PROVE  EngagementInv'
<1>1. /\ EngagementTables /\ CountersAreOfRows
      /\ marks \in [Kinds -> [Fans -> Nat]] /\ counter \in [Counted -> Int] /\ rowless \in [Counted -> Int]
    BY DEF EngagementInv, EngagementTables
<1>2. \A j \in Counted : IsFiniteSet(FansOf(j)) /\ Cardinality(FansOf(j)) \in Nat
    BY FS_Subset, FS_CardinalityType DEF EngagementAssumption, FansOf
<1>3. CASE SeeAnonymously
    <2>1. /\ Instant("seeAnonymously") /\ UNCHANGED <<reviews, rated, answered, marks, tapped>>
          /\ counter' = [counter EXCEPT !["seeStory"] = @ + 1] /\ rowless' = [rowless EXCEPT !["seeStory"] = @ + 1]
        BY <1>3 DEF SeeAnonymously, Bump, Counted
    <2>2. /\ counter' \in [Counted -> Int] /\ rowless' \in [Counted -> Int]
          /\ \A j \in Counted : counter'[j] - rowless'[j] = counter[j] - rowless[j]
        <3>1. "seeStory" \in Counted
            BY DEF Counted
        <3>2. counter' \in [Counted -> Int] /\ rowless' \in [Counted -> Int]
            BY <1>1, <2>1, <3>1
        <3>3. ASSUME NEW j \in Counted PROVE counter'[j] - rowless'[j] = counter[j] - rowless[j]
            <4>1. counter[j] \in Int /\ rowless[j] \in Int
                BY <1>1
            <4>2. CASE j = "seeStory"
                BY <1>1, <2>1, <3>1, <4>1, <4>2
            <4>3. CASE j # "seeStory"
                <5>1. counter'[j] = counter[j] /\ rowless'[j] = rowless[j]
                    BY <1>1, <2>1, <4>3
                <5>2. QED
                    BY <5>1
            <4>4. QED
                BY <4>2, <4>3
        <3>4. QED
            BY <3>2, <3>3
    <2>3. EngagementTables'
        BY <1>1, <2>1, <2>2 DEF EngagementTables
    <2>4. ASSUME NEW j \in Counted PROVE counter'[j] = rowless'[j] + Cardinality(FansOf(j)')
        <3>1. FansOf(j)' = FansOf(j) /\ counter[j] = rowless[j] + Cardinality(FansOf(j))
            BY <1>1, <2>1 DEF FansOf, CountersAreOfRows
        <3>2. counter[j] \in Int /\ rowless[j] \in Int /\ counter'[j] \in Int /\ rowless'[j] \in Int
            BY <1>1, <2>2
        <3>3. QED
            BY <1>2, <2>2, <3>1, <3>2
    <2>5. QED
        BY <2>1, <2>3, <2>4, EngagementCalls DEF CountersAreOfRows
<1>4. ASSUME NEW u \in Fans, EraseFan(u) PROVE EngagementInv'
    <2>1. /\ Instant("eraseFan") /\ UNCHANGED <<reviews, rated, answered, tapped, counter>>
          /\ marks' = [k \in Kinds |-> IF k = "helpful" THEN marks[k] ELSE [marks[k] EXCEPT ![u] = 0]]
          /\ rowless' = [k \in Counted |->
                            rowless[k] + IF k # "helpful" /\ marks[k][u] # 0 THEN 1 ELSE 0]
        BY <1>4 DEF EraseFan
    <2>2. /\ marks' \in [Kinds -> [Fans -> Nat]] /\ rowless' \in [Counted -> Int]
          /\ \A k \in Kinds : k # "helpful" => /\ marks'[k][u] = 0
                                               /\ \A v \in Fans : v # u => marks'[k][v] = marks[k][v]
        BY <1>1, <2>1
    <2>3. EngagementTables'
        BY <1>1, <2>1, <2>2 DEF EngagementTables
    <2>4. ASSUME NEW j \in Counted PROVE counter'[j] = rowless'[j] + Cardinality(FansOf(j)')
        <3>1. /\ counter[j] = rowless[j] + Cardinality(FansOf(j)) /\ j \in Kinds
              /\ rowless[j] \in Int /\ Cardinality(FansOf(j)) \in Nat
            BY <1>1, <1>2 DEF CountersAreOfRows, Kinds
        <3>2. CASE j = "helpful"
            <4>1. FansOf(j)' = FansOf(j) /\ rowless'[j] = rowless[j] + 0
                BY <2>1, <3>1, <3>2 DEF FansOf
            <4>2. QED
                BY <2>1, <3>1, <4>1
        <3>3. CASE j # "helpful" /\ marks[j][u] # 0
            <4>1. FansOf(j)' = FansOf(j) \ {u} /\ u \in FansOf(j)
                BY <2>2, <3>1, <3>3 DEF FansOf
            <4>2. Cardinality(FansOf(j)') = Cardinality(FansOf(j)) - 1
                BY <1>2, <4>1, FS_RemoveElement
            <4>3. rowless'[j] = rowless[j] + 1
                BY <2>1, <3>3
            <4>4. counter'[j] = counter[j]
                BY <2>1
            <4>5. QED
                BY <3>1, <4>2, <4>3, <4>4
        <3>4. CASE j # "helpful" /\ marks[j][u] = 0
            <4>1. FansOf(j)' = FansOf(j)
                BY <2>2, <3>1, <3>4 DEF FansOf
            <4>2. rowless'[j] = rowless[j] + 0
                BY <2>1, <3>4
            <4>3. QED
                BY <2>1, <3>1, <4>1, <4>2
        <3>5. QED
            BY <3>2, <3>3, <3>4
    <2>5. QED
        BY <2>1, <2>3, <2>4, EngagementCalls DEF CountersAreOfRows
<1>5. QED
    BY <1>3, <1>4 DEF EngagementAlone

LEMMA EngagementKeeps ==
    ASSUME EngagementAssumption
    PROVE  EngagementInv /\ [EngagementNext]_<<engagementVars, handlerVars>> => EngagementInv'
<1> SUFFICES ASSUME EngagementInv, [EngagementNext]_<<engagementVars, handlerVars>> PROVE EngagementInv'
    OBVIOUS
<1>1. ASSUME NEW r \in Requests, EngagementStep(r) PROVE EngagementInv'
    <2>1. CASE \E order \in Delivered \cup {NoOrder}, aboutDish \in BOOLEAN : CreateReview(r, order, aboutDish)
        BY <2>1, CreateReviewKeeps
    <2>2. CASE \E kind \in Kinds, u \in Fans : Toggle(r, kind, u)
        BY <2>2, ToggleKeeps
    <2>3. QED
        BY <1>1, <2>1, <2>2, InsertReviewKeeps, AggregateKeeps, WriteRatingKeeps, MarkKeeps DEF EngagementStep
<1>2. ASSUME NEW r \in Requests, Abort(r), UNCHANGED engagementVars PROVE EngagementInv'
    BY <1>2, EngagementReads, IdleEngages DEF Abort, End
<1>3. CASE UNCHANGED <<engagementVars, handlerVars>>
    BY <1>3 DEF EngagementInv, EngagementTables, CountersAreOfRows, FansOf, RatingsOK, RatingCurrent, AboutIt,
                EngagementFrame, Serial, Tracked, OneByOne, InFlight, At, engagementVars, handlerVars
<1>4. QED
    BY <1>1, <1>2, <1>3, EngagementCallsKeep DEF EngagementNext

LEMMA EngagementBegins == HandlersInit /\ EngagementInit => EngagementInv
<1> SUFFICES ASSUME HandlersInit, EngagementInit PROVE EngagementInv
    OBVIOUS
<1>1. Serial /\ \A r \in Requests : req[r] = Idle
    BY InitSerial DEF HandlersInit
<1>2. EngagementTables
    BY DEF EngagementInit, EngagementTables
<1>3. CountersAreOfRows
    <2>1. \A k \in Counted : FansOf(k) = {}
        BY DEF EngagementInit, FansOf, Kinds
    <2>2. \A k \in Counted : counter[k] = 0 /\ rowless[k] = 0
        BY DEF EngagementInit
    <2>3. \A k \in Counted : Cardinality(FansOf(k)) = 0
        BY <2>1, FS_EmptySet
    <2>4. QED
        BY <2>2, <2>3 DEF CountersAreOfRows
<1>4. RatingsOK
    BY DEF EngagementInit, RatingsOK
<1>5. QED
    BY <1>1, <1>2, <1>3, <1>4, IdleEngages DEF EngagementInv

(* However taps and deletions of accounts interleave, likeCount and its         *)
(* siblings are the number of rows, of anonymous views and of rows that         *)
(* deleted accounts took along; and an answered review is in the ratings of     *)
(* its kitchen and of its dish, while requests come one by one (toggleLike,     *)
(* recalculateRatings).                                                         *)
THEOREM CountersAreRight == EngagementSpec => []CountersMatchRows
<1>1. EngagementInv => CountersMatchRows
    BY DEF EngagementInv, CountersAreOfRows, FansOf, RatingsOK, CountersMatchRows
<1>2. HandlersInit /\ EngagementInit => EngagementInv
    BY EngagementBegins
<1>3. EngagementInv /\ [EngagementNext]_<<engagementVars, handlerVars>> => EngagementInv'
    BY EngagementAssumption, EngagementKeeps
<1>4. QED
    BY <1>1, <1>2, <1>3, PTL DEF EngagementSpec

-----------------------------------------------------------------------------
(* Cart.  In every interleaving an order, from the moment it is priced,       *)
(* qualifies for what is taken off it.  While requests come one by one, the   *)
(* lines are of one kitchen and each of another item, and what a request has  *)
(* read of them is so until it writes.                                        *)

Basket == UNION {[S -> Line] : S \in {T \in SUBSET Nat : IsFiniteSet(T)}}

Order == [status : {"PLACED", "PENDING_PAYMENT"}, items : Basket, coupon : BOOLEAN, coins : Int,
          story : BOOLEAN, total : Int]

Qualifies(o) ==
    /\ o.coupon => Totalled(o.items) >= CouponRow.minOrderValue
    /\ o.coins > 0 => Totalled(o.items) >= PRICING.COINS_MIN_ORDER_VALUE
    /\ o.coins <= PRICING.MAX_REDEEMABLE_COINS

Qualified == {o \in Order : Qualifies(o)}

CartRow == [exists : BOOLEAN, coupon : BOOLEAN, coins : Int, story : BOOLEAN]

CartTables ==
    /\ lines \in Seq(Line) /\ placed \in Seq(Qualified)
    /\ cart \in CartRow /\ coinsLeft \in Int

(* What a call carries when it comes, *)
CallFrame(f) ==
    \/ f \in [at : {"kitchenOf"}, item : Items, quantity : 1..QuantityCap, replace : BOOLEAN, story : BOOLEAN]
    \/ f \in [at : {"setItem"}, line : 1..Len(lines), quantity : 0..QuantityCap]
    \/ f \in [at : {"clearAll", "qualifyCoupon", "qualifyCoins"}]
    \/ f \in [at : {"writeCoupon"}, coupon : BOOLEAN]
    \/ f \in [at : {"writeCoins"}, coins : Int]
    \/ f \in [at : {"readItems"}, immediate : BOOLEAN]
    \/ f \in [at : {"confirmOrder"}, order : 1..Len(placed)]

(* and later. *)
CartFrame(f) ==
    \/ f = Idle
    \/ CallFrame(f)
    \/ f.at = "newCart" /\ CallFrame(f.then)
    \/ f \in [at : {"kitchenOf", "emptyLines", "resetCart", "findLine", "insertLine"},
              item : Items, quantity : 1..QuantityCap, replace : BOOLEAN, story : BOOLEAN]
    \/ f \in [at : {"bumpLine"}, line : 1..Len(lines), old : 0..QuantityCap, quantity : 1..QuantityCap,
              story : BOOLEAN]
    \/ f \in [at : {"attribute"}]
    \/ f \in [at : {"evaluate"}, immediate : BOOLEAN, read : Basket]
    \/ f \in [at : {"place"}, order : Qualified]

LinesOK ==
    \A i, j \in InCart :
        KitchenOf[lines[i].item] = KitchenOf[lines[j].item] /\ (lines[i].item = lines[j].item => i = j)

CartCurrent(f) ==
    /\ f.at = "resetCart" => InCart = {}
    /\ f.at \in {"findLine", "insertLine"} => \A i \in InCart : KitchenOf[lines[i].item] = KitchenOf[f.item]
    /\ f.at = "insertLine" => \A i \in InCart : lines[i].item # f.item

CartInv ==
    /\ Serial /\ CartTables
    /\ \A r \in Requests : CartFrame(req[r])
    /\ ~overlapped => LinesOK /\ \A r \in Requests : CartCurrent(req[r])

LEMMA CartGoes ==
    ASSUME CartInv, NEW r \in Requests, NEW frame, Goto(r, frame),
           CartTables', Len(lines) <= Len(lines'), Len(placed) <= Len(placed'), CartFrame(frame)',
           ~At(r, "idle") \/ frame # Idle,
           ~overlapped => LinesOK' /\ CartCurrent(frame)'
    PROVE  CartInv'
<1>1. Serial' /\ req'[r] = frame /\ \A q \in Requests \ {r} : req'[q] = req[q]
    BY GotoOK, GotoSerial DEF CartInv, Serial
<1>2. /\ Len(lines) \in Nat /\ Len(lines') \in Nat /\ Len(placed) \in Nat /\ Len(placed') \in Nat
      /\ 1..Len(lines) \subseteq 1..Len(lines') /\ 1..Len(placed) \subseteq 1..Len(placed')
    BY DEF CartInv, CartTables
<1>3. ASSUME NEW f, CallFrame(f) PROVE CallFrame(f)'
    BY <1>2, <1>3 DEF CallFrame
<1>4. ASSUME NEW q \in Requests PROVE (CartFrame(req[q]))'
    <2>1. CASE q = r
        BY <1>1, <2>1 DEF CartFrame, CallFrame
    <2>2. CASE q # r
        <3>1. PICK f : f = req[q]
            OBVIOUS
        <3>2. CartFrame(f) /\ req'[q] = f
            BY <1>1, <2>2, <3>1 DEF CartInv
        <3>3. CASE CallFrame(f)
            <4>1. CallFrame(f)'
                BY <1>3, <3>3
            <4>2. QED
                BY <3>2, <4>1 DEF CartFrame, CallFrame
        <3>4. CASE f.at = "newCart" /\ CallFrame(f.then)
            <4>1. PICK g : g = f.then
                OBVIOUS
            <4>2. CallFrame(g)'
                BY <1>3, <3>4, <4>1
            <4>3. QED
                BY <3>2, <3>4, <4>1, <4>2 DEF CartFrame, CallFrame
        <3>5. CASE ~CallFrame(f) /\ ~(f.at = "newCart" /\ CallFrame(f.then))
            BY <1>2, <3>2, <3>5 DEF CartFrame
        <3>6. QED
            BY <3>3, <3>4, <3>5
    <2>3. QED
        BY <2>1, <2>2
<1>5. ASSUME ~overlapped' PROVE LinesOK' /\ \A q \in Requests : (CartCurrent(req[q]))'
    <2>1. ~overlapped /\ \A q \in Requests \ {r} : req'[q].at = "idle"
        BY <1>5, OthersIdle DEF CartInv
    <2>2. \A q \in Requests \ {r} : (CartCurrent(req[q]))'
        BY <2>1 DEF CartCurrent
    <2>3. (CartCurrent(req[r]))'
        BY <1>1, <2>1 DEF CartCurrent
    <2>4. QED
        BY <2>1, <2>2, <2>3
<1>6. QED
    BY <1>1, <1>4, <1>5 DEF CartInv

(* A step that leaves the lines and the orders alone. *)
LEMMA CartRowGoes ==
    ASSUME CartInv, NEW r \in Requests, NEW frame, Goto(r, frame), UNCHANGED <<lines, placed, coinsLeft>>,
           cart' \in CartRow, CartFrame(frame), ~At(r, "idle") \/ frame # Idle,
           ~overlapped => CartCurrent(frame)
    PROVE  CartInv'
<1>1. CartTables' /\ Len(lines) <= Len(lines') /\ Len(placed) <= Len(placed')
    BY DEF CartInv, CartTables
<1>2. CartFrame(frame)'
    BY DEF CartFrame, CallFrame
<1>3. ~overlapped => LinesOK' /\ CartCurrent(frame)'
    BY DEF CartInv, LinesOK, CartCurrent, InCart
<1>4. QED
    BY <1>1, <1>2, <1>3, CartGoes

LEMMA CartReads ==
    ASSUME CartInv, NEW r \in Requests, NEW frame, Goto(r, frame), UNCHANGED cartVars,
           CartFrame(frame), ~At(r, "idle") \/ frame # Idle, ~overlapped => CartCurrent(frame)
    PROVE  CartInv'
<1>1. UNCHANGED <<lines, placed, coinsLeft>> /\ cart' \in CartRow
    BY DEF cartVars, CartInv, CartTables
<1>2. QED
    BY <1>1, CartRowGoes

LEMMA IdleCart == CartFrame(Idle) /\ CartCurrent(Idle) /\ CartFrame(Idle)' /\ CartCurrent(Idle)'
BY DEF CartFrame, CartCurrent, Idle

LEMMA CallsAreCurrent ==
    ASSUME NEW f, CallFrame(f)
    PROVE  CartFrame(f) /\ f # Idle /\ CartCurrent(f)
BY DEF CallFrame, CartFrame, CartCurrent, Idle

(* What the writes do to the lines. *)
LEMMA SetLineOK ==
    ASSUME lines \in Seq(Line), NEW i \in DOMAIN lines, NEW q \in 0..QuantityCap,
           lines' = [lines EXCEPT ![i].quantity = q], lines[i].quantity # 0
    PROVE  /\ lines' \in Seq(Line) /\ Len(lines') = Len(lines)
           /\ LinesOK => LinesOK'
<1>1. lines[i] \in Line
    OBVIOUS
<1>2. PICK x : x = [lines[i] EXCEPT !.quantity = q]
    OBVIOUS
<1>3. x \in Line /\ x.item = lines[i].item
    BY <1>1, <1>2 DEF Line
<1>4. lines' = [lines EXCEPT ![i] = x]
    BY <1>2
<1>5. /\ lines' \in Seq(Line) /\ Len(lines') = Len(lines) /\ DOMAIN lines' = DOMAIN lines
      /\ \A j \in DOMAIN lines : lines'[j].item = lines[j].item
      /\ \A j \in DOMAIN lines : j # i => lines'[j] = lines[j]
    BY <1>3, <1>4
<1>6. lines[i].quantity > 0
    BY <1>1 DEF Line
<1>7. InCart' \subseteq InCart /\ InCart \subseteq DOMAIN lines
    BY <1>5, <1>6 DEF InCart
<1>8. QED
    BY <1>5, <1>7 DEF LinesOK

LEMMA NoLinesOK ==
    ASSUME lines \in Seq(Line), lines' = NoLines, QuantityCap \in Nat
    PROVE  lines' \in Seq(Line) /\ Len(lines') = Len(lines) /\ InCart' = {} /\ LinesOK'
<1>1. \A x \in Line : [x EXCEPT !.quantity = 0] \in Line /\ [x EXCEPT !.quantity = 0].quantity = 0
    BY DEF Line
<1>2. lines' = [i \in DOMAIN lines |-> [lines[i] EXCEPT !.quantity = 0]]
    BY DEF NoLines
<1>3. /\ DOMAIN lines' = 1..Len(lines) /\ Len(lines) \in Nat
      /\ \A i \in DOMAIN lines : lines[i] \in Line /\ lines'[i] \in Line /\ lines'[i].quantity = 0
    <2>1. DOMAIN lines' = 1..Len(lines) /\ Len(lines) \in Nat
        BY <1>2
    <2>2. ASSUME NEW i \in DOMAIN lines
          PROVE  lines[i] \in Line /\ lines'[i] \in Line /\ lines'[i].quantity = 0
        <3>1. lines[i] \in Line
            OBVIOUS
        <3>2. lines'[i] = [lines[i] EXCEPT !.quantity = 0]
            BY <1>2
        <3>3. QED
            BY <1>1, <3>1, <3>2
    <2>3. QED
        BY <2>1, <2>2
<1>4. lines' \in Seq(Line)
    BY <1>2, <1>3
<1>5. Len(lines') = Len(lines) /\ InCart' = {}
    BY <1>3, <1>4 DEF InCart
<1>6. QED
    BY <1>4, <1>5 DEF LinesOK

LEMMA NewLineOK ==
    ASSUME lines \in Seq(Line), NEW x \in Line, lines' = Append(lines, x)
    PROVE  /\ lines' \in Seq(Line) /\ Len(lines) <= Len(lines')
           /\ (/\ LinesOK
               /\ \A i \in InCart : KitchenOf[lines[i].item] = KitchenOf[x.item]
               /\ \A i \in InCart : lines[i].item # x.item) => LinesOK'
<1>1. /\ lines' \in Seq(Line) /\ Len(lines) <= Len(lines') /\ lines'[Len(lines) + 1] = x
      /\ \A j \in DOMAIN lines : lines'[j] = lines[j]
      /\ \A j \in DOMAIN lines' : j \in DOMAIN lines \/ j = Len(lines) + 1
    OBVIOUS
<1>2. InCart' \subseteq InCart \cup {Len(lines) + 1} /\ InCart \subseteq DOMAIN lines
    BY <1>1 DEF InCart
<1>3. ASSUME LinesOK, \A i \in InCart : KitchenOf[lines[i].item] = KitchenOf[x.item],
             \A i \in InCart : lines[i].item # x.item, NEW i \in InCart', NEW j \in InCart'
      PROVE  /\ KitchenOf[lines'[i].item] = KitchenOf[lines'[j].item]
             /\ lines'[i].item = lines'[j].item => i = j
    <2>1. (i \in InCart /\ lines'[i] = lines[i]) \/ (i = Len(lines) + 1 /\ lines'[i] = x)
        BY <1>1, <1>2
    <2>2. (j \in InCart /\ lines'[j] = lines[j]) \/ (j = Len(lines) + 1 /\ lines'[j] = x)
        BY <1>1, <1>2
    <2>3. QED
        BY <1>3, <2>1, <2>2 DEF LinesOK
<1>4. QED
    BY <1>1, <1>3 DEF LinesOK

-----------------------------------------------------------------------------
(* Adding an item, and changing and clearing lines *)

LEMMA CallsKeep ==
    ASSUME CartInv, NEW r \in Requests, NEW call, NEW then, Call(r, call, then), CallFrame(then)
    PROVE  CartInv'
<1>1. PICK frame : frame = IF cart.exists THEN then ELSE [at |-> "newCart", then |-> then]
    OBVIOUS
<1>2. CartFrame(then) /\ then # Idle /\ CartCurrent(then)
    BY CallsAreCurrent
<1>3. CartFrame(frame) /\ frame # Idle /\ CartCurrent(frame)
    <2>1. CASE cart.exists
        BY <1>1, <1>2, <2>1
    <2>2. CASE ~cart.exists
        <3>1. frame.at = "newCart" /\ frame.then = then
            BY <1>1, <2>2
        <3>2. QED
            BY <3>1 DEF CartFrame, CartCurrent, Idle
    <2>3. QED
        BY <2>1, <2>2
<1>4. Goto(r, frame) /\ UNCHANGED cartVars
    BY <1>1 DEF Call, Begin
<1>5. QED
    BY <1>3, <1>4, CartReads

LEMMA CreateCartKeeps ==
    ASSUME CartInv, NEW r \in Requests, CreateCart(r)
    PROVE  CartInv'
<1>1. PICK f : f = req[r]
    OBVIOUS
<1>2. /\ f.at = "newCart" /\ ~At(r, "idle") /\ cart' = [cart EXCEPT !.exists = TRUE]
      /\ UNCHANGED <<lines, coinsLeft, placed>>
    BY <1>1 DEF CreateCart, At
<1>3. CallFrame(f.then)
    <2>1. CartFrame(f)
        BY <1>1 DEF CartInv
    <2>2. f # Idle /\ ~CallFrame(f)
        BY <1>2 DEF Idle, CallFrame
    <2>3. QED
        BY <1>2, <2>1, <2>2 DEF CartFrame
<1>4. cart' \in CartRow
    BY <1>2 DEF CartInv, CartTables, CartRow
<1>5. CASE End(r)
    BY <1>2, <1>4, <1>5, CartRowGoes, IdleCart DEF End
<1>6. CASE Goto(r, f.then)
    BY <1>2, <1>3, <1>4, <1>6, CartRowGoes, CallsAreCurrent
<1>7. QED
    BY <1>1, <1>5, <1>6 DEF CreateCart

(* What a request carries that adds an item. *)
Adding == [at : {"kitchenOf", "emptyLines", "resetCart", "findLine", "insertLine"},
           item : Items, quantity : 1..QuantityCap, replace : BOOLEAN, story : BOOLEAN]

LEMMA AddingCarries ==
    ASSUME CartInv, NEW r \in Requests, NEW f, f = req[r],
           f.at \in {"kitchenOf", "emptyLines", "resetCart", "findLine", "insertLine"}
    PROVE  f \in Adding /\ ~At(r, "idle")
<1>1. f \in Adding \/ CallFrame(f)
    BY DEF CartInv, CartFrame, Adding, Idle
<1>2. CallFrame(f) => f \in Adding
    BY DEF CallFrame, Adding
<1>3. QED
    BY <1>1, <1>2 DEF At

(* It goes on, with the same in hand. *)
LEMMA AddingGoesOn ==
    ASSUME NEW r \in Requests, NEW f \in Adding, f = req[r],
           NEW step \in {"kitchenOf", "emptyLines", "resetCart", "findLine", "insertLine"}
    PROVE  \E frame \in Adding : /\ Continue(r, step) => Goto(r, frame)
                                 /\ frame.at = step /\ frame.item = f.item
                                 /\ CartFrame(frame) /\ CartFrame(frame)'
<1>1. PICK frame : frame = [f EXCEPT !.at = step]
    OBVIOUS
<1>2. frame \in Adding /\ frame.at = step /\ frame.item = f.item
    BY <1>1 DEF Adding
<1>3. Continue(r, step) => Goto(r, frame)
    BY <1>1 DEF Continue
<1>4. CartFrame(frame) /\ CartFrame(frame)'
    BY <1>2 DEF CartFrame, Adding
<1>5. QED
    BY <1>2, <1>3, <1>4

LEMMA CheckKitchenKeeps ==
    ASSUME CartInv, NEW r \in Requests, CheckKitchen(r)
    PROVE  CartInv'
<1>1. PICK f : f = req[r]
    OBVIOUS
<1>2. f \in Adding /\ ~At(r, "idle") /\ UNCHANGED cartVars
    BY <1>1, AddingCarries DEF CheckKitchen, At
<1>3. CASE End(r)
    BY <1>2, <1>3, CartReads, IdleCart DEF End
<1>4. CASE Continue(r, "emptyLines")
    <2>1. PICK frame \in Adding : Goto(r, frame) /\ frame.at = "emptyLines" /\ CartFrame(frame)
        BY <1>1, <1>2, <1>4, AddingGoesOn
    <2>2. CartCurrent(frame)
        BY <2>1 DEF CartCurrent
    <2>3. QED
        BY <1>2, <2>1, <2>2, CartReads
<1>5. ASSUME Continue(r, "findLine"),
             InCart = {} \/ \E i \in InCart : KitchenOf[lines[i].item] = KitchenOf[f.item]
      PROVE  CartInv'
    <2>1. PICK frame \in Adding : /\ Goto(r, frame) /\ frame.at = "findLine" /\ frame.item = f.item
                                  /\ CartFrame(frame)
        BY <1>1, <1>2, <1>5, AddingGoesOn
    <2>2. ASSUME ~overlapped PROVE CartCurrent(frame)
        <3>1. LinesOK
            BY <2>2 DEF CartInv
        <3>2. \A i \in InCart : KitchenOf[lines[i].item] = KitchenOf[f.item]
            BY <1>5, <3>1 DEF LinesOK
        <3>3. QED
            BY <2>1, <3>2 DEF CartCurrent
    <2>3. QED
        BY <1>2, <2>1, <2>2, CartReads
<1>6. QED
    BY <1>1, <1>3, <1>4, <1>5 DEF CheckKitchen

LEMMA ReplaceKeeps ==
    ASSUME CartAssumption, CartInv, NEW r \in Requests, ReplaceLines(r) \/ ReplaceApplied(r)
    PROVE  CartInv'
<1>1. PICK f : f = req[r]
    OBVIOUS
<1>2. f \in Adding /\ ~At(r, "idle") /\ UNCHANGED <<coinsLeft, placed>>
    BY <1>1, AddingCarries DEF ReplaceLines, ReplaceApplied, At
<1>3. lines \in Seq(Line) /\ placed \in Seq(Qualified) /\ cart \in CartRow /\ coinsLeft \in Int
    BY DEF CartInv, CartTables
<1>4. CASE ReplaceLines(r)
    <2>1. lines' = NoLines /\ cart' = cart
        BY <1>4 DEF ReplaceLines
    <2>2. PICK frame \in Adding : Goto(r, frame) /\ frame.at = "resetCart" /\ CartFrame(frame)'
        BY <1>1, <1>2, <1>4, AddingGoesOn DEF ReplaceLines
    <2>3. lines' \in Seq(Line) /\ Len(lines') = Len(lines) /\ InCart' = {} /\ LinesOK'
        BY <1>3, <2>1, NoLinesOK DEF CartAssumption
    <2>4. CartTables' /\ Len(lines) <= Len(lines') /\ Len(placed) <= Len(placed')
        BY <1>2, <1>3, <2>1, <2>3 DEF CartTables
    <2>5. CartCurrent(frame)'
        BY <2>2, <2>3 DEF CartCurrent
    <2>6. QED
        BY <1>2, <2>2, <2>3, <2>4, <2>5, CartGoes
<1>5. CASE ReplaceApplied(r)
    <2>1. cart' = Reset /\ lines' = lines /\ f.at = "resetCart"
        BY <1>1, <1>5 DEF ReplaceApplied, At
    <2>2. PICK frame \in Adding : Goto(r, frame) /\ frame.at = "findLine" /\ CartFrame(frame)
        BY <1>1, <1>2, <1>5, AddingGoesOn DEF ReplaceApplied
    <2>3. cart' \in CartRow
        BY <1>3, <2>1 DEF Reset, NothingApplied, CartRow
    <2>4. ~overlapped => InCart = {}
        BY <1>1, <2>1 DEF CartInv, CartCurrent
    <2>5. ~overlapped => CartCurrent(frame)
        BY <2>2, <2>4 DEF CartCurrent
    <2>6. QED
        BY <1>2, <2>1, <2>2, <2>3, <2>5, CartRowGoes
<1>6. QED
    BY <1>4, <1>5

LEMMA FindLineKeeps ==
    ASSUME CartInv, NEW r \in Requests, FindLine(r)
    PROVE  CartInv'
<1>1. PICK f : f = req[r]
    OBVIOUS
<1>2. f \in Adding /\ f.at = "findLine" /\ ~At(r, "idle") /\ UNCHANGED cartVars
    BY <1>1, AddingCarries DEF FindLine, At
<1>3. CASE SameLine(f.item) = {} /\ Continue(r, "insertLine")
    <2>1. PICK frame \in Adding : /\ Goto(r, frame) /\ frame.at = "insertLine" /\ frame.item = f.item
                                  /\ CartFrame(frame)
        BY <1>1, <1>2, <1>3, AddingGoesOn
    <2>2. ASSUME ~overlapped PROVE CartCurrent(frame)
        <3>1. CartCurrent(f)
            BY <1>1, <2>2 DEF CartInv
        <3>2. \A i \in InCart : lines[i].item # f.item
            BY <1>3 DEF SameLine
        <3>3. QED
            BY <1>2, <2>1, <3>1, <3>2 DEF CartCurrent
    <2>3. QED
        BY <1>2, <2>1, <2>2, CartReads
<1>4. ASSUME NEW i \in SameLine(f.item),
             Goto(r, [at |-> "bumpLine", line |-> i, old |-> lines[i].quantity,
                      quantity |-> f.quantity, story |-> f.story])
      PROVE  CartInv'
    <2>1. PICK frame : frame = [at |-> "bumpLine", line |-> i, old |-> lines[i].quantity,
                                quantity |-> f.quantity, story |-> f.story]
        OBVIOUS
    <2>2. lines \in Seq(Line) /\ i \in DOMAIN lines
        BY <1>4 DEF SameLine, InCart, CartInv, CartTables
    <2>3. i \in 1..Len(lines) /\ lines[i] \in Line
        BY <2>2
    <2>4. lines[i].quantity \in 0..QuantityCap /\ f.quantity \in 1..QuantityCap /\ f.story \in BOOLEAN
        BY <1>2, <2>3 DEF Line, Adding
    <2>5. CartFrame(frame) /\ CartCurrent(frame)
        BY <2>1, <2>3, <2>4 DEF CartFrame, CartCurrent
    <2>6. QED
        BY <1>2, <1>4, <2>1, <2>5, CartReads
<1>5. QED
    BY <1>1, <1>3, <1>4 DEF FindLine

(* A line is written; what the request does then holds of any lines. *)
LEMMA LinesGo ==
    ASSUME CartInv, NEW r \in Requests, NEW frame, Goto(r, frame), ~At(r, "idle"),
           frame = Idle \/ frame = [at |-> "attribute"], UNCHANGED <<cart, coinsLeft, placed>>,
           lines' \in Seq(Line), Len(lines) <= Len(lines'), ~overlapped => LinesOK'
    PROVE  CartInv'
<1>1. CartTables' /\ Len(placed) <= Len(placed')
    BY DEF CartInv, CartTables
<1>2. CartFrame(frame)' /\ CartCurrent(frame)'
    BY DEF CartFrame, CartCurrent, Idle
<1>3. QED
    BY <1>1, <1>2, CartGoes

LEMMA WriteLineKeeps ==
    ASSUME CartAssumption, CartInv, NEW r \in Requests, BumpLine(r) \/ InsertLine(r) \/ SetItem(r)
    PROVE  CartInv'
<1>1. PICK f : f = req[r]
    OBVIOUS
<1>2. lines \in Seq(Line) /\ QuantityCap \in Nat \ {0} /\ (~overlapped => LinesOK)
    BY DEF CartInv, CartTables, CartAssumption
<1>3. ASSUME NEW i \in DOMAIN lines, NEW q \in 0..QuantityCap, lines[i].quantity # 0,
             lines' = [lines EXCEPT ![i].quantity = q]
      PROVE  lines' \in Seq(Line) /\ Len(lines) <= Len(lines') /\ (~overlapped => LinesOK')
    <2>1. lines' \in Seq(Line) /\ Len(lines') = Len(lines) /\ (LinesOK => LinesOK')
        BY <1>2, <1>3, SetLineOK
    <2>2. Len(lines) \in Nat
        BY <1>2
    <2>3. QED
        BY <1>2, <2>1, <2>2
<1>4. CASE BumpLine(r)
    <2>1. f.at = "bumpLine" /\ ~At(r, "idle") /\ UNCHANGED <<offered, cart, coinsLeft, placed>>
        BY <1>1, <1>4 DEF BumpLine, At
    <2>2. f \in [at : {"bumpLine"}, line : 1..Len(lines), old : 0..QuantityCap, quantity : 1..QuantityCap,
                 story : BOOLEAN]
        <3>1. CartFrame(f)
            BY <1>1 DEF CartInv
        <3>2. QED
            BY <2>1, <3>1 DEF CartFrame, CallFrame, Idle
    <2>3. PICK frame : Goto(r, frame) /\ (frame = Idle \/ frame = [at |-> "attribute"])
        BY <1>4 DEF BumpLine, AfterLine, End
    <2>4. \/ UNCHANGED lines
          \/ /\ lines[f.line].quantity # 0
             /\ lines' = [lines EXCEPT ![f.line].quantity = Least(f.old + f.quantity, QuantityCap)]
        BY <1>1, <1>4 DEF BumpLine
    <2>5. f.line \in DOMAIN lines /\ Least(f.old + f.quantity, QuantityCap) \in 0..QuantityCap
        BY <1>2, <2>2 DEF Least
    <2>6. lines' \in Seq(Line) /\ Len(lines) <= Len(lines') /\ (~overlapped => LinesOK')
        <3>1. CASE UNCHANGED lines
            BY <1>2, <3>1 DEF LinesOK, InCart
        <3>2. QED
            BY <1>3, <2>4, <2>5, <3>1
    <2>7. QED
        BY <2>1, <2>3, <2>6, LinesGo
<1>5. CASE InsertLine(r)
    <2>1. f.at = "insertLine" /\ UNCHANGED <<offered, cart, coinsLeft, placed>>
        BY <1>1, <1>5 DEF InsertLine, At
    <2>2. f \in Adding /\ ~At(r, "idle")
        BY <1>1, <2>1, AddingCarries
    <2>3. PICK x : x = [item |-> f.item, quantity |-> f.quantity]
        OBVIOUS
    <2>4. x \in Line /\ x.item = f.item
        BY <1>2, <2>2, <2>3 DEF Adding, Line
    <2>5. lines' = Append(lines, x)
        BY <1>1, <1>5, <2>3 DEF InsertLine
    <2>6. PICK frame : Goto(r, frame) /\ (frame = Idle \/ frame = [at |-> "attribute"])
        BY <1>5 DEF InsertLine, AfterLine, End
    <2>7. ASSUME ~overlapped PROVE LinesOK'
        <3>1. LinesOK /\ CartCurrent(f)
            BY <1>1, <2>7 DEF CartInv
        <3>2. /\ \A i \in InCart : KitchenOf[lines[i].item] = KitchenOf[x.item]
              /\ \A i \in InCart : lines[i].item # x.item
            BY <2>1, <2>4, <3>1 DEF CartCurrent
        <3>3. QED
            BY <1>2, <2>4, <2>5, <3>1, <3>2, NewLineOK
    <2>8. lines' \in Seq(Line) /\ Len(lines) <= Len(lines')
        BY <1>2, <2>4, <2>5, NewLineOK
    <2>9. QED
        BY <2>1, <2>2, <2>6, <2>7, <2>8, LinesGo
<1>6. CASE SetItem(r)
    <2>1. f.at = "setItem" /\ ~At(r, "idle") /\ UNCHANGED <<offered, cart, coinsLeft, placed>> /\ Goto(r, Idle)
        BY <1>1, <1>6 DEF SetItem, At, End
    <2>2. f \in [at : {"setItem"}, line : 1..Len(lines), quantity : 0..QuantityCap]
        <3>1. CartFrame(f)
            BY <1>1 DEF CartInv
        <3>2. QED
            BY <2>1, <3>1 DEF CartFrame, CallFrame, Idle
    <2>3. \/ UNCHANGED lines
          \/ /\ lines[f.line].quantity # 0
             /\ lines' = [lines EXCEPT ![f.line].quantity = f.quantity]
        BY <1>1, <1>6 DEF SetItem
    <2>4. f.line \in DOMAIN lines /\ f.quantity \in 0..QuantityCap
        BY <1>2, <2>2
    <2>5. lines' \in Seq(Line) /\ Len(lines) <= Len(lines') /\ (~overlapped => LinesOK')
        <3>1. CASE UNCHANGED lines
            BY <1>2, <3>1 DEF LinesOK, InCart
        <3>2. QED
            BY <1>3, <2>3, <2>4, <3>1
    <2>6. QED
        BY <2>1, <2>5, LinesGo
<1>7. QED
    BY <1>4, <1>5, <1>6

-----------------------------------------------------------------------------
(* The other calls, and what is applied to the cart *)

LEMMA CallsCome ==
    ASSUME CartAssumption, CartInv, NEW r \in Requests,
           \/ \E item \in Items, quantity \in {1, QuantityCap}, replace \in BOOLEAN, story \in BOOLEAN :
                 AddItem(r, item, quantity, replace, story)
           \/ \E i \in InCart, quantity \in {0, 1} : UpdateItem(r, i, quantity)
           \/ Clear(r)
           \/ \E step \in {"qualifyCoupon", "qualifyCoins"} : Applied(r, step)
           \/ Unapply(r, WithCoupon(FALSE)) \/ Unapply(r, WithCoins(0))
           \/ \E immediate \in BOOLEAN : PlaceOrder(r, immediate)
           \/ \E o \in DOMAIN placed : ConfirmPayment(r, o)
    PROVE  CartInv'
<1>1. lines \in Seq(Line) /\ placed \in Seq(Qualified) /\ QuantityCap \in Nat \ {0}
    BY DEF CartInv, CartTables, CartAssumption
<1>2. DOMAIN lines = 1..Len(lines) /\ DOMAIN placed = 1..Len(placed)
    BY <1>1
<1>3. ASSUME NEW item \in Items, NEW quantity \in {1, QuantityCap}, NEW replace \in BOOLEAN,
             NEW story \in BOOLEAN, AddItem(r, item, quantity, replace, story)
      PROVE  CartInv'
    <2>1. PICK f : f = [at |-> "kitchenOf", item |-> item, quantity |-> quantity,
                        replace |-> replace, story |-> story]
        OBVIOUS
    <2>2. quantity \in 1..QuantityCap
        BY <1>1
    <2>3. CallFrame(f)
        BY <2>1, <2>2 DEF CallFrame
    <2>4. Call(r, "add", f)
        BY <1>3, <2>1 DEF AddItem
    <2>5. QED
        BY <2>3, <2>4, CallsKeep
<1>4. ASSUME NEW i \in InCart, NEW quantity \in {0, 1}, UpdateItem(r, i, quantity)
      PROVE  CartInv'
    <2>1. PICK f : f = [at |-> "setItem", line |-> i, quantity |-> quantity]
        OBVIOUS
    <2>2. quantity \in 0..QuantityCap /\ i \in 1..Len(lines)
        BY <1>1, <1>2 DEF InCart
    <2>3. CallFrame(f)
        BY <2>1, <2>2 DEF CallFrame
    <2>4. Call(r, "update", f)
        BY <1>4, <2>1 DEF UpdateItem
    <2>5. QED
        BY <2>3, <2>4, CallsKeep
<1>5. CASE Clear(r)
    <2>1. CallFrame([at |-> "clearAll"])
        BY DEF CallFrame
    <2>2. QED
        BY <1>5, <2>1, CallsKeep DEF Clear
<1>6. ASSUME NEW step \in {"qualifyCoupon", "qualifyCoins"}, Applied(r, step)
      PROVE  CartInv'
    <2>1. CallFrame([at |-> step])
        BY DEF CallFrame
    <2>2. QED
        BY <1>6, <2>1, CallsKeep DEF Applied
<1>7. CASE Unapply(r, WithCoupon(FALSE)) \/ Unapply(r, WithCoins(0))
    <2>1. CallFrame(WithCoupon(FALSE)) /\ CallFrame(WithCoins(0))
        BY DEF CallFrame, WithCoupon, WithCoins
    <2>2. QED
        BY <1>7, <2>1, CallsKeep DEF Unapply
<1>8. ASSUME NEW immediate \in BOOLEAN, PlaceOrder(r, immediate)
      PROVE  CartInv'
    <2>1. CallFrame([at |-> "readItems", immediate |-> immediate])
        BY DEF CallFrame
    <2>2. QED
        BY <1>8, <2>1, CallsKeep DEF PlaceOrder
<1>9. ASSUME NEW o \in DOMAIN placed, ConfirmPayment(r, o)
      PROVE  CartInv'
    <2>1. CallFrame([at |-> "confirmOrder", order |-> o])
        BY <1>2 DEF CallFrame
    <2>2. QED
        BY <1>9, <2>1, CallsKeep DEF ConfirmPayment
<1>10. QED
    BY <1>3, <1>4, <1>5, <1>6, <1>7, <1>8, <1>9

LEMMA AttributeKeeps ==
    ASSUME CartInv, NEW r \in Requests, Attribute(r)
    PROVE  CartInv'
<1>1. cart' = [cart EXCEPT !.story = TRUE] /\ cart \in CartRow
    BY DEF Attribute, CartInv, CartTables
<1>2. cart' \in CartRow
    BY <1>1 DEF CartRow
<1>3. Goto(r, Idle) /\ ~At(r, "idle") /\ UNCHANGED <<lines, placed, coinsLeft>>
    BY DEF Attribute, At, End
<1>4. QED
    BY <1>2, <1>3, CartRowGoes, IdleCart

(* The cart is emptied, with what is applied to it. *)
LEMMA EmptyGoes ==
    ASSUME CartAssumption, CartInv, NEW r \in Requests, End(r), ~At(r, "idle"),
           lines' = NoLines, cart' = Reset, coinsLeft' \in Int, placed' \in Seq(Qualified),
           Len(placed) <= Len(placed')
    PROVE  CartInv'
<1>1. lines \in Seq(Line) /\ cart \in CartRow /\ QuantityCap \in Nat
    BY DEF CartInv, CartTables, CartAssumption
<1>2. lines' \in Seq(Line) /\ Len(lines') = Len(lines) /\ LinesOK'
    BY <1>1, NoLinesOK
<1>3. cart' \in CartRow
    BY <1>1 DEF Reset, NothingApplied, CartRow
<1>4. Len(lines) <= Len(lines')
    BY <1>1, <1>2
<1>5. CartTables'
    BY <1>2, <1>3 DEF CartTables
<1>6. QED
    BY <1>2, <1>4, <1>5, CartGoes, IdleCart DEF End

LEMMA ClearAllKeeps ==
    ASSUME CartAssumption, CartInv, NEW r \in Requests, ClearAll(r)
    PROVE  CartInv'
<1>1. /\ End(r) /\ ~At(r, "idle") /\ lines' = NoLines /\ cart' = Reset
      /\ coinsLeft' = coinsLeft /\ placed' = placed
    BY DEF ClearAll, At
<1>2. coinsLeft' \in Int /\ placed' \in Seq(Qualified) /\ Len(placed) <= Len(placed')
    BY <1>1 DEF CartInv, CartTables
<1>3. QED
    BY <1>1, <1>2, EmptyGoes

LEMMA RedeemableType ==
    ASSUME coinsLeft \in Int, NEW total
    PROVE  MaxRedeemable(total) \in Int /\ MaxRedeemable(total) <= PRICING.MAX_REDEEMABLE_COINS
BY DEF MaxRedeemable, Least, PRICING

LEMMA QualifyKeeps ==
    ASSUME CartInv, NEW r \in Requests, QualifyCoupon(r) \/ QualifyCoins(r) \/ WriteCart(r)
    PROVE  CartInv'
<1>1. cart \in CartRow /\ coinsLeft \in Int
    BY DEF CartInv, CartTables
<1>2. CASE QualifyCoupon(r)
    <2>1. ~At(r, "idle") /\ UNCHANGED cartVars /\ (Goto(r, Idle) \/ Goto(r, WithCoupon(TRUE)))
        BY <1>2 DEF QualifyCoupon, At, End
    <2>2. CartFrame(WithCoupon(TRUE)) /\ CartCurrent(WithCoupon(TRUE))
        BY DEF CartFrame, CallFrame, CartCurrent, WithCoupon
    <2>3. QED
        BY <2>1, <2>2, CartReads, IdleCart
<1>3. CASE QualifyCoins(r)
    <2>1. PICK most \in Int : Goto(r, Idle) \/ Goto(r, WithCoins(most))
        BY <1>1, <1>3, RedeemableType DEF QualifyCoins, End
    <2>2. ~At(r, "idle") /\ UNCHANGED cartVars
        BY <1>3 DEF QualifyCoins, At
    <2>3. CartFrame(WithCoins(most)) /\ CartCurrent(WithCoins(most))
        BY DEF CartFrame, CallFrame, CartCurrent, WithCoins
    <2>4. QED
        BY <2>1, <2>2, <2>3, CartReads, IdleCart
<1>4. CASE WriteCart(r)
    <2>1. PICK f : f = req[r]
        OBVIOUS
    <2>2. CartFrame(f) /\ ~At(r, "idle") /\ Goto(r, Idle) /\ UNCHANGED <<lines, placed, coinsLeft>>
        BY <1>4, <2>1 DEF CartInv, WriteCart, At, End
    <2>3. \/ f.at = "writeCoupon" /\ cart' = [cart EXCEPT !.coupon = f.coupon]
          \/ f.at = "writeCoins" /\ cart' = [cart EXCEPT !.coins = f.coins]
        BY <1>4, <2>1 DEF WriteCart, At
    <2>4. /\ f.at = "writeCoupon" => f.coupon \in BOOLEAN
          /\ f.at = "writeCoins" => f.coins \in Int
        BY <2>2 DEF CartFrame, CallFrame, Idle
    <2>5. cart' \in CartRow
        BY <1>1, <2>3, <2>4 DEF CartRow
    <2>6. QED
        BY <2>2, <2>5, CartRowGoes, IdleCart
<1>5. QED
    BY <1>2, <1>3, <1>4

-----------------------------------------------------------------------------
(* Placing and confirming an order *)

LEMMA ReadItemsKeeps ==
    ASSUME CartInv, NEW r \in Requests, ReadItems(r)
    PROVE  CartInv'
<1>1. PICK f : f = req[r]
    OBVIOUS
<1>2. f.at = "readItems" /\ ~At(r, "idle") /\ UNCHANGED cartVars /\ CartFrame(f)
    BY <1>1 DEF ReadItems, At, CartInv
<1>3. f.immediate \in BOOLEAN
    BY <1>2 DEF CartFrame, CallFrame, Idle
<1>4. PICK read : read = [i \in InCart |-> lines[i]]
    OBVIOUS
<1>5. read \in Basket
    <2>1. lines \in Seq(Line) /\ Len(lines) \in Nat /\ DOMAIN lines = 1..Len(lines)
        BY DEF CartInv, CartTables
    <2>2. PICK S : S = InCart
        OBVIOUS
    <2>3. S \subseteq 1..Len(lines)
        BY <2>1, <2>2 DEF InCart
    <2>4. IsFiniteSet(S) /\ S \in SUBSET Nat
        <3>1. IsFiniteSet(1..Len(lines))
            BY <2>1, FS_Interval
        <3>2. S \in SUBSET (1..Len(lines))
            BY <2>3
        <3>3. IsFiniteSet(S)
            BY <3>1, <3>2, FS_Subset
        <3>4. S \in SUBSET Nat
            BY <2>1, <2>3
        <3>5. QED
            BY <3>3, <3>4
    <2>5. read \in [S -> Line]
        BY <1>4, <2>1, <2>2, <2>3
    <2>6. QED
        BY <2>4, <2>5 DEF Basket
<1>6. PICK frame : frame = [at |-> "evaluate", immediate |-> f.immediate, read |-> read]
    OBVIOUS
<1>7. CartFrame(frame) /\ CartCurrent(frame)
    BY <1>3, <1>5, <1>6 DEF CartFrame, CartCurrent
<1>8. Goto(r, Idle) \/ Goto(r, frame)
    BY <1>1, <1>4, <1>6 DEF ReadItems, End
<1>9. QED
    BY <1>2, <1>7, <1>8, CartReads, IdleCart

LEMMA TotalledType ==
    ASSUME CartAssumption, NEW read \in Basket
    PROVE  Totalled(read) \in Int
<1>1. PICK S \in {T \in SUBSET Nat : IsFiniteSet(T)} : read \in [S -> Line]
    BY DEF Basket
<1>2. PICK f : f = [i \in DOMAIN read |-> UnitPrice[read[i].item] * read[i].quantity]
    OBVIOUS
<1>3. ASSUME NEW i \in S PROVE f[i] \in Int
    <2>1. read[i] \in Line /\ f[i] = UnitPrice[read[i].item] * read[i].quantity
        BY <1>1, <1>2
    <2>2. read[i].item \in Items /\ read[i].quantity \in Int
        BY <2>1 DEF Line, CartAssumption
    <2>3. UnitPrice[read[i].item] \in Int
        BY <2>2 DEF CartAssumption
    <2>4. QED
        BY <2>1, <2>2, <2>3
<1>4. SumFunctionOnSet(f, S) \in Int
    BY <1>1, <1>3, SumType
<1>5. QED
    BY <1>1, <1>2, <1>4 DEF Totalled

LEMMA DiscountType ==
    ASSUME CartAssumption, NEW total \in Int, NEW code
    PROVE  /\ CouponDiscount(code, total) \in Int
           /\ CouponDiscount(code, total) > 0 => total >= CouponRow.minOrderValue
<1>1. CouponRow.value \in Int /\ CouponRow.maxDiscount \in Int
    BY DEF CartAssumption
<1>2. ComputeDiscount(total) \in Int
    <2>1. PICK raw : raw = (total * CouponRow.value + 50) \div 100
        OBVIOUS
    <2>2. total * CouponRow.value \in Int
        BY <1>1
    <2>3. raw \in Int
        BY <2>1, <2>2
    <2>4. QED
        BY <1>1, <2>1, <2>3 DEF ComputeDiscount, Least
<1>3. QED
    BY <1>2 DEF CouponDiscount

LEMMA RedeemedType ==
    ASSUME coinsLeft \in Int, NEW requested \in Int, NEW total \in Int
    PROVE  /\ Redeemed(requested, total) \in Int
           /\ Redeemed(requested, total) <= PRICING.MAX_REDEEMABLE_COINS
           /\ Redeemed(requested, total) > 0 => total >= PRICING.COINS_MIN_ORDER_VALUE
BY DEF Redeemed, MaxRedeemable, Least, Greatest, PRICING

LEMMA AmountType ==
    ASSUME NEW items \in Int, NEW coupon \in Int, NEW coins \in Int
    PROVE  TotalAmount(items, coupon, coins) \in Int
BY DEF TotalAmount, Least, PRICING

LEMMA EvaluateKeeps ==
    ASSUME CartAssumption, CartInv, NEW r \in Requests, EvaluateOrder(r)
    PROVE  CartInv'
<1>1. PICK f : f = req[r]
    OBVIOUS
<1>2. f.at = "evaluate" /\ ~At(r, "idle") /\ UNCHANGED cartVars /\ CartFrame(f)
    BY <1>1 DEF EvaluateOrder, At, CartInv
<1>3. f.immediate \in BOOLEAN /\ f.read \in Basket
    BY <1>2 DEF CartFrame, CallFrame, Idle
<1>4. cart.coupon \in BOOLEAN /\ cart.coins \in Int /\ cart.story \in BOOLEAN /\ coinsLeft \in Int
    BY DEF CartInv, CartTables, CartRow
<1>5. PICK total : total = Totalled(f.read)
    OBVIOUS
<1>6. total \in Int
    BY <1>3, <1>5, TotalledType
<1>7. PICK coupon : coupon = CouponDiscount(cart.coupon, total)
    OBVIOUS
<1>8. PICK coins : coins = Redeemed(cart.coins, total)
    OBVIOUS
<1>9. coupon \in Int /\ (coupon > 0 => total >= CouponRow.minOrderValue)
    BY <1>6, <1>7, DiscountType
<1>10. /\ coins \in Int /\ coins <= PRICING.MAX_REDEEMABLE_COINS
       /\ coins > 0 => total >= PRICING.COINS_MIN_ORDER_VALUE
    BY <1>4, <1>6, <1>8, RedeemedType
<1>11. PICK o : o = NewOrder(r, coupon, coins)
    OBVIOUS
<1>12. o \in Qualified
    <2>1. PICK amount : amount = TotalAmount(total, coupon, coins)
        OBVIOUS
    <2>2. amount \in Int
        BY <1>6, <1>9, <1>10, <2>1, AmountType
    <2>3. PICK applied \in BOOLEAN : applied = (coupon > 0)
        <3>1. CASE coupon > 0
            BY <3>1
        <3>2. CASE ~(coupon > 0)
            <4>1. FALSE = (coupon > 0)
                BY <1>9, <3>2
            <4>2. QED
                BY <4>1
        <3>3. QED
            BY <3>1, <3>2
    <2>4. applied => total >= CouponRow.minOrderValue
        BY <1>9, <2>3
    <2>5. o = [status |-> IF f.immediate THEN "PLACED" ELSE "PENDING_PAYMENT", items |-> f.read,
               coupon |-> applied, coins |-> coins, story |-> cart.story, total |-> amount]
        BY <1>1, <1>5, <1>11, <2>1, <2>3 DEF NewOrder
    <2>6. o \in Order
        BY <1>3, <1>4, <1>10, <2>2, <2>4, <2>5 DEF Order
    <2>7. o.items = f.read /\ o.coupon = applied /\ o.coins = coins
        BY <2>5
    <2>8. Qualifies(o)
        BY <1>5, <1>10, <2>4, <2>7 DEF Qualifies
    <2>9. QED
        BY <2>6, <2>8 DEF Qualified
<1>13. Goto(r, [at |-> "place", order |-> o])
    BY <1>1, <1>5, <1>7, <1>8, <1>11 DEF EvaluateOrder
<1>14. CartFrame([at |-> "place", order |-> o]) /\ CartCurrent([at |-> "place", order |-> o])
    BY <1>12 DEF CartFrame, CartCurrent
<1>15. QED
    BY <1>2, <1>13, <1>14, CartReads

LEMMA CommitKeeps ==
    ASSUME CartAssumption, CartInv, NEW r \in Requests, CommitOrder(r)
    PROVE  CartInv'
<1>1. PICK f : f = req[r]
    OBVIOUS
<1>2. f.at = "place" /\ ~At(r, "idle") /\ CartFrame(f) /\ End(r)
    BY <1>1 DEF CommitOrder, At, CartInv
<1>3. f.order \in Qualified
    BY <1>2 DEF CartFrame, CallFrame, Idle
<1>4. placed \in Seq(Qualified) /\ coinsLeft \in Int /\ placed' = Append(placed, f.order)
    BY <1>1 DEF CommitOrder, CartInv, CartTables
<1>5. placed' \in Seq(Qualified) /\ Len(placed) <= Len(placed')
    BY <1>3, <1>4
<1>6. CASE UNCHANGED <<cart, lines, coinsLeft>>
    <2>1. CartTables' /\ Len(lines) <= Len(lines')
        BY <1>5, <1>6 DEF CartInv, CartTables
    <2>2. ~overlapped => LinesOK'
        BY <1>6 DEF CartInv, LinesOK, InCart
    <2>3. QED
        BY <1>2, <1>5, <2>1, <2>2, CartGoes, IdleCart DEF End
<1>7. CASE Settle(f.order)
    <2>1. f.order.coins \in Int
        BY <1>3 DEF Qualified, Order
    <2>2. coinsLeft' \in Int /\ lines' = NoLines /\ cart' = Reset
        BY <1>4, <1>7, <2>1 DEF Settle
    <2>3. QED
        BY <1>2, <1>5, <2>2, EmptyGoes
<1>8. QED
    BY <1>1, <1>6, <1>7 DEF CommitOrder

LEMMA ConfirmKeeps ==
    ASSUME CartAssumption, CartInv, NEW r \in Requests, ConfirmOrder(r)
    PROVE  CartInv'
<1>1. PICK o : o = req[r].order
    OBVIOUS
<1>2. /\ req[r].at = "confirmOrder" /\ ~At(r, "idle") /\ CartFrame(req[r]) /\ End(r)
      /\ Settle(placed[o]) /\ placed' = [placed EXCEPT ![o].status = "PLACED"]
    BY <1>1 DEF ConfirmOrder, At, CartInv
<1>3. placed \in Seq(Qualified) /\ coinsLeft \in Int
    BY DEF CartInv, CartTables
<1>4. o \in 1..Len(placed)
    <2>1. PICK f : f = req[r]
        OBVIOUS
    <2>2. f.order \in 1..Len(placed)
        BY <1>2, <2>1 DEF CartFrame, CallFrame, Idle
    <2>3. QED
        BY <1>1, <2>1, <2>2
<1>5. placed[o] \in Qualified
    BY <1>3, <1>4
<1>6. PICK x : x = [placed[o] EXCEPT !.status = "PLACED"]
    OBVIOUS
<1>7. x \in Order /\ x.items = placed[o].items /\ x.coupon = placed[o].coupon /\ x.coins = placed[o].coins
    <2>1. \A y \in Order : /\ [y EXCEPT !.status = "PLACED"] \in Order
                           /\ [y EXCEPT !.status = "PLACED"].items = y.items
                           /\ [y EXCEPT !.status = "PLACED"].coupon = y.coupon
                           /\ [y EXCEPT !.status = "PLACED"].coins = y.coins
        BY DEF Order
    <2>2. placed[o] \in Order
        BY <1>5 DEF Qualified
    <2>3. QED
        BY <1>6, <2>1, <2>2
<1>8. x \in Qualified
    BY <1>5, <1>7 DEF Qualified, Qualifies
<1>9. placed' = [placed EXCEPT ![o] = x]
    BY <1>2, <1>6
<1>10. placed' \in Seq(Qualified) /\ Len(placed) <= Len(placed')
    BY <1>3, <1>4, <1>8, <1>9
<1>11. placed[o].coins \in Int
    BY <1>5 DEF Qualified, Order
<1>12. coinsLeft' \in Int /\ lines' = NoLines /\ cart' = Reset
    BY <1>2, <1>3, <1>11 DEF Settle
<1>13. QED
    BY <1>2, <1>10, <1>12, EmptyGoes

-----------------------------------------------------------------------------

LEMMA CartStarts == CartAssumption /\ HandlersInit /\ CartInit => CartInv
<1> SUFFICES ASSUME CartAssumption, HandlersInit, CartInit PROVE CartInv
    OBVIOUS
<1>1. Serial /\ \A r \in Requests : req[r] = Idle
    BY InitSerial DEF HandlersInit
<1>2. CartTables
    <2>1. lines \in Seq(Line) /\ coinsLeft \in Int /\ placed = <<>>
        BY DEF CartInit, CartAssumption
    <2>2. cart \in CartRow
        BY DEF CartInit, NothingApplied, CartRow
    <2>3. QED
        BY <2>1, <2>2 DEF CartTables
<1>3. LinesOK
    BY DEF CartInit, CartAssumption, LinesOK, InCart
<1>4. QED
    BY <1>1, <1>2, <1>3, IdleCart DEF CartInv

LEMMA CartKeeps == CartAssumption /\ CartInv /\ [CartNext]_<<cartVars, handlerVars>> => CartInv'
<1> SUFFICES ASSUME CartAssumption, CartInv, [CartNext]_<<cartVars, handlerVars>> PROVE CartInv'
    OBVIOUS
<1>1. ASSUME NEW r \in Requests, CartStep(r) PROVE CartInv'
    <2>1. CASE CreateCart(r)
        BY <2>1, CreateCartKeeps
    <2>2. CASE CheckKitchen(r)
        BY <2>2, CheckKitchenKeeps
    <2>3. CASE ReplaceLines(r) \/ ReplaceApplied(r)
        BY <2>3, ReplaceKeeps
    <2>4. CASE FindLine(r)
        BY <2>4, FindLineKeeps
    <2>5. CASE BumpLine(r) \/ InsertLine(r) \/ SetItem(r)
        BY <2>5, WriteLineKeeps
    <2>6. CASE Attribute(r)
        BY <2>6, AttributeKeeps
    <2>7. CASE ClearAll(r)
        BY <2>7, ClearAllKeeps
    <2>8. CASE QualifyCoupon(r) \/ QualifyCoins(r) \/ WriteCart(r)
        BY <2>8, QualifyKeeps
    <2>9. CASE ReadItems(r)
        BY <2>9, ReadItemsKeeps
    <2>10. CASE EvaluateOrder(r)
        BY <2>10, EvaluateKeeps
    <2>11. CASE CommitOrder(r)
        BY <2>11, CommitKeeps
    <2>12. CASE ConfirmOrder(r)
        BY <2>12, ConfirmKeeps
    <2>13. CASE CoinsAreSpent(r)
        <3>1. ~At(r, "idle") /\ End(r) /\ UNCHANGED cartVars
            BY <2>13 DEF CoinsAreSpent, At
        <3>2. QED
            BY <3>1, CartReads, IdleCart DEF End
    <2>14. QED
        BY <1>1, <2>1, <2>2, <2>3, <2>4, <2>5, <2>6, <2>7, <2>8, <2>9, <2>10, <2>11, <2>12, <2>13,
           CallsCome DEF CartStep
<1>2. ASSUME NEW r \in Requests, Abort(r), UNCHANGED cartVars PROVE CartInv'
    BY <1>2, CartReads, IdleCart DEF Abort, End
<1>3. CASE CartAlone
    <2>1. PICK item \in Items : ToggleDish(item)
        BY <1>3 DEF CartAlone
    <2>2. /\ Serial' /\ req' = req /\ (~overlapped' => ~overlapped)
          /\ UNCHANGED <<cart, lines, coinsLeft, placed>>
        BY <2>1, InstantSerial DEF ToggleDish, CartInv
    <2>3. QED
        BY <2>2 DEF CartInv, CartTables, CartFrame, CallFrame, CartCurrent, LinesOK, InCart
<1>4. CASE UNCHANGED <<cartVars, handlerVars>>
    <2>1. UNCHANGED <<req, overlapped, cart, lines, coinsLeft, placed>>
        BY <1>4 DEF cartVars, handlerVars
    <2>2. Serial'
        BY <2>1 DEF CartInv, Serial, Tracked, OneByOne, InFlight, At
    <2>3. QED
        BY <2>1, <2>2 DEF CartInv, CartTables, CartFrame, CallFrame, CartCurrent, LinesOK, InCart
<1>5. QED
    BY <1>1, <1>2, <1>3, <1>4 DEF CartNext

(* A cart is of one kitchen and has one line of an item, at most the cap of    *)
(* each, until two of the customer's requests overlap: addItem decides by the  *)
(* lines it reads and writes later (cart.service.ts).                          *)
THEOREM CartsAreOneOrder ==
    ASSUME CartAssumption
    PROVE  CartSpec => []CartIsOneOrder
<1>1. CartInv => CartIsOneOrder
    <2> SUFFICES ASSUME CartInv, ~overlapped, NEW i \in InCart, NEW j \in InCart
                 PROVE  /\ KitchenOf[lines[i].item] = KitchenOf[lines[j].item]
                        /\ lines[i].item = lines[j].item => i = j
                        /\ lines[i].quantity <= QuantityCap
        BY DEF CartIsOneOrder
    <2>1. LinesOK
        BY DEF CartInv
    <2>2. lines[i] \in Line
        BY DEF CartInv, CartTables, InCart
    <2>3. lines[i].quantity <= QuantityCap
        BY <2>2 DEF Line, CartAssumption
    <2>4. QED
        BY <2>1, <2>3 DEF LinesOK
<1>2. QED
    BY <1>1, CartStarts, CartKeeps, PTL DEF CartSpec

(* Whatever else the customer does in the meantime, also in parallel: an order *)
(* has the coupon and the coins only if the items it is charged for qualify    *)
(* for them (placeOrder, evaluate and evaluateRedemption).                     *)
THEOREM PlacedOrdersQualify ==
    ASSUME CartAssumption
    PROVE  CartSpec => []OrdersQualify
<1>1. CartInv => OrdersQualify
    <2> SUFFICES ASSUME CartInv, NEW o \in DOMAIN placed PROVE Qualifies(placed[o])
        BY DEF OrdersQualify, Qualifies
    <2>1. placed[o] \in Qualified
        BY DEF CartInv, CartTables
    <2>2. QED
        BY <2>1 DEF Qualified
<1>2. QED
    BY <1>1, CartStarts, CartKeeps, PTL DEF CartSpec

-----------------------------------------------------------------------------
(* BhojAi.  A conversation that is active has no message from before the last *)
(* reset, and one a message goes to none from before it was sent.  While      *)
(* requests come one by one, the question that is being answered is the last  *)
(* message there is.                                                          *)

Message == [conversation : Nat, role : {"USER", "MODEL"}, since : Nat]

ConversationTables ==
    /\ conversations \in Seq({"ACTIVE", "ARCHIVED"}) /\ messages \in Seq(Message) /\ resets \in Nat
    /\ \A i \in DOMAIN messages : messages[i].conversation \in DOMAIN conversations

ActiveIsFresh ==
    \A i \in DOMAIN messages : conversations[messages[i].conversation] = "ACTIVE" => messages[i].since = resets

Answering == {"gemini", "toolCalls", "saveAnswer"}

QuestionRow ==
    [at : {"converse", "recall", "saveQuestion"} \cup Answering, conversation : 0..Len(conversations),
     asked : Nat, recalled : SUBSET Nat, rounds : Nat]

QuestionFrame(f) ==
    \/ f = Idle
    \/ /\ f \in QuestionRow
       /\ f.asked <= resets
       /\ f.at # "converse" => f.conversation # 0
       /\ \A since \in f.recalled : since >= f.asked
       /\ \A i \in DOMAIN messages : messages[i].conversation = f.conversation => messages[i].since >= f.asked

AnswersFollow ==
    \A i \in DOMAIN messages : messages[i].role = "MODEL" =>
        /\ i > 1 /\ messages[i - 1].role = "USER"
        /\ messages[i - 1].conversation = messages[i].conversation

QuestionIsLast(f) ==
    f.at \in Answering => /\ Len(messages) > 0 /\ messages[Len(messages)].role = "USER"
                          /\ messages[Len(messages)].conversation = f.conversation

ConversationInv ==
    /\ Serial /\ ConversationTables /\ ActiveIsFresh
    /\ \A r \in Requests : QuestionFrame(req[r])
    /\ ~overlapped => AnswersFollow /\ \A r \in Requests : QuestionIsLast(req[r])

(* A message said now goes to a conversation there is. *)
Says(f, role) ==
    /\ messages' = Append(messages, [conversation |-> f.conversation, role |-> role, since |-> resets])
    /\ UNCHANGED <<conversations, resets>>

LEMMA MessageIsSaid ==
    ASSUME ConversationTables, ActiveIsFresh, NEW f \in QuestionRow, f.conversation # 0,
           NEW role \in {"USER", "MODEL"}, Says(f, role)
    PROVE  /\ ConversationTables' /\ ActiveIsFresh'
           /\ Len(messages') = Len(messages) + 1
           /\ \A i \in DOMAIN messages : messages'[i] = messages[i]
           /\ DOMAIN messages' = 1..Len(messages) + 1 /\ DOMAIN messages = 1..Len(messages)
           /\ messages'[Len(messages) + 1] = [conversation |-> f.conversation, role |-> role, since |-> resets]
           /\ Len(messages) \in Nat
<1> DEFINE m == [conversation |-> f.conversation, role |-> role, since |-> resets]
<1>1. m \in Message /\ m.conversation \in DOMAIN conversations /\ m.since = resets
    BY DEF QuestionRow, Message, ConversationTables
<1>2. messages' = Append(messages, m) /\ messages \in Seq(Message)
    BY DEF Says, ConversationTables
<1> HIDE DEF m
<1>3. /\ messages' \in Seq(Message) /\ Len(messages') = Len(messages) + 1 /\ Len(messages) \in Nat
      /\ DOMAIN messages' = 1..Len(messages) + 1 /\ DOMAIN messages = 1..Len(messages)
      /\ \A i \in DOMAIN messages : messages'[i] = messages[i]
      /\ messages'[Len(messages) + 1] = m
    BY <1>1, <1>2
<1>4. \A i \in DOMAIN messages' : i \in DOMAIN messages \/ messages'[i] = m
    BY <1>3
<1>5. ConversationTables' /\ ActiveIsFresh'
    BY <1>1, <1>3, <1>4 DEF ConversationTables, ActiveIsFresh, Says
<1>6. QED
    BY <1>3, <1>5 DEF m

(* What other requests carry stays true of the rows. *)
LEMMA QuestionsStay ==
    ASSUME ConversationTables,
           Len(conversations') \in Nat, Len(conversations') >= Len(conversations),
           resets' \in Nat, resets' >= resets,
           \/ messages' = messages
           \/ /\ DOMAIN messages' = 1..Len(messages) + 1 /\ DOMAIN messages = 1..Len(messages)
              /\ \A i \in DOMAIN messages : messages'[i] = messages[i]
              /\ messages'[Len(messages) + 1].since = resets,
           NEW f, QuestionFrame(f)
    PROVE  QuestionFrame(f)'
<1>1. CASE f = Idle
    BY <1>1 DEF QuestionFrame
<1>2. CASE f # Idle
    <2>1. f \in QuestionRow /\ f.asked <= resets /\ f.asked \in Nat
        BY <1>2 DEF QuestionFrame, QuestionRow
    <2>2. Len(conversations) \in Nat
        BY DEF ConversationTables
    <2>3. f \in QuestionRow'
        BY <2>1, <2>2 DEF QuestionRow
    <2>4. \A i \in DOMAIN messages' : messages'[i].conversation = f.conversation => messages'[i].since >= f.asked
        <3>1. CASE messages' = messages
            BY <3>1, <1>2 DEF QuestionFrame
        <3>2. CASE messages' # messages
            <4>1. Len(messages) \in Nat
                BY DEF ConversationTables
            <4>2. \A i \in DOMAIN messages' : i \in DOMAIN messages \/ i = Len(messages) + 1
                BY <3>2, <4>1
            <4>3. resets >= f.asked
                BY <2>1 DEF ConversationTables
            <4>4. QED
                BY <1>2, <3>2, <4>2, <4>3 DEF QuestionFrame
        <3>3. QED
            BY <3>1, <3>2
    <2>5. f.asked <= resets'
        BY <2>1 DEF ConversationTables
    <2>6. QED
        BY <1>2, <2>3, <2>4, <2>5 DEF QuestionFrame
<1>3. QED
    BY <1>1, <1>2

LEMMA ConversationGoes ==
    ASSUME ConversationInv, NEW r \in Requests, NEW frame, Goto(r, frame), ~At(r, "idle") \/ frame # Idle,
           ConversationTables', ActiveIsFresh', QuestionFrame(frame)',
           \A f : QuestionFrame(f) => QuestionFrame(f)',
           ~overlapped' => AnswersFollow' /\ QuestionIsLast(frame)'
    PROVE  ConversationInv'
<1>1. Serial' /\ req'[r] = frame /\ \A q \in Requests \ {r} : req'[q] = req[q]
    BY GotoSerial, GotoOK DEF ConversationInv, Serial
<1>2. \A q \in Requests : QuestionFrame(req[q])'
    <2> SUFFICES ASSUME NEW q \in Requests PROVE QuestionFrame(req[q])'
        OBVIOUS
    <2>1. CASE q = r
        <3>1. req'[q] = frame
            BY <1>1, <2>1
        <3>2. QED
            BY <3>1
    <2>2. CASE q # r
        <3>1. PICK f : f = req[q]
            OBVIOUS
        <3>2. QuestionFrame(f)' /\ f = req'[q]
            BY <1>1, <2>2, <3>1 DEF ConversationInv
        <3>3. QED
            BY <3>2
    <2>3. QED
        BY <2>1, <2>2
<1>3. ASSUME ~overlapped' PROVE AnswersFollow' /\ \A q \in Requests : QuestionIsLast(req[q])'
    <2>1. \A q \in Requests \ {r} : req'[q].at = "idle"
        BY <1>3, OthersIdle DEF ConversationInv
    <2>2. \A q \in Requests \ {r} : QuestionIsLast(req[q])'
        BY <2>1 DEF QuestionIsLast, Answering
    <2>3. QED
        BY <1>1, <1>3, <2>2
<1>4. QED
    BY <1>1, <1>2, <1>3 DEF ConversationInv

(* The steps that say nothing. *)
LEMMA NothingIsSaid ==
    ASSUME ConversationInv, NEW r \in Requests, NEW frame, Goto(r, frame), ~At(r, "idle") \/ frame # Idle,
           UNCHANGED <<conversations, messages, resets>>, QuestionFrame(frame),
           QuestionIsLast(req[r]) => QuestionIsLast(frame)
    PROVE  ConversationInv'
<1>1. ConversationTables' /\ ActiveIsFresh'
    BY DEF ConversationInv, ConversationTables, ActiveIsFresh
<1>2. \A f : QuestionFrame(f) => QuestionFrame(f)'
    BY DEF QuestionFrame, QuestionRow
<1>3. ~overlapped' => AnswersFollow' /\ QuestionIsLast(frame)'
    BY GotoOK DEF ConversationInv, Serial, AnswersFollow, QuestionIsLast
<1>4. QED
    BY <1>1, <1>2, <1>3, ConversationGoes

LEMMA ActiveOnesAreThere ==
    ASSUME ConversationTables
    PROVE  /\ ActiveConversations \in SUBSET (1..Len(conversations)) /\ Len(conversations) \in Nat
           /\ DOMAIN conversations = 1..Len(conversations)
           /\ ActiveConversations # {} => Max(ActiveConversations) \in ActiveConversations
<1>1. /\ ActiveConversations \in SUBSET (1..Len(conversations)) /\ Len(conversations) \in Nat
      /\ DOMAIN conversations = 1..Len(conversations)
    BY DEF ConversationTables, ActiveConversations
<1>2. QED
    BY <1>1, LastIsThere

LEMMA ConversationStep ==
    ASSUME ConversationInv, NEW r \in Requests, BhojAiStep(r)
    PROVE  ConversationInv'
<1>1. QuestionFrame(req[r]) /\ ConversationTables /\ ActiveIsFresh
    BY DEF ConversationInv
<1>2. CASE FindConversation(r)
    <2> DEFINE found == IF ActiveConversations = {} THEN 0 ELSE Max(ActiveConversations)
    <2>1. PICK f : f = [at |-> IF found = 0 THEN "converse" ELSE "recall", conversation |-> found,
                        asked |-> resets, recalled |-> {}, rounds |-> 0]
        OBVIOUS
    <2>2. Goto(r, f) /\ UNCHANGED <<conversations, messages, resets>>
        BY <1>2, <2>1 DEF FindConversation, Begin
    <2>3. found = 0 \/ found \in ActiveConversations
        BY <1>1, ActiveOnesAreThere
    <2> HIDE DEF found
    <2>4. found \in 0..Len(conversations)
        BY <1>1, <2>3, ActiveOnesAreThere
    <2>5. resets \in Nat
        BY <1>1 DEF ConversationTables
    <2>6. f \in QuestionRow
        BY <2>1, <2>4, <2>5 DEF QuestionRow
    <2>7. \A i \in DOMAIN messages : messages[i].conversation = found => messages[i].since = resets
        <3>1. CASE found = 0
            BY <1>1, <3>1 DEF ConversationTables
        <3>2. CASE found \in ActiveConversations
            BY <1>1, <3>2 DEF ActiveIsFresh, ActiveConversations
        <3>3. QED
            BY <2>3, <3>1, <3>2
    <2>8. QuestionFrame(f) /\ f # Idle /\ (QuestionIsLast(req[r]) => QuestionIsLast(f))
        BY <2>1, <2>5, <2>6, <2>7 DEF QuestionFrame, Idle, QuestionIsLast, Answering
    <2>9. QED
        BY <2>2, <2>8, NothingIsSaid
<1>3. CASE CreateConversation(r)
    <2>1. PICK n : n = Len(conversations')
        OBVIOUS
    <2>2. PICK f : f = [req[r] EXCEPT !.at = "recall", !.conversation = n]
        OBVIOUS
    <2>3. /\ Goto(r, f) /\ UNCHANGED <<messages, resets>>
          /\ At(r, "converse") /\ conversations' = Append(conversations, "ACTIVE")
        BY <1>3, <2>1, <2>2 DEF CreateConversation
    <2>4. n = Len(conversations) + 1 /\ Len(conversations) \in Nat /\ conversations' \in Seq({"ACTIVE", "ARCHIVED"})
        BY <1>1, <2>1, <2>3 DEF ConversationTables
    <2>5. \A c \in DOMAIN conversations : c \in DOMAIN conversations' /\ conversations'[c] = conversations[c]
        BY <1>1, <2>3 DEF ConversationTables
    <2>6. ConversationTables' /\ ActiveIsFresh'
        BY <1>1, <2>3, <2>4, <2>5 DEF ConversationTables, ActiveIsFresh
    <2>7. req[r] \in QuestionRow /\ req[r].asked <= resets /\ \A since \in req[r].recalled : since >= req[r].asked
        BY <1>1, <2>3 DEF QuestionFrame, At, Idle
    <2>8. f \in QuestionRow' /\ f.conversation = n /\ f.asked = req[r].asked /\ f.recalled = req[r].recalled /\ f.at = "recall"
        <3>1. n \in 0..Len(conversations')
            BY <2>1, <2>4
        <3>2. f.conversation = n /\ f.asked = req[r].asked /\ f.recalled = req[r].recalled /\ f.at = "recall"
            BY <2>2, <2>7 DEF QuestionRow
        <3>3. f \in [at : {"converse", "recall", "saveQuestion"} \cup Answering, conversation : 0..Len(conversations'),
                     asked : Nat, recalled : SUBSET Nat, rounds : Nat]
            BY <2>2, <2>7, <3>1 DEF QuestionRow
        <3>4. QED
            BY <3>2, <3>3 DEF QuestionRow
    <2>9. \A i \in DOMAIN messages' : messages'[i].conversation # n
        BY <1>1, <2>3, <2>4 DEF ConversationTables
    <2>10. QuestionFrame(f)' /\ QuestionIsLast(f)'
        BY <2>3, <2>4, <2>7, <2>8, <2>9 DEF QuestionFrame, QuestionIsLast, Answering
    <2>11. \A f1 : QuestionFrame(f1) => QuestionFrame(f1)'
        BY <1>1, <2>1, <2>3, <2>4, QuestionsStay DEF ConversationTables
    <2>12. ~overlapped' => AnswersFollow'
        BY <2>3, GotoOK DEF ConversationInv, Serial, AnswersFollow
    <2>13. ~At(r, "idle")
        BY <2>3 DEF At
    <2>14. QED
        BY <2>3, <2>6, <2>10, <2>11, <2>12, <2>13, ConversationGoes
<1>4. CASE Recall(r)
    <2>1. PICK f : f = [req[r] EXCEPT !.at = "saveQuestion",
                              !.recalled = {messages[i].since : i \in TextsOf(req[r].conversation)}]
        OBVIOUS
    <2>2. Goto(r, f) /\ At(r, "recall") /\ UNCHANGED <<conversations, messages, resets>>
        BY <1>4, <2>1 DEF Recall, bhojAiVars
    <2>3. req[r] \in QuestionRow /\ req[r].at = "recall"
        BY <1>1, <2>2 DEF QuestionFrame, At, Idle
    <2>4. \A i \in TextsOf(req[r].conversation) : messages[i].since \in Nat /\ messages[i].since >= req[r].asked
        <3>1. \A i \in DOMAIN messages : messages[i] \in Message
            BY <1>1 DEF ConversationTables
        <3>2. \A i \in DOMAIN messages : messages[i].conversation = req[r].conversation => messages[i].since >= req[r].asked
            BY <1>1, <2>3 DEF QuestionFrame, Idle
        <3>3. QED
            BY <3>1, <3>2 DEF TextsOf, Message
    <2>5. /\ f \in QuestionRow /\ f.at = "saveQuestion" /\ f.asked = req[r].asked
          /\ f.conversation = req[r].conversation
          /\ \A since \in f.recalled : since >= f.asked
        BY <2>1, <2>3, <2>4 DEF QuestionRow
    <2>6. QuestionFrame(f) /\ QuestionIsLast(f)
        BY <1>1, <2>3, <2>5 DEF QuestionFrame, Idle, QuestionIsLast, Answering
    <2>7. ~At(r, "idle")
        BY <2>2 DEF At
    <2>8. QED
        BY <2>2, <2>6, <2>7, NothingIsSaid
<1>5. CASE SaveQuestion(r)
    <2>1. PICK f : f = [req[r] EXCEPT !.at = "gemini"]
        OBVIOUS
    <2>2. PICK g : g = req[r]
        OBVIOUS
    <2>3. Goto(r, f) /\ At(r, "saveQuestion") /\ Says(g, "USER")
        BY <1>5, <2>1, <2>2 DEF SaveQuestion, Continue, Write, Says
    <2>4. g \in QuestionRow /\ g.at = "saveQuestion" /\ g.conversation # 0 /\ QuestionFrame(g)
        BY <1>1, <2>2, <2>3 DEF QuestionFrame, At, Idle
    <2>5. /\ ConversationTables' /\ ActiveIsFresh'
          /\ Len(messages') = Len(messages) + 1
          /\ \A i \in DOMAIN messages : messages'[i] = messages[i]
          /\ DOMAIN messages' = 1..Len(messages) + 1 /\ DOMAIN messages = 1..Len(messages)
          /\ messages'[Len(messages) + 1] = [conversation |-> g.conversation, role |-> "USER", since |-> resets]
          /\ Len(messages) \in Nat
        BY <1>1, <2>3, <2>4, MessageIsSaid
    <2>6. \A f1 : QuestionFrame(f1) => QuestionFrame(f1)'
        <3>1. messages'[Len(messages) + 1].since = resets
            BY <2>5
        <3>2. /\ Len(conversations) \in Nat /\ conversations' = conversations
              /\ resets \in Nat /\ resets' = resets
            BY <1>1, <2>3 DEF ConversationTables, Says
        <3>3. QED
            BY <1>1, <2>5, <3>1, <3>2, QuestionsStay
    <2>7. /\ f \in QuestionRow /\ f.at = "gemini" /\ f.asked = g.asked
          /\ f.conversation = g.conversation /\ f.recalled = g.recalled
        BY <2>1, <2>2, <2>4 DEF QuestionRow, Answering
    <2>8. QuestionFrame(f)
        BY <2>4, <2>7 DEF QuestionFrame, Idle
    <2>9. QuestionFrame(f)' /\ QuestionIsLast(f)'
        BY <2>5, <2>6, <2>7, <2>8 DEF QuestionIsLast
    <2>10. ASSUME ~overlapped' PROVE AnswersFollow'
        <3>1. AnswersFollow
            BY <2>3, <2>10, GotoOK DEF ConversationInv, Serial
        <3>2. \A i \in DOMAIN messages' : messages'[i].role = "MODEL" => i \in DOMAIN messages
            BY <2>5
        <3>3. \A i \in DOMAIN messages : i > 1 => messages'[i - 1] = messages[i - 1]
            BY <2>5
        <3>4. QED
            BY <2>5, <3>1, <3>2, <3>3 DEF AnswersFollow
    <2>11. ~At(r, "idle")
        BY <2>3 DEF At
    <2>12. QED
        BY <2>3, <2>5, <2>6, <2>9, <2>10, <2>11, ConversationGoes
<1>6. ASSUME NEW step \in Answering, Continue(r, step), req[r].at \in Answering,
             UNCHANGED <<conversations, messages, resets>>
      PROVE  ConversationInv'
    <2>1. PICK f : f = [req[r] EXCEPT !.at = step]
        OBVIOUS
    <2>2. req[r] \in QuestionRow /\ Goto(r, f) /\ req[r].at # "idle" /\ req[r].at # "converse"
        BY <1>1, <1>6, <2>1 DEF QuestionFrame, Continue, Idle, Answering
    <2>3. /\ f \in QuestionRow /\ f.at = step /\ f.asked = req[r].asked
          /\ f.conversation = req[r].conversation /\ f.recalled = req[r].recalled
        BY <2>1, <2>2 DEF QuestionRow
    <2>4. QuestionFrame(f) /\ (QuestionIsLast(req[r]) => QuestionIsLast(f))
        BY <1>1, <1>6, <2>2, <2>3 DEF QuestionFrame, Idle, QuestionIsLast, Answering
    <2>5. QED
        BY <1>6, <2>2, <2>4, NothingIsSaid DEF At
<1>7. ASSUME End(r), ~At(r, "idle"), UNCHANGED <<conversations, messages, resets>>
      PROVE  ConversationInv'
    <2>1. QuestionFrame(Idle) /\ QuestionIsLast(Idle)
        BY DEF QuestionFrame, QuestionIsLast, Idle, Answering
    <2>2. QED
        BY <1>7, <2>1, NothingIsSaid DEF End
<1>8. CASE Generate(r)
    <2>1. req[r].at = "gemini" /\ UNCHANGED <<conversations, messages, resets>>
        BY <1>8 DEF Generate, At, bhojAiVars
    <2>2. QED
        BY <1>6, <1>7, <1>8, <2>1 DEF Generate, At, Answering
<1>9. CASE UseTools(r)
    <2>1. PICK n : n = req[r].rounds + 1
        OBVIOUS
    <2>2. PICK step : step = IF n = MaxToolIterations THEN "saveAnswer" ELSE "gemini"
        OBVIOUS
    <2>3. PICK f : f = [req[r] EXCEPT !.rounds = n, !.at = step]
        OBVIOUS
    <2>4. Goto(r, f) /\ req[r].at = "toolCalls" /\ UNCHANGED <<conversations, messages, resets>>
        BY <1>9, <2>1, <2>2, <2>3 DEF UseTools, At
    <2>5. req[r] \in QuestionRow /\ step \in Answering
        BY <1>1, <2>2, <2>4 DEF QuestionFrame, Idle, Answering
    <2>6. n \in Nat
        BY <2>1, <2>5 DEF QuestionRow
    <2>7. /\ f \in QuestionRow /\ f.at = step /\ f.asked = req[r].asked
          /\ f.conversation = req[r].conversation /\ f.recalled = req[r].recalled
        BY <2>3, <2>5, <2>6 DEF QuestionRow
    <2>8. QuestionFrame(f) /\ (QuestionIsLast(req[r]) => QuestionIsLast(f))
        BY <1>1, <2>4, <2>5, <2>7 DEF QuestionFrame, Idle, QuestionIsLast, Answering
    <2>9. QED
        BY <2>4, <2>8, NothingIsSaid DEF At
<1>10. CASE SaveAnswer(r)
    <2>1. PICK g : g = req[r]
        OBVIOUS
    <2>2. Goto(r, Idle) /\ At(r, "saveAnswer") /\ Says(g, "MODEL")
        BY <1>10, <2>1 DEF SaveAnswer, End, Write, Says
    <2>3. g \in QuestionRow /\ g.at = "saveAnswer" /\ g.conversation # 0
        BY <1>1, <2>1, <2>2 DEF QuestionFrame, At, Idle
    <2>4. /\ ConversationTables' /\ ActiveIsFresh'
          /\ Len(messages') = Len(messages) + 1
          /\ \A i \in DOMAIN messages : messages'[i] = messages[i]
          /\ DOMAIN messages' = 1..Len(messages) + 1 /\ DOMAIN messages = 1..Len(messages)
          /\ messages'[Len(messages) + 1] = [conversation |-> g.conversation, role |-> "MODEL", since |-> resets]
          /\ Len(messages) \in Nat
        BY <1>1, <2>2, <2>3, MessageIsSaid
    <2>5. \A f1 : QuestionFrame(f1) => QuestionFrame(f1)'
        <3>1. messages'[Len(messages) + 1].since = resets
            BY <2>4
        <3>2. /\ Len(conversations) \in Nat /\ conversations' = conversations
              /\ resets \in Nat /\ resets' = resets
            BY <1>1, <2>2 DEF ConversationTables, Says
        <3>3. QED
            BY <1>1, <2>4, <3>1, <3>2, QuestionsStay
    <2>6. QuestionFrame(Idle)' /\ QuestionIsLast(Idle)'
        BY DEF QuestionFrame, QuestionIsLast, Idle, Answering
    <2>7. ASSUME ~overlapped' PROVE AnswersFollow'
        <3>1. AnswersFollow /\ QuestionIsLast(g)
            BY <2>1, <2>2, <2>7, GotoOK DEF ConversationInv, Serial
        <3>2. /\ Len(messages) > 0 /\ messages[Len(messages)].role = "USER"
              /\ messages[Len(messages)].conversation = g.conversation
            BY <2>3, <3>1 DEF QuestionIsLast, Answering
        <3>3. \A i \in DOMAIN messages' : i \in DOMAIN messages \/ i = Len(messages) + 1
            BY <2>4
        <3>4. \A i \in DOMAIN messages' : i > 1 => messages'[i - 1] = messages[i - 1]
            BY <2>4
        <3>5. QED
            BY <2>4, <3>1, <3>2, <3>3, <3>4 DEF AnswersFollow
    <2>8. ~At(r, "idle")
        BY <2>2 DEF At
    <2>9. QED
        BY <2>2, <2>4, <2>5, <2>6, <2>7, <2>8, ConversationGoes
<1>11. QED
    BY <1>2, <1>3, <1>4, <1>5, <1>8, <1>9, <1>10 DEF BhojAiStep

LEMMA ConversationAlone ==
    ASSUME ConversationInv, BhojAiAlone
    PROVE  ConversationInv'
<1>1. PICK call : Instant(call)
    BY DEF BhojAiAlone, ResetConversation, Resolve
<1>2. /\ Serial' /\ req' = req
      /\ ~overlapped' => ~overlapped
    BY <1>1, InstantSerial DEF ConversationInv
<1>3. messages' = messages /\ ConversationTables
    BY DEF BhojAiAlone, ResetConversation, Resolve, ConversationInv
<1>4. /\ Len(conversations') \in Nat /\ Len(conversations') >= Len(conversations)
      /\ resets' \in Nat /\ resets' >= resets
      /\ ConversationTables' /\ ActiveIsFresh'
    <2>1. CASE ResetConversation
        <3>1. conversations' = [c \in DOMAIN conversations |-> "ARCHIVED"] /\ resets' = resets + 1
            BY <2>1 DEF ResetConversation
        <3>2. DOMAIN conversations = 1..Len(conversations) /\ Len(conversations) \in Nat
            BY <1>3 DEF ConversationTables
        <3>3. conversations' \in Seq({"ACTIVE", "ARCHIVED"}) /\ Len(conversations') = Len(conversations)
              /\ DOMAIN conversations' = DOMAIN conversations
            BY <3>1, <3>2
        <3>4. QED
            BY <1>3, <3>1, <3>2, <3>3 DEF ConversationTables, ActiveIsFresh
    <2>2. CASE Resolve
        BY <1>3, <2>2 DEF Resolve, ConversationInv, ConversationTables, ActiveIsFresh
    <2>3. QED
        BY <2>1, <2>2 DEF BhojAiAlone
<1>5. \A f : QuestionFrame(f) => QuestionFrame(f)'
    BY <1>3, <1>4, QuestionsStay
<1>6. \A r \in Requests : QuestionFrame(req[r])'
    <2> SUFFICES ASSUME NEW r \in Requests PROVE QuestionFrame(req[r])'
        OBVIOUS
    <2>1. PICK f : f = req[r]
        OBVIOUS
    <2>2. QuestionFrame(f)' /\ f = req'[r]
        BY <1>2, <1>5, <2>1 DEF ConversationInv
    <2>3. QED
        BY <2>2
<1>7. ~overlapped' => AnswersFollow' /\ \A r \in Requests : QuestionIsLast(req[r])'
    BY <1>2, <1>3 DEF ConversationInv, AnswersFollow, QuestionIsLast
<1>8. QED
    BY <1>2, <1>4, <1>6, <1>7 DEF ConversationInv

LEMMA HistoryIsFresh == ASSUME ConversationInv PROVE ResetsForget
<1>1. \A i \in History : messages[i].since = resets
    <2>1. ActiveConversations # {} => Max(ActiveConversations) \in ActiveConversations
        BY ActiveOnesAreThere DEF ConversationInv
    <2>2. QED
        BY <2>1 DEF History, TextsOf, ActiveConversations, ConversationInv, ActiveIsFresh
<1>2. \A r \in Requests : At(r, "saveQuestion") => \A since \in req[r].recalled : since >= req[r].asked
    BY DEF ConversationInv, QuestionFrame, Idle, At
<1>3. ASSUME ~overlapped, NEW i \in History, messages[i].role = "MODEL"
      PROVE  \E j \in History : /\ j < i /\ messages[j].role = "USER"
                                /\ \A k \in History : ~(j < k /\ k < i)
    <2>1. PICK c : History = TextsOf(c)
        BY <1>3 DEF History
    <2>2. DOMAIN messages = 1..Len(messages) /\ Len(messages) \in Nat
        BY DEF ConversationInv, ConversationTables
    <2>3. i \in DOMAIN messages /\ messages[i].conversation = c
        BY <1>3, <2>1 DEF TextsOf
    <2>4. i > 1 /\ messages[i - 1].role = "USER" /\ messages[i - 1].conversation = c
        BY <1>3, <2>3 DEF ConversationInv, AnswersFollow
    <2>5. i - 1 \in History
        BY <2>1, <2>2, <2>3, <2>4 DEF TextsOf
    <2>6. \A k \in History : ~(i - 1 < k /\ k < i)
        BY <2>1, <2>2, <2>3 DEF TextsOf
    <2>7. QED
        BY <2>2, <2>3, <2>4, <2>5, <2>6
<1>4. QED
    BY <1>1, <1>2, <1>3 DEF ResetsForget

(* bhojai.service.ts: in every interleaving, nothing said before a reset is     *)
(* shown after it or sent with a message that comes after it; and while calls   *)
(* come one by one every answer shown stands behind its question.              *)
THEOREM ResetsAreFinal == BhojAiSpec => []ResetsForget
<1>1. BhojAiInit /\ HandlersInit => ConversationInv
    <2> SUFFICES ASSUME BhojAiInit, HandlersInit PROVE ConversationInv
        OBVIOUS
    <2>1. Serial
        BY InitSerial
    <2>2. ConversationTables /\ ActiveIsFresh /\ AnswersFollow
        BY DEF BhojAiInit, ConversationTables, ActiveIsFresh, AnswersFollow
    <2>3. \A r \in Requests : req[r] = Idle
        BY DEF HandlersInit
    <2>4. \A r \in Requests : QuestionFrame(req[r]) /\ QuestionIsLast(req[r])
        <3>1. QuestionFrame(Idle) /\ QuestionIsLast(Idle)
            BY DEF QuestionFrame, QuestionIsLast, Idle, Answering
        <3>2. QED
            BY <2>3, <3>1
    <2>5. QED
        BY <2>1, <2>2, <2>4 DEF ConversationInv
<1>2. ConversationInv /\ [BhojAiNext]_<<bhojAiVars, handlerVars>> => ConversationInv'
    <2> SUFFICES ASSUME ConversationInv, [BhojAiNext]_<<bhojAiVars, handlerVars>> PROVE ConversationInv'
        OBVIOUS
    <2>1. ASSUME NEW r \in Requests, Abort(r), UNCHANGED bhojAiVars PROVE ConversationInv'
        <3>1. QuestionFrame(Idle) /\ QuestionIsLast(Idle)
            BY DEF QuestionFrame, QuestionIsLast, Idle, Answering
        <3>2. QED
            BY <2>1, <3>1, NothingIsSaid DEF Abort, End, bhojAiVars
    <2>2. CASE UNCHANGED <<bhojAiVars, handlerVars>>
        BY <2>2 DEF bhojAiVars, handlerVars, ConversationInv, Serial, Tracked, OneByOne, InFlight, At,
                    ConversationTables, ActiveIsFresh, QuestionFrame, QuestionRow, AnswersFollow, QuestionIsLast
    <2>3. QED
        BY <2>1, <2>2, ConversationStep, ConversationAlone DEF BhojAiNext
<1>3. ConversationInv => ResetsForget
    BY HistoryIsFresh
<1>4. QED
    BY <1>1, <1>2, <1>3, PTL DEF BhojAiSpec

-----------------------------------------------------------------------------
(* Api.  A call carries the user its guards have found, and who was banned    *)
(* when it arrived still is.                                                  *)

RoutedCall ==
    [at : {"jwt", "guards", "pipes", "handler"}, wanted : Range(AppModule), route : Range(AppModule),
     bearer : Bearers, header : {"right", "wrong", "none"}, user : {"nobody", "customer", "partner"},
     arrived : [Realms -> {"ACTIVE", "BANNED", "SUSPENDED"}]]

(* A token that was checked when the call came in. *)
UserIsKnown(f) ==
    /\ f.user = "customer" => "KitchenScope" \notin f.route.marks /\ f.arrived["customer"] # "BANNED"
    /\ f.user = "partner" => PartnersOnly(f.route.marks) /\ f.arrived["partner"] # "SUSPENDED"

Guarding(f) ==
    /\ f.at = "jwt" => f.user = "nobody"
    /\ f.at = "guards" => f.user # "partner"
    /\ f.at # "jwt" /\ f.route.marks \cap {"KitchenScope", "KitchenAuthGuard", "Public"} = {} => f.user = "customer"
    /\ f.at \in {"pipes", "handler"} /\ "AdminSecretGuard" \in f.route.marks =>
          adminSecret = "set" /\ f.header = "right"
    /\ f.at \in {"pipes", "handler"} /\ PartnersOnly(f.route.marks) => f.user = "partner"

RoutedFrame(f) ==
    \/ f = Idle
    \/ /\ f \in RoutedCall
       /\ f.route = f.wanted
       /\ f.arrived["customer"] = "BANNED" => standing["customer"] = "BANNED"
       /\ f.arrived["partner"] = "SUSPENDED" => standing["partner"] = "SUSPENDED"
       /\ UserIsKnown(f) /\ Guarding(f)

Standings == standing \in [Realms -> {"ACTIVE", "BANNED", "SUSPENDED"}]

ApiInv == Tracked /\ Standings /\ \A r \in Requests : RoutedFrame(req[r])

LEMMA RoutedGoes ==
    ASSUME ApiInv, NEW r \in Requests, NEW frame, Goto(r, frame), UNCHANGED apiVars, RoutedFrame(frame)
    PROVE  ApiInv'
<1>1. Tracked' /\ req'[r] = frame /\ \A q \in Requests \ {r} : req'[q] = req[q]
    BY GotoOK DEF ApiInv
<1>2. \A f : RoutedFrame(f) => RoutedFrame(f)'
    BY DEF RoutedFrame, UserIsKnown, Guarding, apiVars
<1>3. \A q \in Requests : RoutedFrame(req[q])'
    <2> SUFFICES ASSUME NEW q \in Requests PROVE RoutedFrame(req[q])'
        OBVIOUS
    <2>1. PICK f : f = req'[q]
        OBVIOUS
    <2>2. RoutedFrame(f)
        BY <1>1, <2>1 DEF ApiInv
    <2>3. QED
        BY <1>2, <2>1, <2>2
<1>4. QED
    BY <1>1, <1>3 DEF ApiInv, Standings, apiVars

LEMMA RoutedIsSent ==
    ASSUME RoutesAssumption, ApiInv, NEW r \in Requests, Send(r)
    PROVE  ApiInv'
<1>1. PICK wanted \in Range(AppModule), bearer \in Bearers, header \in {"right", "wrong", "none"} :
         Goto(r, [at |-> "jwt", wanted |-> wanted, route |-> Head(Dispatch(wanted.verb, Filled(wanted.path))),
                  bearer |-> bearer, header |-> header, user |-> "nobody", arrived |-> standing])
    BY DEF Send, Begin
<1>2. Head(Dispatch(wanted.verb, Filled(wanted.path))) = wanted
    BY DEF RoutesAssumption
<1>3. PICK now : now = standing
    OBVIOUS
<1>4. PICK f : f = [at |-> "jwt", wanted |-> wanted, route |-> wanted, bearer |-> bearer, header |-> header,
                    user |-> "nobody", arrived |-> now]
    OBVIOUS
<1>5. Goto(r, f)
    BY <1>1, <1>2, <1>3, <1>4
<1>6. f \in RoutedCall
    BY <1>3, <1>4 DEF RoutedCall, ApiInv, Standings
<1>7. RoutedFrame(f)
    BY <1>3, <1>4, <1>6 DEF RoutedFrame, UserIsKnown, Guarding
<1>8. QED
    BY <1>5, <1>7, RoutedGoes DEF Send

LEMMA RoutedIsRefused ==
    ASSUME ApiInv, NEW r \in Requests, End(r), UNCHANGED apiVars
    PROVE  ApiInv'
<1>1. RoutedFrame(Idle)
    BY DEF RoutedFrame
<1>2. QED
    BY <1>1, RoutedGoes DEF End

LEMMA RoutedGoesOn ==
    ASSUME RoutesAssumption, ApiInv, NEW r \in Requests, NEW step \in {"guards", "pipes", "handler"},
           NEW user \in {"nobody", "customer", "partner"},
           ~At(r, "idle"), Admit(r, step, user), UNCHANGED apiVars,
           \A f \in RoutedCall : f.at = step /\ f.user = user /\ f.route = req[r].route /\ f.header = req[r].header
                           /\ f.arrived = req[r].arrived => UserIsKnown(f) /\ Guarding(f)
    PROVE  ApiInv'
<1>1. PICK f : f = [req[r] EXCEPT !.at = step, !.user = user]
    OBVIOUS
<1>2. RoutedFrame(req[r]) /\ req[r] \in RoutedCall
    BY DEF ApiInv, RoutedFrame, At, Idle
<1>3. /\ f \in RoutedCall /\ f.at = step /\ f.user = user /\ f.route = req[r].route /\ f.header = req[r].header
      /\ f.arrived = req[r].arrived /\ f.wanted = req[r].wanted
    BY <1>1, <1>2 DEF RoutedCall
<1>4. UserIsKnown(f) /\ Guarding(f)
    BY <1>3
<1>5. RoutedFrame(f)
    BY <1>2, <1>3, <1>4 DEF RoutedFrame, Idle, At
<1>6. QED
    BY <1>1, <1>5, RoutedGoes DEF Admit

LEMMA RoutedContinues ==
    ASSUME ApiInv, NEW r \in Requests, NEW step, ~At(r, "idle"), Continue(r, step)
    PROVE  Admit(r, step, req[r].user)
<1>1. req[r] \in RoutedCall
    BY DEF ApiInv, RoutedFrame, At, Idle
<1>2. [req[r] EXCEPT !.at = step] = [req[r] EXCEPT !.at = step, !.user = req[r].user]
    BY <1>1 DEF RoutedCall
<1>3. QED
    BY <1>2 DEF Continue, Admit

LEMMA RoutedStep ==
    ASSUME RoutesAssumption, ApiInv, NEW r \in Requests, ApiStep(r)
    PROVE  ApiInv'
<1>1. RoutedFrame(req[r])
    BY DEF ApiInv
<1>2. CASE Send(r)
    BY <1>2, RoutedIsSent
<1>3. CASE Answer(r)
    BY <1>3, RoutedIsRefused DEF Answer
<1>4. CASE JwtAuthGuard(r)
    <2>1. /\ ~At(r, "idle") /\ req[r].at = "jwt" /\ UNCHANGED apiVars
          /\ req[r] \in RoutedCall /\ UserIsKnown(req[r]) /\ Guarding(req[r])
        BY <1>1, <1>4 DEF JwtAuthGuard, At, RoutedFrame, Idle
    <2>2. req[r].user = "nobody"
        BY <2>1 DEF Guarding
    <2>3. ASSUME Continue(r, "guards"), Marked(r, "KitchenScope") \/ Marked(r, "Public") PROVE ApiInv'
        <3>1. Admit(r, "guards", "nobody")
            BY <2>1, <2>2, <2>3, RoutedContinues
        <3>2. \A f \in RoutedCall : f.at = "guards" /\ f.user = "nobody" /\ f.route = req[r].route /\ f.header = req[r].header
                              /\ f.arrived = req[r].arrived => UserIsKnown(f) /\ Guarding(f)
            BY <2>3 DEF UserIsKnown, Guarding, Marked
        <3>3. QED
            BY <2>1, <3>1, <3>2, RoutedGoesOn
    <2>4. ASSUME ~Marked(r, "KitchenScope"), JwtStrategy(req[r].bearer), Admit(r, "guards", "customer")
          PROVE  ApiInv'
        <3>1. req[r].arrived["customer"] # "BANNED"
            BY <1>1, <2>1, <2>4 DEF JwtStrategy, RoutedFrame, Idle
        <3>2. \A f \in RoutedCall : f.at = "guards" /\ f.user = "customer" /\ f.route = req[r].route /\ f.header = req[r].header
                              /\ f.arrived = req[r].arrived => UserIsKnown(f) /\ Guarding(f)
            BY <2>4, <3>1 DEF UserIsKnown, Guarding, Marked
        <3>3. QED
            BY <2>1, <2>4, <3>2, RoutedGoesOn
    <2>5. CASE Refuse(r)
        BY <2>1, <2>5, RoutedIsRefused DEF Refuse
    <2>6. QED
        BY <1>4, <2>3, <2>4, <2>5 DEF JwtAuthGuard
<1>5. CASE KitchenAuthGuard(r)
    <2>1. /\ ~At(r, "idle") /\ req[r].at = "guards" /\ UNCHANGED apiVars /\ Marked(r, "KitchenAuthGuard")
          /\ req[r] \in RoutedCall /\ UserIsKnown(req[r]) /\ Guarding(req[r])
        BY <1>1, <1>5 DEF KitchenAuthGuard, At, RoutedFrame, Idle
    <2>2. "AdminSecretGuard" \notin req[r].route.marks
        <3>1. req[r].route \in Range(AppModule)
            BY <2>1 DEF RoutedCall
        <3>2. QED
            BY <2>1, <3>1 DEF RoutesAssumption, Marked
    <2>3. ASSUME Continue(r, "pipes"), Marked(r, "Public") PROVE ApiInv'
        <3>1. Admit(r, "pipes", req[r].user) /\ req[r].user \in {"nobody", "customer", "partner"}
            BY <2>1, <2>3, RoutedContinues DEF RoutedCall
        <3>2. \A f \in RoutedCall : f.at = "pipes" /\ f.user = req[r].user /\ f.route = req[r].route /\ f.header = req[r].header
                              /\ f.arrived = req[r].arrived => UserIsKnown(f) /\ Guarding(f)
            BY <2>1, <2>2, <2>3 DEF UserIsKnown, Guarding, Marked, PartnersOnly
        <3>3. QED
            BY <2>1, <3>1, <3>2, RoutedGoesOn
    <2>4. ASSUME ~Marked(r, "Public"), KitchenJwtStrategy(req[r].bearer), Admit(r, "pipes", "partner")
          PROVE  ApiInv'
        <3>1. req[r].arrived["partner"] # "SUSPENDED"
            BY <1>1, <2>1, <2>4 DEF KitchenJwtStrategy, RoutedFrame, Idle
        <3>2. \A f \in RoutedCall : f.at = "pipes" /\ f.user = "partner" /\ f.route = req[r].route /\ f.header = req[r].header
                              /\ f.arrived = req[r].arrived => UserIsKnown(f) /\ Guarding(f)
            BY <2>1, <2>2, <2>4, <3>1 DEF UserIsKnown, Guarding, Marked, PartnersOnly
        <3>3. QED
            BY <2>1, <2>4, <3>2, RoutedGoesOn
    <2>5. CASE Refuse(r)
        BY <2>1, <2>5, RoutedIsRefused DEF Refuse
    <2>6. QED
        BY <1>5, <2>3, <2>4, <2>5 DEF KitchenAuthGuard
<1>6. CASE AdminSecretGuard(r) \/ NoGuard(r)
    <2>1. /\ ~At(r, "idle") /\ req[r].at = "guards" /\ UNCHANGED apiVars
          /\ req[r] \in RoutedCall /\ UserIsKnown(req[r]) /\ Guarding(req[r])
        BY <1>1, <1>6 DEF AdminSecretGuard, NoGuard, At, RoutedFrame, Idle
    <2>2. "KitchenAuthGuard" \notin req[r].route.marks
        <3>1. req[r].route \in Range(AppModule)
            BY <2>1 DEF RoutedCall
        <3>2. QED
            BY <1>6, <3>1 DEF RoutesAssumption, Marked, AdminSecretGuard, NoGuard
    <2>3. CASE Refuse(r)
        BY <2>1, <2>3, RoutedIsRefused DEF Refuse
    <2>4. ASSUME Continue(r, "pipes"),
                 Marked(r, "AdminSecretGuard") => adminSecret = "set" /\ req[r].header = "right"
          PROVE  ApiInv'
        <3>1. Admit(r, "pipes", req[r].user) /\ req[r].user \in {"nobody", "customer", "partner"}
            BY <2>1, <2>4, RoutedContinues DEF RoutedCall
        <3>2. \A f \in RoutedCall : f.at = "pipes" /\ f.user = req[r].user /\ f.route = req[r].route /\ f.header = req[r].header
                              /\ f.arrived = req[r].arrived => UserIsKnown(f) /\ Guarding(f)
            BY <2>1, <2>2, <2>4 DEF UserIsKnown, Guarding, Marked, PartnersOnly
        <3>3. QED
            BY <2>1, <3>1, <3>2, RoutedGoesOn
    <2>5. QED
        BY <1>6, <2>3, <2>4 DEF AdminSecretGuard, NoGuard, Marked
<1>7. CASE Validate(r)
    <2>1. /\ ~At(r, "idle") /\ req[r].at = "pipes" /\ UNCHANGED apiVars
          /\ req[r] \in RoutedCall /\ UserIsKnown(req[r]) /\ Guarding(req[r])
        BY <1>1, <1>7 DEF Validate, At, RoutedFrame, Idle
    <2>2. CASE Refuse(r)
        BY <2>1, <2>2, RoutedIsRefused DEF Refuse
    <2>3. CASE Continue(r, "handler")
        <3>1. Admit(r, "handler", req[r].user) /\ req[r].user \in {"nobody", "customer", "partner"}
            BY <2>1, <2>3, RoutedContinues DEF RoutedCall
        <3>2. \A f \in RoutedCall : f.at = "handler" /\ f.user = req[r].user /\ f.route = req[r].route /\ f.header = req[r].header
                              /\ f.arrived = req[r].arrived => UserIsKnown(f) /\ Guarding(f)
            BY <2>1 DEF UserIsKnown, Guarding
        <3>3. QED
            BY <2>1, <3>1, <3>2, RoutedGoesOn
    <2>4. QED
        BY <1>7, <2>2, <2>3 DEF Validate
<1>8. QED
    BY <1>2, <1>3, <1>4, <1>5, <1>6, <1>7 DEF ApiStep

LEMMA BanStep ==
    ASSUME ApiInv, Ban
    PROVE  ApiInv'
<1>1. req' = req /\ Tracked' /\ adminSecret' = adminSecret
    BY DEF Ban, Instant, ApiInv, Tracked
<1>2. PICK realm \in Realms :
         standing' = [standing EXCEPT ![realm] = IF realm = "customer" THEN "BANNED" ELSE "SUSPENDED"]
    BY DEF Ban
<1>3. /\ Standings'
      /\ standing["customer"] = "BANNED" => standing'["customer"] = "BANNED"
      /\ standing["partner"] = "SUSPENDED" => standing'["partner"] = "SUSPENDED"
    BY <1>2 DEF ApiInv, Standings, Realms
<1>4. \A f : RoutedFrame(f) => RoutedFrame(f)'
    BY <1>1, <1>3 DEF RoutedFrame, UserIsKnown, Guarding
<1>5. QED
    BY <1>1, <1>3, <1>4 DEF ApiInv

(* A handler runs for the route its client meant and for a caller of that      *)
(* path's realm, banned by nobody before the call came in: whatever number of  *)
(* calls are under way, and whenever an operator bans.                         *)
THEOREM HandlersAreGuarded == ASSUME RoutesAssumption PROVE ApiSpec => []HandlersKnowTheirCaller
<1>1. ApiInit /\ HandlersInit => ApiInv
    <2> SUFFICES ASSUME ApiInit, HandlersInit PROVE ApiInv
        OBVIOUS
    <2>1. Tracked /\ \A r \in Requests : req[r] = Idle
        BY InitSerial DEF Serial, HandlersInit
    <2>2. Standings
        BY DEF ApiInit, Standings
    <2>3. QED
        BY <2>1, <2>2 DEF ApiInv, RoutedFrame
<1>2. ApiInv /\ [ApiNext]_<<apiVars, handlerVars>> => ApiInv'
    <2> SUFFICES ASSUME ApiInv, [ApiNext]_<<apiVars, handlerVars>> PROVE ApiInv'
        OBVIOUS
    <2>1. ASSUME NEW r \in Requests, Abort(r), UNCHANGED apiVars PROVE ApiInv'
        BY <2>1, RoutedIsRefused DEF Abort
    <2>2. CASE UNCHANGED <<apiVars, handlerVars>>
        BY <2>2 DEF apiVars, handlerVars, ApiInv, Tracked, Standings, RoutedFrame, UserIsKnown, Guarding
    <2>3. QED
        BY <2>1, <2>2, RoutedStep, BanStep DEF ApiNext
<1>3. ApiInv => HandlersKnowTheirCaller
    <2> SUFFICES ASSUME ApiInv, NEW r \in Requests, req[r].at = "handler"
                 PROVE  LET call == req[r]
                            path == call.route.path
                        IN  /\ call.route = call.wanted
                            /\ path[1] = "partner" /\ ~SignsIn(path) => call.user = "partner"
                            /\ path[1] = "customer" => call.user = "customer"
                            /\ path[1] = "admin" => adminSecret = "set" /\ call.header = "right"
                            /\ call.user = "partner" => path[1] = "partner" /\ call.arrived.partner # "SUSPENDED"
                            /\ call.user = "customer" => path[1] # "partner" /\ call.arrived.customer # "BANNED"
        BY DEF HandlersKnowTheirCaller, At
    <2>1. req[r] \in RoutedCall /\ req[r].route = req[r].wanted /\ UserIsKnown(req[r]) /\ Guarding(req[r])
        BY DEF ApiInv, RoutedFrame, Idle
    <2>2. PICK route : route = req[r].route
        OBVIOUS
    <2>3. /\ route.path[1] = "partner" =>
                "KitchenScope" \in route.marks /\ (SignsIn(route.path) \/ PartnersOnly(route.marks))
          /\ PartnersOnly(route.marks) => route.path[1] = "partner"
          /\ route.path[1] = "customer" => route.marks \cap {"KitchenScope", "KitchenAuthGuard", "Public"} = {}
          /\ route.path[1] = "admin" => "AdminSecretGuard" \in route.marks
        BY <2>1, <2>2 DEF RoutedCall, RoutesAssumption
    <2>4. QED
        BY <2>1, <2>2, <2>3 DEF UserIsKnown, Guarding
<1>4. QED
    BY <1>1, <1>2, <1>3, PTL DEF ApiSpec

-----------------------------------------------------------------------------
(* Inbox.  Of the subscription's stamps, the one that its status is shown with *)
(* is set, and at a tick at which no other row was written: so the inbox has   *)
(* as many entries as its sources have rows, and a page may be cut from the    *)
(* newest of each source as if it were cut from all.                           *)

Stamps == {"approvedAt", "pausedAt", "cancelledAt", "updatedAt"}

Subscription == [status : {"PENDING", "ACTIVE", "PAUSED", "CANCELLED", "REJECTED"},
                 approvedAt : Nat, pausedAt : Nat, cancelledAt : Nat, updatedAt : Nat]

InboxTables ==
    /\ rows \in Seq(Sources \cup {"none"}) /\ clock = Len(rows)
    /\ subscription \in Subscription /\ readAt \in Nat

StampsTick == \A f \in Stamps : subscription[f] # 0 => subscription[f] <= clock /\ rows[subscription[f]] = "none"

StatusIsStamped ==
    /\ subscription.status \in {"ACTIVE", "PAUSED"} => subscription.approvedAt # 0
    /\ subscription.status \in DOMAIN StampOf => Stamped # 0

InboxInv ==
    /\ InboxTables /\ StampsTick /\ StatusIsStamped
    /\ Tracked /\ \A r \in Requests : At(r, "markAllRead") => req[r].now \in Nat

(* What is newest in sets that are merged is newest in all, as deep as each was    *)
(* looked into.                                                                   *)
LEMMA LatestOfMerged ==
    ASSUME NEW k \in Nat, NEW all \in SUBSET (1..k), NEW merged \in SUBSET all,
           NEW n \in Nat, NEW m \in Nat, m <= n, Latest(all, n) \subseteq merged
    PROVE  Latest(merged, m) = Latest(all, m)
<1> DEFINE Above(S, t) == {s \in S : s > t}
<1>1. ASSUME NEW S \in SUBSET all, NEW t
      PROVE  IsFiniteSet(Above(S, t)) /\ Cardinality(Above(S, t)) \in Nat
    <2>1. Above(S, t) \in SUBSET (1..k)
        OBVIOUS
    <2> HIDE DEF Above
    <2>2. IsFiniteSet(1..k)
        BY FS_Interval
    <2>3. QED
        BY <2>1, <2>2, FS_Subset, FS_CardinalityType
<1>2. ASSUME NEW S \in SUBSET all, NEW T \in SUBSET all, NEW t, NEW u, Above(S, t) \subseteq Above(T, u)
      PROVE  Cardinality(Above(S, t)) <= Cardinality(Above(T, u))
    BY <1>1, <1>2, FS_Subset
<1>3. ASSUME NEW t \in Latest(all, m) PROVE t \in Latest(merged, m)
    <2>1. t \in all /\ Cardinality(Above(all, t)) < m
        BY <1>3 DEF Latest
    <2>2. Cardinality(Above(merged, t)) <= Cardinality(Above(all, t))
        <3>1. Above(merged, t) \subseteq Above(all, t)
            OBVIOUS
        <3> HIDE DEF Above
        <3>2. QED
            BY <1>2, <3>1
    <2>3. Cardinality(Above(all, t)) \in Nat /\ Cardinality(Above(merged, t)) \in Nat
        BY <1>1
    <2>4. t \in merged
        <3>1. Cardinality(Above(all, t)) < n
            BY <2>1, <2>3
        <3>2. QED
            BY <2>1, <3>1 DEF Latest
    <2>5. Cardinality(Above(merged, t)) < m
        <3> HIDE DEF Above
        <3>1. QED
            BY <2>1, <2>2, <2>3
    <2>6. QED
        BY <2>4, <2>5 DEF Latest
<1>4. ASSUME NEW t \in Latest(merged, m) PROVE t \in Latest(all, m)
    <2> DEFINE Missed == Above(all, t) \ merged
    <2>1. t \in merged /\ Cardinality(Above(merged, t)) < m
        BY <1>4 DEF Latest
    <2>2. Missed = {}
        <3>1. SUFFICES ASSUME Missed # {} PROVE FALSE
            OBVIOUS
        <3>2. Missed \in SUBSET (1..k)
            OBVIOUS
        <3>3. PICK a \in Missed : \A b \in Missed : a >= b
            <4> HIDE DEF Missed
            <4>1. QED
                BY <3>1, <3>2, LastIsThere
        <3>4. Above(all, a) \subseteq Above(merged, t)
            <4>1. SUFFICES ASSUME NEW s \in all, s > a PROVE s \in merged /\ s > t
                OBVIOUS
            <4>2. s > t /\ s \in Int /\ a \in Int
                <5>1. t \in 1..k /\ a \in 1..k /\ s \in 1..k /\ a > t
                    BY <2>1
                <5>2. QED
                    BY <4>1, <5>1
            <4>3. s \notin Missed
                BY <3>3, <4>1, <4>2
            <4>4. QED
                BY <4>2, <4>3
        <3>5. Cardinality(Above(all, a)) <= Cardinality(Above(merged, t))
            <4> HIDE DEF Above
            <4>1. QED
                BY <1>2, <3>4
        <3>6. Cardinality(Above(all, a)) \in Nat /\ Cardinality(Above(merged, t)) \in Nat
            BY <1>1
        <3>7. Cardinality(Above(all, a)) < n
            <4> HIDE DEF Above
            <4>1. QED
                BY <2>1, <3>5, <3>6
        <3>8. a \in Latest(all, n)
            BY <3>3, <3>7 DEF Latest
        <3>9. QED
            BY <3>3, <3>8
    <2>3. Above(all, t) = Above(merged, t)
        BY <2>2
    <2>4. QED
        BY <2>1, <2>3 DEF Latest
<1>5. QED
    BY <1>3, <1>4

(* Looking no deeper shows no more. *)
LEMMA LatestGrows ==
    ASSUME NEW k \in Nat, NEW all \in SUBSET (1..k), NEW m \in Nat, NEW n \in Nat, m <= n
    PROVE  Latest(all, m) \subseteq Latest(all, n)
<1>1. ASSUME NEW t \in Latest(all, m) PROVE t \in Latest(all, n)
    <2> DEFINE Newer == {s \in all : s > t}
    <2>1. t \in all /\ Cardinality(Newer) < m
        BY <1>1 DEF Latest
    <2>2. Newer \in SUBSET (1..k)
        OBVIOUS
    <2>3. Cardinality(Newer) < n
        <3> HIDE DEF Newer
        <3>1. IsFiniteSet(1..k)
            BY FS_Interval
        <3>2. Cardinality(Newer) \in Nat
            BY <2>2, <3>1, FS_Subset, FS_CardinalityType
        <3>3. QED
            BY <2>1, <3>2
    <2>4. QED
        BY <2>1, <2>3 DEF Latest
<1>2. QED
    BY <1>1

(* Pages of a size, one after the other: each place is on one of them, *)
LEMMA PageOfPlace ==
    ASSUME NEW size \in Nat \ {0}
    PROVE  /\ \A a, b \in Nat : a <= b => a * size \in Nat /\ b * size \in Nat /\ a * size <= b * size
           /\ \A n \in Nat : \E p \in Nat \ {0} : (p - 1) * size <= n /\ n < p * size
<1>1. size \in Nat /\ size > 0
    OBVIOUS
<1>2. ASSUME NEW a \in Nat, NEW b \in Nat, a <= b
      PROVE  a * size \in Nat /\ b * size \in Nat /\ a * size <= b * size
    BY <1>1, <1>2
<1>3. ASSUME NEW n \in Nat PROVE \E p \in Nat \ {0} : (p - 1) * size <= n /\ n < p * size
    <2> DEFINE q == n \div size
    <2>1. q \in Nat /\ size * q <= n /\ n < size * (q + 1)
        BY <1>1
    <2> HIDE DEF q
    <2>2. (q + 1) * size = size * (q + 1) /\ q * size = size * q /\ (q + 1) - 1 = q /\ q + 1 \in Nat \ {0}
        BY <1>1, <2>1
    <2>3. ((q + 1) - 1) * size <= n /\ n < (q + 1) * size
        BY <2>1, <2>2
    <2>4. QED
        BY <2>2, <2>3
<1>4. QED
    BY <1>2, <1>3

(* also where only whole pages count. *)
LEMMA WholePages ==
    ASSUME NEW w \in Nat
    PROVE  LET last == w \div PageSize
           IN  /\ last \in Nat /\ PageSize * last \in Nat /\ PageSize * last <= w
               /\ \A p \in 1..last : p * PageSize \in Nat /\ p * PageSize <= PageSize * last /\ p * PageSize <= w
                                     /\ (p - 1) * PageSize \in Nat /\ (p - 1) * PageSize <= p * PageSize
               /\ \A n \in Nat : n < PageSize * last =>
                      \E p \in 1..last : n < p * PageSize /\ ~ n < (p - 1) * PageSize
               /\ \A p, q \in 1..last : p < q => p * PageSize <= (q - 1) * PageSize
<1> DEFINE last == w \div PageSize
<1>0. PageSize \in Nat /\ PageSize > 0
    BY InboxAssumption
<1>1. last \in Nat /\ PageSize * last \in Nat /\ PageSize * last <= w
    BY <1>0
<1> HIDE DEF last
<1>2. ASSUME NEW a \in Nat, NEW b \in Nat, a <= b
      PROVE  a * PageSize \in Nat /\ b * PageSize \in Nat /\ a * PageSize <= b * PageSize
    BY <1>0, <1>2, PageOfPlace
<1>3. ASSUME NEW p \in 1..last
      PROVE  /\ p * PageSize \in Nat /\ p * PageSize <= PageSize * last /\ p * PageSize <= w
             /\ (p - 1) * PageSize \in Nat /\ (p - 1) * PageSize <= p * PageSize
    <2>1. p \in Nat /\ p - 1 \in Nat /\ p - 1 <= p /\ p <= last
        BY <1>1
    <2>2. p * PageSize \in Nat /\ p * PageSize <= last * PageSize
        BY <1>1, <1>2, <2>1
    <2>3. last * PageSize = PageSize * last
        BY <1>0, <1>1
    <2>4. (p - 1) * PageSize \in Nat /\ (p - 1) * PageSize <= p * PageSize
        BY <1>2, <2>1
    <2>5. QED
        BY <1>1, <2>2, <2>3, <2>4
<1>4. ASSUME NEW n \in Nat, n < PageSize * last
      PROVE  \E p \in 1..last : n < p * PageSize /\ ~ n < (p - 1) * PageSize
    <2>1. PICK p \in Nat \ {0} : (p - 1) * PageSize <= n /\ n < p * PageSize
        <3>1. PageSize \in Nat \ {0}
            BY InboxAssumption
        <3>2. \A m \in Nat : \E q \in Nat \ {0} : (q - 1) * PageSize <= m /\ m < q * PageSize
            BY <3>1, PageOfPlace, Zenon
        <3>3. QED
            BY <3>2
    <2>2. p * PageSize \in Nat /\ p - 1 \in Nat /\ (p - 1) * PageSize \in Nat
        BY <1>2
    <2>3. p - 1 < last
        <3>1. SUFFICES ASSUME last <= p - 1 PROVE FALSE
            BY <1>1, <2>2
        <3>2. last * PageSize <= (p - 1) * PageSize
            BY <1>1, <1>2, <2>2, <3>1
        <3>3. last * PageSize = PageSize * last
            BY <1>0, <1>1
        <3>4. QED
            BY <1>1, <1>4, <2>1, <2>2, <3>2, <3>3
    <2>4. p \in 1..last
        BY <1>1, <2>2, <2>3
    <2>5. QED
        BY <2>1, <2>2, <2>4
<1>5. ASSUME NEW p \in 1..last, NEW q \in 1..last, p < q
      PROVE  p * PageSize <= (q - 1) * PageSize
    <2>1. p \in Nat /\ q - 1 \in Nat /\ p <= q - 1
        BY <1>1, <1>5
    <2>2. QED
        BY <1>2, <2>1
<1>6. QED
    BY <1>1, <1>3, <1>4, <1>5 DEF last

(* The rows of the sources are at different ticks, and the subscription's at   *)
(* one of its own.                                                             *)
LEMMA EntriesAreTicks ==
    ASSUME InboxInv
    PROVE  /\ clock \in Nat
           /\ \A source \in Sources : TimesOf(source) \in SUBSET (1..clock)
           /\ SubscriptionTimes \in SUBSET (1..clock)
           /\ SubscriptionTimes = IF subscription.status = "PENDING" THEN {} ELSE {Stamped}
           /\ \A t \in SubscriptionTimes, source \in Sources : t \notin TimesOf(source)
<1>1. clock \in Nat /\ DOMAIN rows = 1..clock
    BY DEF InboxInv, InboxTables
<1>2. \A source \in Sources : TimesOf(source) \in SUBSET (1..clock)
    BY <1>1 DEF TimesOf
<1>3. SubscriptionTimes = IF subscription.status = "PENDING" THEN {} ELSE {Stamped}
    BY DEF SubscriptionTimes, InboxInv, InboxTables, StatusIsStamped, Subscription, StampOf
<1>4. ASSUME subscription.status # "PENDING" PROVE Stamped \in 1..clock /\ rows[Stamped] = "none"
    <2>1. subscription.status \in DOMAIN StampOf
        BY <1>4 DEF InboxInv, InboxTables, Subscription, StampOf
    <2>2. StampOf[subscription.status] \in Stamps
        BY <2>1 DEF StampOf, Stamps
    <2>3. Stamped # 0 /\ Stamped <= clock /\ rows[Stamped] = "none"
        BY <2>1, <2>2 DEF InboxInv, StatusIsStamped, StampsTick, Stamped
    <2>4. Stamped \in Nat
        BY <2>2 DEF InboxInv, InboxTables, Subscription, Stamps, Stamped
    <2>5. QED
        BY <1>1, <2>3, <2>4
<1>5. QED
    BY <1>1, <1>2, <1>3, <1>4 DEF TimesOf, Sources

(* A page is cut from all entries of its category, as deep as MAX_WINDOW is.   *)
LEMMA PagesAreOfAll ==
    ASSUME InboxInv, NEW category, NEW p \in 1 .. (MaxWindow \div PageSize)
    PROVE  Page(p, category) =
               Latest(Entries(category), p * PageSize) \ Latest(Entries(category), (p - 1) * PageSize)
<1> DEFINE all == Entries(category)
           n == p * PageSize
           take(source) == IF Listed(source, category) THEN Latest(TimesOf(source), Window(p)) ELSE {}
           subscribed == IF Listed("subscription", category) THEN SubscriptionTimes ELSE {}
           merged == (UNION {take(s) : s \in Sources}) \cup subscribed
<1>1. /\ n \in Nat /\ (p - 1) * PageSize \in Nat /\ (p - 1) * PageSize <= n /\ n <= MaxWindow
    BY WholePages, InboxAssumption
<1>2. Window(p) = n
    BY <1>1, InboxAssumption DEF Window
<1>3. clock \in Nat /\ all \in SUBSET (1..clock)
    BY EntriesAreTicks DEF Entries
<1>4. merged \in SUBSET all
    BY DEF Entries, Latest
<1>5. Latest(all, n) \subseteq merged
    <2> SUFFICES ASSUME NEW t \in Latest(all, n), t \notin subscribed PROVE t \in merged
        OBVIOUS
    <2>1. t \in all /\ Cardinality({s \in all : s > t}) < n
        BY DEF Latest
    <2>2. PICK source \in Sources : Listed(source, category) /\ t \in TimesOf(source)
        BY <2>1 DEF Entries
    <2>3. TimesOf(source) \subseteq all
        BY <2>2 DEF Entries
    <2> DEFINE Own == {s \in TimesOf(source) : s > t}
               Newer == {s \in all : s > t}
    <2>4. Own \subseteq Newer /\ Newer \in SUBSET (1..clock)
        BY <1>3, <2>3
    <2>5. Cardinality(Own) < n
        <3>1. Cardinality(Newer) < n
            BY <2>1
        <3> HIDE DEF Own, Newer
        <3>2. IsFiniteSet(1..clock)
            BY <1>3, FS_Interval
        <3>3. IsFiniteSet(Newer) /\ Cardinality(Newer) \in Nat
            BY <2>4, <3>2, FS_Subset, FS_CardinalityType
        <3>4. Cardinality(Own) \in Nat /\ Cardinality(Own) <= Cardinality(Newer)
            BY <2>4, <3>3, FS_Subset, FS_CardinalityType
        <3>5. QED
            BY <1>1, <3>1, <3>3, <3>4
    <2>6. t \in Latest(TimesOf(source), n)
        BY <2>2, <2>5 DEF Latest
    <2>7. QED
        BY <1>2, <2>2, <2>6
<1>6. Page(p, category) = Latest(merged, n) \ Latest(merged, (p - 1) * PageSize)
    BY DEF Page
<1> HIDE DEF all, n, merged
<1>7. Latest(merged, n) = Latest(all, n)
    BY <1>1, <1>3, <1>4, <1>5, LatestOfMerged
<1>8. Latest(merged, (p - 1) * PageSize) = Latest(all, (p - 1) * PageSize)
    BY <1>1, <1>3, <1>4, <1>5, LatestOfMerged
<1>9. QED
    BY <1>6, <1>7, <1>8 DEF all, n

LEMMA PagesAreTheList ==
    ASSUME InboxInv, NEW category
    PROVE  LET all == Entries(category)
               pages == 1 .. (MaxWindow \div PageSize)
           IN  /\ UNION {Page(p, category) : p \in pages} = Latest(all, PageSize * (MaxWindow \div PageSize))
               /\ \A p, q \in pages : p # q => Page(p, category) \cap Page(q, category) = {}
<1> DEFINE all == Entries(category)
           last == MaxWindow \div PageSize
           Newer(t) == Cardinality({s \in all : s > t})
<1>1. clock \in Nat /\ all \in SUBSET (1..clock)
    BY EntriesAreTicks DEF Entries
<1>2. ASSUME NEW t \in all PROVE Newer(t) \in Nat
    <2> DEFINE S == {s \in all : s > t}
    <2>1. S \in SUBSET (1..clock)
        BY <1>1
    <2> HIDE DEF S
    <2>2. IsFiniteSet(1..clock)
        BY <1>1, FS_Interval
    <2>3. Cardinality(S) \in Nat
        BY <2>1, <2>2, FS_Subset, FS_CardinalityType
    <2>4. QED
        BY <2>3 DEF S
<1>3. \A m, t : t \in Latest(all, m) <=> t \in all /\ Newer(t) < m
    BY DEF Latest
<1>4. \A p \in 1..last : \A t :
          t \in Page(p, category) <=> t \in all /\ Newer(t) < p * PageSize /\ ~ Newer(t) < (p - 1) * PageSize
    BY <1>3, PagesAreOfAll
<1>5. /\ last \in Nat /\ PageSize * last \in Nat
      /\ \A p \in 1..last : p * PageSize \in Nat /\ p * PageSize <= PageSize * last
      /\ \A n \in Nat : n < PageSize * last => \E p \in 1..last : n < p * PageSize /\ ~ n < (p - 1) * PageSize
      /\ \A p, q \in 1..last : p < q => p * PageSize <= (q - 1) * PageSize
    BY WholePages, InboxAssumption
<1> HIDE DEF all, last, Newer
<1>6. ASSUME NEW t PROVE (\E p \in 1..last : t \in Page(p, category)) <=> t \in Latest(all, PageSize * last)
    <2>1. CASE t \notin all
        BY <1>3, <1>4, <2>1
    <2>2. CASE t \in all
        <3>1. Newer(t) \in Nat
            BY <1>2, <2>2
        <3>2. ASSUME NEW p \in 1..last, Newer(t) < p * PageSize PROVE Newer(t) < PageSize * last
            BY <1>5, <3>1, <3>2
        <3>3. QED
            BY <1>3, <1>4, <1>5, <2>2, <3>1, <3>2
    <2>3. QED
        BY <2>1, <2>2
<1>7. ASSUME NEW p \in 1..last, NEW q \in 1..last, p < q, NEW t \in Page(p, category) PROVE t \notin Page(q, category)
    <2>1. p * PageSize \in Nat /\ p * PageSize <= (q - 1) * PageSize
        BY <1>5, <1>7
    <2>2. Newer(t) \in Nat /\ Newer(t) < p * PageSize
        BY <1>2, <1>4, <1>7
    <2>3. (q - 1) * PageSize \in Int
        BY <1>5, InboxAssumption
    <2>4. Newer(t) < (q - 1) * PageSize
        BY <2>1, <2>2, <2>3
    <2>5. QED
        BY <1>4, <2>4
<1>8. \A p, q \in 1..last : p # q => p < q \/ q < p
    BY <1>5
<1>9. QED
    BY <1>6, <1>7, <1>8 DEF all, last

(* The badge adds the sources and the subscription up. *)
LEMMA BadgeCounts ==
    ASSUME InboxInv
    PROVE  UnreadCount = Cardinality({t \in Entries("ALL") : t > readAt})
<1> DEFINE own == UNION {{t \in TimesOf(s) : t > readAt} : s \in Sources}
           all == {t \in Entries("ALL") : t > readAt}
           quiet == subscription.status = "PENDING" \/ (readAt # 0 /\ Stamped <= readAt)
<1>1. /\ clock \in Nat /\ own \in SUBSET (1..clock)
      /\ SubscriptionTimes = IF subscription.status = "PENDING" THEN {} ELSE {Stamped}
      /\ \A t \in SubscriptionTimes : t \in 1..clock /\ t \notin own
    BY EntriesAreTicks
<1>2. all = own \cup {t \in SubscriptionTimes : t > readAt}
    BY DEF Entries, Listed
<1>3. UnreadCount = Cardinality(own) + IF quiet THEN 0 ELSE 1
    BY DEF UnreadCount
<1>4. readAt \in Nat
    BY DEF InboxInv, InboxTables
<1> HIDE DEF own, all
<1>5. IsFiniteSet(own) /\ Cardinality(own) \in Nat
    <2>1. IsFiniteSet(1..clock)
        BY <1>1, FS_Interval
    <2>2. QED
        BY <1>1, <2>1, FS_Subset, FS_CardinalityType
<1>6. CASE quiet
    <2>1. {t \in SubscriptionTimes : t > readAt} = {}
        BY <1>1, <1>4, <1>6
    <2>2. all = own
        BY <1>2, <2>1
    <2>3. QED
        BY <1>3, <1>5, <1>6, <2>2 DEF all
<1>7. CASE ~ quiet
    <2>1. SubscriptionTimes = {Stamped} /\ Stamped > readAt /\ Stamped \notin own
        BY <1>1, <1>4, <1>7
    <2>2. all = own \cup {Stamped}
        BY <1>2, <2>1
    <2> HIDE DEF quiet
    <2>3. Cardinality(all) = Cardinality(own) + 1
        BY <1>5, <2>1, <2>2, FS_AddElement
    <2>4. QED
        BY <1>3, <1>7, <2>3 DEF all
<1>8. QED
    BY <1>6, <1>7

(* A tick writes one row, at a time no stamp has. *)
LEMMA TickStays ==
    ASSUME InboxTables, StampsTick, NEW source \in Sources \cup {"none"}, Tick(source)
    PROVE  /\ rows' \in Seq(Sources \cup {"none"}) /\ clock' = Len(rows') /\ clock \in Nat
           /\ clock' = clock + 1 /\ rows'[clock + 1] = source
           /\ \A f \in Stamps : subscription[f] # 0 =>
                  subscription[f] <= clock' /\ rows'[subscription[f]] = "none"
<1>1. clock \in Nat /\ rows \in Seq(Sources \cup {"none"}) /\ clock = Len(rows) /\ rows' = Append(rows, source)
    BY DEF InboxTables, Tick
<1>2. /\ rows' \in Seq(Sources \cup {"none"}) /\ clock' = Len(rows') /\ clock' = clock + 1
      /\ rows'[clock + 1] = source /\ \A t \in 1..clock : rows'[t] = rows[t]
    BY <1>1 DEF Tick
<1>3. ASSUME NEW f \in Stamps, subscription[f] # 0
      PROVE  subscription[f] <= clock' /\ rows'[subscription[f]] = "none"
    <2>1. subscription[f] \in Nat
        BY DEF InboxTables, Subscription, Stamps
    <2>2. subscription[f] <= clock /\ rows[subscription[f]] = "none"
        BY <1>3 DEF StampsTick
    <2>3. QED
        BY <1>1, <1>2, <1>3, <2>1, <2>2
<1>4. QED
    BY <1>1, <1>2, <1>3

LEMMA InboxGoes ==
    ASSUME InboxInv, NEW r \in Requests, NEW frame, Goto(r, frame),
           frame.at = "markAllRead" => frame.now \in Nat,
           UNCHANGED <<clock, rows, subscription>>, readAt' \in Nat
    PROVE  InboxInv'
<1>1. Tracked' /\ req'[r] = frame /\ \A q \in Requests \ {r} : req'[q] = req[q]
    BY GotoOK DEF InboxInv
<1>2. \A q \in Requests : At(q, "markAllRead")' => req'[q].now \in Nat
    BY <1>1 DEF InboxInv, At
<1>3. QED
    BY <1>1, <1>2 DEF InboxInv, InboxTables, StampsTick, StatusIsStamped, Stamped

LEMMA InboxRuns ==
    ASSUME InboxInv, NEW r \in Requests, InboxStep(r) \/ (Abort(r) /\ UNCHANGED inboxVars)
    PROVE  InboxInv'
<1>1. clock \in Nat /\ readAt \in Nat /\ (At(r, "markAllRead") => req[r].now \in Nat)
    BY DEF InboxInv, InboxTables
<1>2. CASE MarkAllRead(r)
    <2> DEFINE frame == [at |-> "markAllRead", now |-> clock]
    <2>1. Goto(r, frame) /\ UNCHANGED inboxVars /\ frame.now \in Nat
        BY <1>1, <1>2 DEF MarkAllRead, Begin
    <2> HIDE DEF frame
    <2>2. QED
        BY <1>1, <2>1, InboxGoes DEF inboxVars
<1>3. CASE WriteReadAt(r)
    <2>1. Goto(r, Idle) /\ Idle.at # "markAllRead" /\ UNCHANGED <<clock, rows, subscription>> /\ readAt' \in Nat
        BY <1>1, <1>3 DEF WriteReadAt, End, Idle
    <2>2. QED
        BY <2>1, InboxGoes
<1>4. CASE SendMessage(r)
    <2> DEFINE frame == [at |-> "alert", now |-> 0]
    <2>1. Goto(r, frame) /\ UNCHANGED <<clock, rows, subscription, readAt>> /\ frame.at # "markAllRead"
        BY <1>4 DEF SendMessage, Begin
    <2> HIDE DEF frame
    <2>2. QED
        BY <1>1, <2>1, InboxGoes
<1>5. CASE CreateAlert(r) \/ (Abort(r) /\ UNCHANGED inboxVars)
    <2>1. Goto(r, Idle) /\ Idle.at # "markAllRead" /\ UNCHANGED <<clock, rows, subscription, readAt>>
        BY <1>5 DEF CreateAlert, Abort, End, Idle, inboxVars
    <2>2. QED
        BY <1>1, <2>1, InboxGoes
<1>6. QED
    BY <1>2, <1>3, <1>4, <1>5 DEF InboxStep

LEMMA InboxIsWritten ==
    ASSUME InboxInv, InboxAlone
    PROVE  InboxInv'
<1>1. InboxTables /\ StampsTick /\ StatusIsStamped /\ Tracked
    BY DEF InboxInv
<1>2. req' = req /\ Tracked' /\ readAt' = readAt
    BY <1>1 DEF InboxAlone, NewRow, MoveSubscription, KitchenSend, OpenChat, ReadAlert, ReadAllAlerts, Instant, Tracked
<1>3. \A r \in Requests : At(r, "markAllRead")' => req'[r].now \in Nat
    BY <1>2 DEF InboxInv, At
<1>4. ASSUME NEW source \in Sources, Tick(source), UNCHANGED subscription PROVE InboxInv'
    <2>1. InboxTables' /\ StampsTick'
        BY <1>1, <1>2, <1>4, TickStays DEF InboxTables, StampsTick
    <2>2. StatusIsStamped'
        BY <1>1, <1>4 DEF StatusIsStamped, Stamped
    <2>3. QED
        BY <1>2, <1>3, <2>1, <2>2 DEF InboxInv
<1>5. ASSUME UNCHANGED <<clock, rows, subscription>> PROVE InboxInv'
    BY <1>1, <1>2, <1>3, <1>5 DEF InboxInv, InboxTables, StampsTick, StatusIsStamped, Stamped
<1>6. ASSUME NEW status \in DOMAIN StampOf, MoveSubscription(status) PROVE InboxInv'
    <2>1. Tick("none") /\ "none" \in Sources \cup {"none"}
        BY <1>6 DEF MoveSubscription
    <2>2. /\ rows' \in Seq(Sources \cup {"none"}) /\ clock' = Len(rows') /\ clock \in Nat
          /\ clock' = clock + 1 /\ rows'[clock + 1] = "none"
          /\ \A f \in Stamps : subscription[f] # 0 => subscription[f] <= clock' /\ rows'[subscription[f]] = "none"
        BY <1>1, <2>1, TickStays
    <2>3. status \in {"ACTIVE", "PAUSED", "CANCELLED", "REJECTED"} /\ subscription \in Subscription
        BY <1>1, <1>6 DEF StampOf, InboxTables
    <2> DEFINE now == clock + 1
               paused == IF status = "PAUSED" THEN now ELSE IF status = "ACTIVE" THEN 0 ELSE subscription.pausedAt
               approved == IF subscription.status = "PENDING" /\ status = "ACTIVE" THEN now
                           ELSE subscription.approvedAt
               cancelled == IF status = "CANCELLED" THEN now ELSE subscription.cancelledAt
    <2>12. subscription' = [subscription EXCEPT !.status = status, !.updatedAt = now, !.pausedAt = paused,
                                               !.approvedAt = approved, !.cancelledAt = cancelled]
        BY <1>6 DEF MoveSubscription
    <2>13. now \in Nat /\ paused \in Nat /\ approved \in Nat /\ cancelled \in Nat
        BY <2>2, <2>3 DEF Subscription
    <2>14. /\ subscription' \in Subscription /\ subscription'.status = status /\ subscription'.updatedAt = now
          /\ subscription'.pausedAt = paused /\ subscription'.approvedAt = approved
          /\ subscription'.cancelledAt = cancelled
        <3> HIDE DEF now, paused, approved, cancelled
        <3>1. QED
            BY <2>3, <2>12, <2>13 DEF Subscription
    <2>4. /\ subscription' \in Subscription /\ subscription'.status = status
          /\ subscription'.updatedAt = clock + 1
          /\ subscription'.pausedAt \in {0, clock + 1, subscription.pausedAt}
          /\ status = "PAUSED" => subscription'.pausedAt = clock + 1
          /\ subscription'.approvedAt \in {clock + 1, subscription.approvedAt}
          /\ subscription.status = "PENDING" /\ status = "ACTIVE" => subscription'.approvedAt = clock + 1
          /\ subscription.status # "PENDING" => subscription'.approvedAt = subscription.approvedAt
          /\ subscription'.cancelledAt \in {clock + 1, subscription.cancelledAt}
          /\ status = "CANCELLED" => subscription'.cancelledAt = clock + 1
        BY <2>14
    <2>5. \A f \in Stamps : subscription'[f] \in {0, clock + 1, subscription[f]}
        BY <2>4 DEF Stamps
    <2>6. InboxTables'
        BY <1>1, <1>2, <2>2, <2>4 DEF InboxTables
    <2>7. StampsTick'
        BY <2>2, <2>5 DEF StampsTick
    <2>8. status \in {"ACTIVE", "PAUSED"} => subscription'.approvedAt # 0
        BY <1>1, <1>6, <2>2, <2>4 DEF MoveSubscription, StatusIsStamped
    <2>9. Stamped' # 0
        BY <2>2, <2>3, <2>4, <2>8 DEF Stamped, StampOf
    <2>10. StatusIsStamped'
        BY <2>4, <2>8, <2>9 DEF StatusIsStamped
    <2>11. QED
        BY <1>2, <1>3, <2>6, <2>7, <2>10 DEF InboxInv
<1>7. CASE \E source \in Sources : NewRow(source)
    BY <1>4, <1>7 DEF NewRow
<1>8. CASE KitchenSend
    BY <1>4, <1>8 DEF KitchenSend, Sources
<1>9. QED
    BY <1>5, <1>6, <1>7, <1>8 DEF InboxAlone, OpenChat, ReadAlert, ReadAllAlerts

(* notifications.service.ts: however events, messages, wallet rows and moves of *)
(* the subscription interleave with the marker, the pages cut from windows of   *)
(* each source are those of one list of all, without gap or repetition, and the *)
(* badge counts what is newer than the marker.                                 *)
THEOREM PagesAreOneList == InboxSpec => []InboxIsOneList
<1>1. InboxInit /\ HandlersInit => InboxInv
    <2> SUFFICES ASSUME InboxInit, HandlersInit PROVE InboxInv
        OBVIOUS
    <2>1. Tracked /\ \A r \in Requests : ~At(r, "markAllRead")
        BY InitSerial DEF Serial, At
    <2>2. QED
        BY <2>1 DEF InboxInit, InboxInv, InboxTables, StampsTick, StatusIsStamped, Stamps, Subscription, StampOf
<1>2. InboxInv /\ [InboxNext]_<<inboxVars, handlerVars>> => InboxInv'
    <2> SUFFICES ASSUME InboxInv, [InboxNext]_<<inboxVars, handlerVars>> PROVE InboxInv'
        OBVIOUS
    <2>1. CASE UNCHANGED <<inboxVars, handlerVars>>
        BY <2>1 DEF inboxVars, handlerVars, InboxInv, InboxTables, StampsTick, StatusIsStamped, Stamped, Tracked, At
    <2>2. QED
        BY <2>1, InboxRuns, InboxIsWritten DEF InboxNext
<1>3. InboxInv => InboxIsOneList
    BY PagesAreTheList, BadgeCounts DEF InboxIsOneList
<1>4. QED
    BY <1>1, <1>2, <1>3, PTL DEF InboxSpec

-----------------------------------------------------------------------------
(* Listings.  While nothing changes, a page is a slice of an ordering of all   *)
(* that matches, and as long as its total says.                                *)

(* Of two numbers. *)
LEMMA OfTwo ==
    ASSUME NEW a \in Int, NEW b \in Int
    PROVE  Min({a, b}) = (IF a <= b THEN a ELSE b) /\ Max({a, b}) = (IF a <= b THEN b ELSE a)
<1>1. \E x \in {a, b} : \A y \in {a, b} : x <= y
    OBVIOUS
<1>2. \E x \in {a, b} : \A y \in {a, b} : x >= y
    OBVIOUS
<1>3. QED
    BY <1>1, <1>2 DEF Min, Max

PageLen(total, page) ==
    IF total <= ToSkip(page) THEN 0 ELSE IF total - ToSkip(page) <= Limit THEN total - ToSkip(page) ELSE Limit

LEMMA SkipsAreNumbers ==
    ASSUME NEW page \in Nat \ {0}
    PROVE  ToSkip(page) \in Nat /\ Limit \in Nat /\ Limit > 0
<1>1. Limit \in Nat \ {0} /\ page - 1 \in Nat
    BY ListingsAssumption
<1>2. (page - 1) * Limit \in Nat
    BY <1>1, PageOfPlace
<1>3. QED
    BY <1>1, <1>2 DEF ToSkip

LEMMA PageLengths ==
    ASSUME NEW total \in Nat, NEW page \in Nat \ {0}
    PROVE  /\ PageLen(total, page) \in Nat
           /\ Max({0, Min({Limit, total - ToSkip(page)})}) = PageLen(total, page)
<1> DEFINE rest == total - ToSkip(page)
           len == Min({Limit, rest})
<1>1. ToSkip(page) \in Nat /\ Limit \in Nat
    BY SkipsAreNumbers
<1>2. rest \in Int /\ Limit \in Int
    BY <1>1
<1>3. len = IF Limit <= rest THEN Limit ELSE rest
    <2> HIDE DEF rest
    <2>1. QED
        BY <1>2, OfTwo
<1>4. len \in Int
    <2> HIDE DEF len, rest
    <2>1. QED
        BY <1>2, <1>3
<1>5. Max({0, len}) = IF 0 <= len THEN len ELSE 0
    <2> HIDE DEF len
    <2>1. QED
        BY <1>4, OfTwo
<1>6. (IF 0 <= len THEN len ELSE 0) = PageLen(total, page) /\ PageLen(total, page) \in Nat
    <2> HIDE DEF len
    <2>1. QED
        BY <1>1, <1>3 DEF PageLen
<1>7. QED
    BY <1>5, <1>6

LEMMA PageIsCut ==
    ASSUME NEW S, NEW list \in Seq(S), NEW page \in Nat \ {0}
    PROVE  /\ PageOf(list, page) \in Seq(S)
           /\ Len(PageOf(list, page)) = PageLen(Len(list), page)
           /\ \A i \in 1..PageLen(Len(list), page) : PageOf(list, page)[i] = list[ToSkip(page) + i]
<1> DEFINE skip == ToSkip(page)
           to == IF skip + Limit <= Len(list) THEN skip + Limit ELSE Len(list)
<1>1. skip \in Nat /\ Limit \in Nat /\ Len(list) \in Nat
    BY SkipsAreNumbers
<1>2. Min({skip + Limit, Len(list)}) = to
    BY <1>1, OfTwo
<1>3. PageOf(list, page) = SubSeq(list, skip + 1, to)
    BY <1>2 DEF PageOf, Take
<1>4. PageLen(Len(list), page) = IF skip + 1 <= to THEN to - (skip + 1) + 1 ELSE 0
    BY <1>1 DEF PageLen
<1>5. to \in Int /\ skip + 1 \in Int /\ \A i \in (skip + 1)..to : list[i] \in S
    BY <1>1
<1> HIDE DEF skip, to
<1>6. /\ SubSeq(list, skip + 1, to) \in Seq(S)
      /\ Len(SubSeq(list, skip + 1, to)) = IF skip + 1 <= to THEN to - (skip + 1) + 1 ELSE 0
      /\ \A i \in 1..(to - (skip + 1) + 1) : SubSeq(list, skip + 1, to)[i] = list[(skip + 1) + i - 1]
    BY <1>5, SubSeqProperties
<1>7. ASSUME NEW i \in 1..PageLen(Len(list), page)
      PROVE  PageOf(list, page)[i] = list[skip + i]
    <2>1. i \in Int /\ (skip + 1) + i - 1 = skip + i /\ i \in 1..(to - (skip + 1) + 1)
        BY <1>1, <1>4, <1>5
    <2>2. QED
        BY <1>3, <1>6, <2>1
<1>8. PageOf(list, page) \in Seq(S) /\ Len(PageOf(list, page)) = PageLen(Len(list), page)
    BY <1>3, <1>4, <1>6
<1>9. QED
    BY <1>7, <1>8 DEF skip

(* As many places as there are values, where none is given twice.              *)
LEMMA ImageCount ==
    ASSUME NEW f, NEW n \in Nat, \A i, j \in 1..n : i # j => f[i] # f[j]
    PROVE  IsFiniteSet({f[i] : i \in 1..n}) /\ Cardinality({f[i] : i \in 1..n}) = n
<1> DEFINE image(m) == {f[i] : i \in 1..m}
           counted(m) == IsFiniteSet(image(m)) /\ Cardinality(image(m)) = m
           N == {m \in Nat : m <= n => counted(m)}
<1>1. 0 \in N
    <2>1. image(0) = {}
        OBVIOUS
    <2>2. QED
        BY <2>1, FS_EmptySet
<1>2. ASSUME NEW m \in N PROVE m + 1 \in N
    <2> SUFFICES ASSUME m + 1 <= n PROVE counted(m + 1)
        OBVIOUS
    <2>1. m \in Nat /\ counted(m)
        OBVIOUS
    <2>2. image(m + 1) = image(m) \cup {f[m + 1]}
        BY <2>1
    <2>3. f[m + 1] \notin image(m)
        BY <2>1
    <2>4. PICK T : T = image(m)
        OBVIOUS
    <2>5. IsFiniteSet(T) /\ Cardinality(T) = m /\ f[m + 1] \notin T
        BY <2>1, <2>3, <2>4
    <2>6. IsFiniteSet(T \cup {f[m + 1]}) /\ Cardinality(T \cup {f[m + 1]}) = m + 1
        BY <2>5, FS_AddElement
    <2>7. QED
        BY <2>2, <2>4, <2>6
<1>3. N = Nat
    <2>1. N \in SUBSET Nat
        OBVIOUS
    <2> HIDE DEF N
    <2>2. QED
        BY <1>1, <1>2, <2>1, NatSets
<1>4. QED
    BY <1>3

LEMMA OrderingsAre ==
    ASSUME NEW S, IsFiniteSet(S), NEW list \in Orderings(S)
    PROVE  /\ list \in Seq(S) /\ Len(list) = Cardinality(S) /\ Cardinality(S) \in Nat
           /\ ToSet(list) = S
           /\ \A i, j \in 1..Len(list) : i # j => list[i] # list[j]
           /\ \A i, j \in 1..Len(list) : i < j => Precedes(list[i], list[j])
<1> DEFINE n == Cardinality(S)
<1>1. n \in Nat
    BY FS_CardinalityType
<1>2. /\ list \in [1..n -> S] /\ \A i, j \in 1..n : i # j => list[i] # list[j]
      /\ \A i, j \in DOMAIN list : i < j => Precedes(list[i], list[j])
    BY DEF Orderings, SetToSeqs
<1> HIDE DEF n
<1>3. list \in Seq(S) /\ Len(list) = n /\ DOMAIN list = 1..n
    BY <1>1, <1>2
<1>4. {list[i] : i \in 1..n} = S
    <2> DEFINE T == {list[i] : i \in 1..n}
    <2>1. Cardinality(T) = n
        BY <1>1, <1>2, ImageCount
    <2>2. T \in SUBSET S
        BY <1>2
    <2> HIDE DEF T
    <2>3. T = S
        BY <2>1, <2>2, FS_Subset DEF n
    <2>4. QED
        BY <2>3 DEF T
<1>5. QED
    BY <1>1, <1>2, <1>3, <1>4 DEF ToSet, n

PageRow == [rows : Seq(Catalogue), total : Nat, hasNextPage : BOOLEAN]

ListingTables ==
    /\ shelf \in [Catalogue -> {"hidden", "out", "in"}] /\ changes \in Nat
    /\ query \in [listing : {"all", "openOnly", "nearby"}, rank : Ranks]
    /\ scroll \in Seq(PageRow)

Boxed == query.listing = "nearby" => Cardinality(Visible) <= TakeFloor

Before(m) == Cardinality({n \in Matching \ {m} : Precedes(n, m)})

Share(page) == {m \in Matching : ToSkip(page) <= Before(m) /\ Before(m) < ToSkip(page) + Limit}

LEMMA RowsAreFew ==
    ASSUME ListingTables
    PROVE  /\ Visible \subseteq Catalogue /\ IsFiniteSet(Visible) /\ Cardinality(Visible) \in Nat
           /\ Matching \subseteq Visible /\ IsFiniteSet(Matching) /\ Cardinality(Matching) \in Nat
           /\ query.listing = "all" => Matching = Visible
           /\ \A page : Fetched(page) \subseteq Visible
           /\ \A m \in Catalogue : m \in Int /\ query.rank[m] \in Int
<1>1. Visible \subseteq Catalogue /\ Matching \subseteq Visible /\ IsFiniteSet(Catalogue)
    BY ListingsAssumption DEF Visible, Matching
<1>2. query.listing = "all" => Matching = Visible
    BY DEF Matching, Passes
<1>3. \A page : Fetched(page) \subseteq Visible
    BY DEF Fetched
<1>4. \A m \in Catalogue : m \in Int /\ query.rank[m] \in Int
    BY ListingsAssumption DEF ListingTables
<1>5. IsFiniteSet(Visible) /\ IsFiniteSet(Matching)
    BY <1>1, FS_Subset
<1>6. QED
    BY <1>1, <1>2, <1>3, <1>4, <1>5, FS_CardinalityType

(* If the box holds no more than are fetched, all that match are found. *)
LEMMA BoxIsFetched ==
    ASSUME ListingTables, Boxed, NEW page \in Nat \ {0}
    PROVE  {m \in Fetched(page) : Passes(m)} = Matching
<1>1. CASE query.listing # "nearby"
    BY <1>1 DEF Fetched, Matching
<1>2. CASE query.listing = "nearby"
    <2> DEFINE wide == (page + 2) * Limit
               take == Max({wide, TakeFloor})
    <2>1. Limit \in Nat /\ TakeFloor \in Nat /\ wide \in Int
        <3>1. Limit \in Nat \ {0} /\ TakeFloor \in Nat /\ page + 2 \in Nat
            BY ListingsAssumption
        <3>2. wide \in Nat
            BY <3>1, PageOfPlace
        <3> HIDE DEF wide
        <3>3. QED
            BY <3>1, <3>2
    <2>2. take \in Int /\ TakeFloor <= take
        <3>1. wide \in Int /\ TakeFloor \in Int
            BY <2>1
        <3> HIDE DEF wide
        <3>2. Max({wide, TakeFloor}) = IF wide <= TakeFloor THEN TakeFloor ELSE wide
            BY <3>1, OfTwo
        <3>3. QED
            BY <3>1, <3>2
    <2> HIDE DEF take
    <2>3. ASSUME NEW m \in Visible PROVE Cardinality({n \in Visible : Precedes(n, m)}) < take
        <3> DEFINE nearer == {n \in Visible : Precedes(n, m)}
        <3>1. m \notin nearer
            BY <1>2, RowsAreFew DEF Precedes
        <3>2. nearer \in SUBSET Visible /\ nearer # Visible
            BY <2>3, <3>1
        <3> HIDE DEF nearer
        <3>3. IsFiniteSet(nearer) /\ Cardinality(nearer) <= Cardinality(Visible)
              /\ Cardinality(nearer) # Cardinality(Visible)
            BY <3>2, RowsAreFew, FS_Subset
        <3>4. Cardinality(nearer) \in Nat /\ Cardinality(Visible) \in Nat
            BY <3>3, RowsAreFew, FS_CardinalityType
        <3>5. Cardinality(nearer) < take
            BY <1>2, <2>1, <2>2, <3>3, <3>4 DEF Boxed
        <3>6. QED
            BY <3>5 DEF nearer
    <2>4. Fetched(page) = Visible
        BY <1>2, <2>3 DEF Fetched, take
    <2>5. QED
        BY <2>4 DEF Matching
<1>3. QED
    BY <1>1, <1>2

(* Where no two rows tie, a row's place is the number of those before it. *)
LEMMA PlacesAreCounts ==
    ASSUME ListingTables, Unambiguous, NEW list \in Orderings(Matching), NEW i \in 1..Len(list)
    PROVE  Before(list[i]) = i - 1
<1>1. /\ list \in Seq(Matching) /\ Len(list) \in Nat /\ ToSet(list) = Matching
      /\ \A j, k \in 1..Len(list) : j # k => list[j] # list[k]
      /\ \A j, k \in 1..Len(list) : j < k => Precedes(list[j], list[k])
    BY RowsAreFew, OrderingsAre
<1>2. ASSUME NEW m \in Matching, NEW n \in Matching, m # n, Precedes(m, n) PROVE ~ Precedes(n, m)
    <2>1. m \in Int /\ n \in Int /\ query.rank[m] \in Int /\ query.rank[n] \in Int
        BY RowsAreFew
    <2>2. query.listing = "nearby" \/ query.rank[m] # query.rank[n]
        BY <1>2 DEF Unambiguous
    <2>3. QED
        BY <1>2, <2>1, <2>2 DEF Precedes
<1> DEFINE m == list[i]
           first == {n \in Matching \ {m} : Precedes(n, m)}
           places == {list[j] : j \in 1..(i - 1)}
<1>3. first = places
    <2>1. ASSUME NEW n \in first PROVE n \in places
        <3>1. PICK j \in 1..Len(list) : n = list[j]
            BY <1>1 DEF ToSet
        <3>2. j # i /\ ~ (i < j)
            BY <1>1, <1>2, <3>1
        <3>3. j \in 1..(i - 1)
            BY <1>1, <3>2
        <3>4. QED
            BY <3>1, <3>3
    <2>2. ASSUME NEW j \in 1..(i - 1) PROVE list[j] \in first
        <3>1. j \in 1..Len(list) /\ j < i
            BY <1>1
        <3>2. QED
            BY <1>1, <3>1
    <2>3. QED
        BY <2>1, <2>2
<1>4. i - 1 \in Nat /\ \A j, k \in 1..(i - 1) : j # k => list[j] # list[k]
    BY <1>1
<1>5. Cardinality(places) = i - 1
    BY <1>4, ImageCount
<1>6. QED
    BY <1>3, <1>5 DEF Before

LEMMA PagesAreShares ==
    ASSUME ListingTables, Unambiguous, NEW list \in Orderings(Matching), NEW page \in Nat \ {0}
    PROVE  ToSet(PageOf(list, page)) = Share(page)
<1> DEFINE found == PageOf(list, page)
           skip == ToSkip(page)
           len == PageLen(Len(list), page)
<1>1. list \in Seq(Matching) /\ Len(list) \in Nat /\ ToSet(list) = Matching
    BY RowsAreFew, OrderingsAre
<1>2. found \in Seq(Matching) /\ Len(found) = len /\ \A i \in 1..len : found[i] = list[skip + i]
    BY <1>1, PageIsCut
<1>3. skip \in Nat /\ Limit \in Nat
    BY SkipsAreNumbers
<1>4. \A i \in 1..Len(list) : Before(list[i]) = i - 1
    BY PlacesAreCounts
<1>5. len = (IF Len(list) <= skip THEN 0 ELSE IF Len(list) - skip <= Limit THEN Len(list) - skip ELSE Limit)
    BY DEF PageLen
<1> HIDE DEF found, skip, len
<1>6. ASSUME NEW m \in ToSet(found) PROVE m \in Share(page)
    <2>1. PICK i \in 1..len : m = found[i]
        BY <1>2 DEF ToSet
    <2>2. m = list[skip + i] /\ skip + i \in 1..Len(list) /\ i <= Limit
        BY <1>1, <1>2, <1>3, <1>5, <2>1
    <2>3. Before(m) = skip + i - 1 /\ m \in Matching
        <3>1. PICK k : k = skip + i
            OBVIOUS
        <3>2. k \in 1..Len(list) /\ m = list[k]
            BY <2>2, <3>1
        <3>3. Before(m) = k - 1 /\ m \in Matching
            BY <1>1, <1>4, <3>2
        <3>4. k - 1 = skip + i - 1
            <4>1. len \in Int
                BY <1>1, <1>3, <1>5
            <4>2. i \in Int /\ skip \in Int
                BY <1>3, <2>1, <4>1
            <4>3. QED
                BY <3>1, <4>2
        <3>5. QED
            BY <3>3, <3>4
    <2>4. QED
        BY <1>3, <2>1, <2>2, <2>3 DEF Share, skip
<1>7. ASSUME NEW m \in Share(page) PROVE m \in ToSet(found)
    <2>1. PICK k \in 1..Len(list) : m = list[k]
        BY <1>1 DEF Share, ToSet
    <2>2. skip <= k - 1 /\ k - 1 < skip + Limit
        BY <1>4, <2>1 DEF Share, skip
    <2>3. k - skip \in 1..len /\ skip + (k - skip) = k
        BY <1>1, <1>3, <1>5, <2>2
    <2>4. m = found[k - skip]
        BY <1>2, <2>1, <2>3
    <2>5. QED
        BY <1>2, <2>3, <2>4 DEF ToSet
<1>8. QED
    BY <1>6, <1>7 DEF found

(* What a page is when it is complete, and what each of its two queries has    *)
(* brought until then.                                                         *)
Slice(found, page) ==
    /\ Len(found) = PageLen(Cardinality(Matching), page)
    /\ Unambiguous => ToSet(found) = Share(page)

Truthful(found, total, page) ==
    /\ query.listing # "all" => Len(found) = PageLen(total, page)
    /\ changes = 0 /\ Boxed => total = Cardinality(Matching) /\ Slice(found, page)

BrowseRow == [at : {"query"}, page : Nat \ {0}, rows : Seq(Catalogue), total : Nat,
              await : SUBSET {"findMany", "count"}]

BrowseFrame(f) ==
    \/ f = Idle
    \/ /\ f \in BrowseRow
       /\ f.page = Len(scroll) + 1 /\ ~Scrolled
       /\ "count" \in f.await => query.listing = "all"
       /\ "findMany" \notin f.await =>
             /\ query.listing # "all" => Truthful(f.rows, f.total, f.page)
             /\ changes = 0 /\ Boxed => Slice(f.rows, f.page)
       /\ query.listing = "all" /\ "count" \notin f.await /\ changes = 0 => f.total = Cardinality(Matching)

ScrollOK ==
    \A p \in DOMAIN scroll :
        /\ Truthful(scroll[p].rows, scroll[p].total, p)
        /\ scroll[p].hasNextPage = HasNextPage(p, scroll[p].total)
        /\ p < Len(scroll) => scroll[p].hasNextPage

ListingsInv ==
    /\ Tracked /\ OneByOne /\ ListingTables /\ ScrollOK
    /\ \A r \in Requests : BrowseFrame(req[r])

LEMMA BrowseGoes ==
    ASSUME ListingsInv, NEW r \in Requests, NEW frame, Goto(r, frame),
           ~At(r, "idle") \/ InFlight = {}, ListingTables', ScrollOK', BrowseFrame(frame)'
    PROVE  ListingsInv'
<1>1. /\ Tracked' /\ OneByOne
      /\ req'[r] = frame /\ \A q \in Requests \ {r} : req'[q] = req[q]
    BY GotoOK DEF ListingsInv
<1>2. ASSUME NEW q \in Requests \ {r} PROVE req'[q] = Idle
    <2>1. At(q, "idle")
        BY <1>1, <1>2 DEF OneByOne, InFlight
    <2>2. req[q] = Idle
        BY <2>1 DEF ListingsInv, BrowseFrame, BrowseRow, At
    <2>3. QED
        BY <1>1, <2>2
<1>3. InFlight' \subseteq {r}
    BY <1>2 DEF InFlight, At, Idle
<1>4. \A q \in Requests : BrowseFrame(req[q])'
    <2> SUFFICES ASSUME NEW q \in Requests PROVE BrowseFrame(req[q])'
        OBVIOUS
    <2>1. CASE q = r
        <3>1. req'[q] = frame
            BY <1>1, <2>1
        <3>2. QED
            BY <3>1
    <2>2. CASE q # r
        BY <1>2, <2>2 DEF BrowseFrame
    <2>3. QED
        BY <2>1, <2>2
<1>5. QED
    BY <1>1, <1>3, <1>4 DEF ListingsInv, OneByOne

LEMMA ListingStays ==
    ASSUME ListingTables, ScrollOK, UNCHANGED listingVars
    PROVE  ListingTables' /\ ScrollOK' /\ \A f : BrowseFrame(f) => BrowseFrame(f)'
<1>1. shelf' = shelf /\ query' = query /\ scroll' = scroll /\ changes' = changes
    BY DEF listingVars
<1>2. Visible' = Visible /\ Matching' = Matching /\ Boxed' = Boxed /\ Unambiguous' = Unambiguous
    BY <1>1 DEF Visible, Matching, Passes, Boxed, Unambiguous
<1>3. \A page : Share(page)' = Share(page)
    BY <1>1, <1>2 DEF Share, Before, Precedes
<1>4. \A found, total, page : Truthful(found, total, page)' = Truthful(found, total, page)
                             /\ Slice(found, page)' = Slice(found, page)
    BY <1>1, <1>2, <1>3 DEF Truthful, Slice
<1>5. ListingTables' /\ ScrollOK'
    BY <1>1, <1>4 DEF ListingTables, ScrollOK
<1>6. ASSUME NEW f, BrowseFrame(f) PROVE BrowseFrame(f)'
    BY <1>1, <1>2, <1>4, <1>6 DEF BrowseFrame, Scrolled
<1>7. QED
    BY <1>5, <1>6

(* The query that finds the rows. *)
LEMMA RowsAreFound ==
    ASSUME ListingTables, NEW page \in Nat \ {0},
           NEW list \in Orderings({m \in Fetched(page) : Passes(m)})
    PROVE  LET found == PageOf(list, page)
           IN  /\ found \in Seq(Catalogue) /\ Len(list) \in Nat
               /\ Len(found) = PageLen(Len(list), page)
               /\ Boxed => Len(list) = Cardinality(Matching) /\ Slice(found, page)
<1> DEFINE S == {m \in Fetched(page) : Passes(m)}
           found == PageOf(list, page)
<1>1. S \in SUBSET Visible /\ Visible \subseteq Catalogue /\ IsFiniteSet(Visible)
    BY RowsAreFew
<1>2. IsFiniteSet(S)
    <2> HIDE DEF S
    <2>1. QED
        BY <1>1, FS_Subset
<1>3. list \in Seq(S) /\ Len(list) = Cardinality(S) /\ Cardinality(S) \in Nat
    <2>1. list \in Orderings(S)
        OBVIOUS
    <2> HIDE DEF S
    <2>2. QED
        BY <1>2, <2>1, OrderingsAre
<1>4. found \in Seq(S) /\ Len(found) = PageLen(Len(list), page)
    <2> HIDE DEF S
    <2>1. QED
        BY <1>3, PageIsCut
<1>5. found \in Seq(Catalogue)
    <2> HIDE DEF S, found
    <2>1. QED
        BY <1>1, <1>4
<1>6. ASSUME Boxed PROVE Len(list) = Cardinality(Matching) /\ Slice(found, page)
    <2>1. S = Matching
        BY <1>6, BoxIsFetched
    <2>2. list \in Orderings(Matching)
        BY <2>1
    <2>3. Unambiguous => ToSet(found) = Share(page)
        BY <2>2, PagesAreShares
    <2> HIDE DEF S, found
    <2>4. QED
        BY <1>3, <1>4, <2>1, <2>3 DEF Slice
<1>7. QED
    BY <1>3, <1>4, <1>5, <1>6

LEMMA BrowseRuns ==
    ASSUME ListingsInv, NEW r \in Requests, ListingsStep(r) \/ (Abort(r) /\ UNCHANGED listingVars)
    PROVE  ListingsInv'
<1> DEFINE f == req[r]
<1>1. ListingTables /\ ScrollOK /\ BrowseFrame(f) /\ Len(scroll) \in Nat
    BY DEF ListingsInv, ListingTables
<1>2. ASSUME UNCHANGED listingVars, NEW frame, Goto(r, frame), ~At(r, "idle") \/ InFlight = {}, BrowseFrame(frame)
      PROVE  ListingsInv'
    BY <1>1, <1>2, ListingStays, BrowseGoes
<1>3. CASE Abort(r) /\ UNCHANGED listingVars
    BY <1>2, <1>3 DEF Abort, End, BrowseFrame
<1>4. CASE BrowseNext(r)
    <2> DEFINE frame == [at |-> "query", page |-> Len(scroll) + 1, rows |-> <<>>, total |-> 0,
                         await |-> IF query.listing = "all" THEN {"findMany", "count"} ELSE {"findMany"}]
    <2>1. Goto(r, frame) /\ InFlight = {} /\ UNCHANGED listingVars /\ ~Scrolled
        BY <1>4 DEF BrowseNext, Begin
    <2>2. frame \in BrowseRow
        BY <1>1 DEF BrowseRow
    <2>3. BrowseFrame(frame)
        BY <2>1, <2>2 DEF BrowseFrame
    <2> HIDE DEF frame
    <2>4. QED
        BY <1>2, <2>1, <2>3
<1>5. ASSUME At(r, "query")
      PROVE  /\ f \in BrowseRow /\ f.page = Len(scroll) + 1 /\ ~Scrolled /\ ~At(r, "idle")
             /\ f.page \in Nat \ {0} /\ f.total \in Nat /\ f.await \subseteq {"findMany", "count"}
    BY <1>1, <1>5 DEF BrowseFrame, BrowseRow, Idle, At
<1>6. CASE Count(r)
    <2> DEFINE frame == [f EXCEPT !.total = Cardinality(Visible), !.await = @ \ {"count"}]
    <2>1. At(r, "query") /\ "count" \in f.await /\ Goto(r, frame) /\ UNCHANGED listingVars
        BY <1>6 DEF Count, Arrive
    <2>2. query.listing = "all"
        BY <1>1, <2>1 DEF BrowseFrame, Idle, At
    <2>3. Cardinality(Visible) \in Nat /\ Cardinality(Matching) = Cardinality(Visible)
        BY <1>1, <2>2, RowsAreFew
    <2>4. /\ frame \in BrowseRow /\ frame.page = f.page /\ frame.rows = f.rows
          /\ frame.total = Cardinality(Visible) /\ frame.await = f.await \ {"count"}
        BY <1>5, <2>1, <2>3 DEF BrowseRow
    <2>5. BrowseFrame(frame)
        BY <1>1, <1>5, <2>1, <2>2, <2>3, <2>4 DEF BrowseFrame, Idle, At
    <2> HIDE DEF frame
    <2>6. QED
        BY <1>2, <1>5, <2>1, <2>5
<1>7. CASE FindMany(r)
    <2>1. At(r, "query")
        BY <1>7 DEF FindMany
    <2>2. PICK list \in Orderings({m \in Fetched(f.page) : Passes(m)}) :
              Arrive(r, "findMany", [f EXCEPT !.rows = PageOf(list, f.page),
                                              !.total = IF query.listing = "all" THEN @ ELSE Len(list)])
        BY <1>7 DEF FindMany
    <2> DEFINE found == PageOf(list, f.page)
               total == IF query.listing = "all" THEN f.total ELSE Len(list)
               frame == [f EXCEPT !.rows = found, !.total = total, !.await = @ \ {"findMany"}]
    <2>3. "findMany" \in f.await /\ Goto(r, frame) /\ UNCHANGED listingVars
        BY <2>2, <1>5, <2>1 DEF Arrive, BrowseRow
    <2>4. /\ found \in Seq(Catalogue) /\ Len(list) \in Nat /\ Len(found) = PageLen(Len(list), f.page)
          /\ Boxed => Len(list) = Cardinality(Matching) /\ Slice(found, f.page)
        BY <1>1, <1>5, <2>1, <2>2, RowsAreFound
    <2>5. total \in Nat
        BY <1>5, <2>1, <2>4
    <2> HIDE DEF found, total
    <2>6. /\ frame \in BrowseRow /\ frame.page = f.page /\ frame.rows = found
          /\ frame.total = total /\ frame.await = f.await \ {"findMany"}
        BY <1>5, <2>1, <2>4, <2>5 DEF BrowseRow
    <2> HIDE DEF frame
    <2>7. /\ query.listing # "all" => Truthful(found, total, f.page)
          /\ changes = 0 /\ Boxed => Slice(found, f.page)
        BY <2>4 DEF Truthful, total
    <2>8. query.listing = "all" => total = f.total
        BY DEF total
    <2>9. BrowseFrame(frame)
        BY <1>1, <1>5, <2>1, <2>6, <2>7, <2>8 DEF BrowseFrame, Idle, At
    <2>10. QED
        BY <1>2, <1>5, <2>1, <2>3, <2>9
<1>8. CASE Paginate(r)
    <2> DEFINE row == [rows |-> f.rows, total |-> f.total, hasNextPage |-> HasNextPage(f.page, f.total)]
    <2>1. /\ At(r, "query") /\ f.await = {} /\ scroll' = Append(scroll, row) /\ Goto(r, Idle)
          /\ shelf' = shelf /\ query' = query /\ changes' = changes
        BY <1>8 DEF Paginate, End
    <2>2. row \in PageRow
        BY <1>5, <2>1 DEF PageRow, BrowseRow, HasNextPage
    <2>3. Truthful(f.rows, f.total, f.page)
        BY <1>1, <2>1 DEF BrowseFrame, Idle, At, Truthful, Boxed
    <2>4. \A q \in DOMAIN scroll : scroll[q].hasNextPage
        <3>1. scroll # <<>> => Last(scroll).hasNextPage
            BY <1>5, <2>1 DEF Scrolled
        <3>2. \A q \in DOMAIN scroll : q = Len(scroll) \/ q < Len(scroll)
            BY <1>1 DEF ListingTables
        <3>3. QED
            BY <1>1, <3>1, <3>2 DEF ScrollOK, Last, ListingTables
    <2> HIDE DEF row
    <2>5. /\ scroll' \in Seq(PageRow) /\ Len(scroll') = Len(scroll) + 1
          /\ DOMAIN scroll' = 1..(Len(scroll) + 1) /\ DOMAIN scroll = 1..Len(scroll)
          /\ scroll'[Len(scroll) + 1] = row /\ \A q \in DOMAIN scroll : scroll'[q] = scroll[q]
        BY <1>1, <2>1, <2>2 DEF ListingTables
    <2>6. ListingTables'
        BY <1>1, <2>1, <2>5 DEF ListingTables
    <2>7. \A found, total, page : Truthful(found, total, page)' = Truthful(found, total, page)
        <3>1. Visible' = Visible /\ Matching' = Matching /\ Boxed' = Boxed /\ Unambiguous' = Unambiguous
            BY <2>1 DEF Visible, Matching, Passes, Boxed, Unambiguous
        <3>2. \A page : Share(page)' = Share(page)
            BY <2>1, <3>1 DEF Share, Before, Precedes
        <3>3. QED
            BY <2>1, <3>1, <3>2 DEF Truthful, Slice
    <2>8. /\ Truthful(row.rows, row.total, Len(scroll) + 1)
          /\ row.hasNextPage = HasNextPage(Len(scroll) + 1, row.total)
        BY <1>5, <2>1, <2>3 DEF row
    <2>9. ASSUME NEW q \in DOMAIN scroll'
          PROVE  /\ Truthful(scroll[q].rows, scroll[q].total, q)'
                 /\ (scroll[q].hasNextPage = HasNextPage(q, scroll[q].total))'
                 /\ (q < Len(scroll) => scroll[q].hasNextPage)'
        <3>1. PICK e : e = scroll'[q]
            OBVIOUS
        <3>2. Truthful(e.rows, e.total, q) /\ e.hasNextPage = HasNextPage(q, e.total)
              /\ (q < Len(scroll') => e.hasNextPage)
            <4>1. CASE q = Len(scroll) + 1
                BY <1>1, <2>5, <2>8, <3>1, <4>1
            <4>2. CASE q \in DOMAIN scroll
                BY <1>1, <2>4, <2>5, <3>1, <4>2 DEF ScrollOK
            <4>3. QED
                BY <1>1, <2>5, <4>1, <4>2
        <3>3. Truthful(e.rows, e.total, q)'
            BY <2>7, <3>2
        <3>4. (scroll[q].hasNextPage = HasNextPage(q, scroll[q].total))'
            BY <3>1, <3>2 DEF HasNextPage
        <3>5. Truthful(scroll[q].rows, scroll[q].total, q)'
            BY <3>1, <3>3 DEF Truthful, Slice
        <3>6. QED
            BY <3>1, <3>2, <3>4, <3>5
    <2>10. ScrollOK'
        BY <2>9 DEF ScrollOK
    <2>11. QED
        BY <1>5, <2>1, <2>6, <2>10, BrowseGoes DEF BrowseFrame
<1>9. QED
    BY <1>3, <1>4, <1>6, <1>7, <1>8 DEF ListingsStep

LEMMA RowsChange ==
    ASSUME ListingsInv, NEW m \in Catalogue, NEW to \in {"hidden", "out", "in"}, ChangeRow(m, to)
    PROVE  ListingsInv'
<1>1. /\ req' = req /\ shelf' = [shelf EXCEPT ![m] = to] /\ changes' = changes + 1
      /\ query' = query /\ scroll' = scroll /\ overlapped' \in BOOLEAN
    BY DEF ChangeRow, Instant, ListingsInv, Tracked
<1>2. Tracked' /\ OneByOne'
    BY <1>1 DEF ListingsInv, Tracked, OneByOne, InFlight, At
<1>3. ListingTables' /\ changes' # 0
    BY <1>1 DEF ListingsInv, ListingTables
<1>4. ScrollOK'
    BY <1>1, <1>3 DEF ListingsInv, ScrollOK, Truthful
<1>5. ASSUME NEW f, BrowseFrame(f) PROVE BrowseFrame(f)'
    BY <1>1, <1>3, <1>5 DEF BrowseFrame, Scrolled, Truthful
<1>6. \A q \in Requests : BrowseFrame(req[q])'
    <2> SUFFICES ASSUME NEW q \in Requests PROVE BrowseFrame(req[q])'
        OBVIOUS
    <2>1. PICK f : f = req[q]
        OBVIOUS
    <2>2. BrowseFrame(f)' /\ f = req'[q]
        BY <1>1, <1>5, <2>1 DEF ListingsInv
    <2>3. QED
        BY <2>2
<1>7. QED
    BY <1>2, <1>3, <1>4, <1>6 DEF ListingsInv

LEMMA EqualSums ==
    ASSUME NEW n \in Nat, NEW size \in Nat, NEW len, \A p \in 1..n : len[p] = size
    PROVE  SumFunctionOnSet(len, 1..n) = n * size
<1> DEFINE N == {m \in Nat : m <= n => SumFunctionOnSet(len, 1..m) = m * size}
<1>1. 0 \in N
    <2>1. 1..0 = {} /\ 0 * size = 0
        OBVIOUS
    <2>2. QED
        BY <2>1, SumEmpty
<1>2. ASSUME NEW m \in N PROVE m + 1 \in N
    <2> SUFFICES ASSUME m + 1 <= n PROVE SumFunctionOnSet(len, 1..(m + 1)) = (m + 1) * size
        OBVIOUS
    <2>1. m \in Nat /\ SumFunctionOnSet(len, 1..m) = m * size
        OBVIOUS
    <2>2. IsFiniteSet(1..m)
        BY <2>1, FS_Interval
    <2>3. PICK S : S = 1..m
        OBVIOUS
    <2>4. m + 1 \notin S /\ \A p \in S \cup {m + 1} : len[p] \in Int
        BY <2>1, <2>3
    <2>5. SumFunctionOnSet(len, S \cup {m + 1}) = len[m + 1] + SumFunctionOnSet(len, S)
        BY <2>2, <2>3, <2>4, SumInsert
    <2>6. S \cup {m + 1} = 1..(m + 1) /\ len[m + 1] = size
        BY <2>1, <2>3
    <2>7. size + m * size = (m + 1) * size
        BY <2>1
    <2>8. QED
        BY <2>1, <2>3, <2>5, <2>6, <2>7
<1>3. N = Nat
    <2>1. N \in SUBSET Nat
        OBVIOUS
    <2> HIDE DEF N
    <2>2. QED
        BY <1>1, <1>2, <2>1, NatSets
<1>4. QED
    BY <1>3

(* At the end of a scroll that nothing changed under. *)
LEMMA PagesAddUp ==
    ASSUME ListingsInv, Scrolled, changes = 0, Boxed
    PROVE  /\ RowsShown = Cardinality(Matching)
           /\ Unambiguous => Shown = Matching
<1> DEFINE T == Cardinality(Matching)
           L == Len(scroll)
           len == [p \in DOMAIN scroll |-> Len(scroll[p].rows)]
<1>1. ListingTables /\ ScrollOK /\ T \in Nat /\ IsFiniteSet(Matching)
    BY RowsAreFew DEF ListingsInv
<1>2. L \in Nat \ {0} /\ DOMAIN scroll = 1..L /\ ~scroll[L].hasNextPage
    BY <1>1 DEF ListingTables, Scrolled, Last
<1> HIDE DEF T, L
<1>3. ASSUME NEW p \in 1..L
      PROVE  /\ len[p] = PageLen(T, p)
             /\ Unambiguous => ToSet(scroll[p].rows) = Share(p)
             /\ scroll[p].hasNextPage = (p * Limit < T)
             /\ p < L => scroll[p].hasNextPage
    <2>1. Truthful(scroll[p].rows, scroll[p].total, p) /\ scroll[p].hasNextPage = HasNextPage(p, scroll[p].total)
          /\ (p < L => scroll[p].hasNextPage)
        BY <1>1, <1>2 DEF ScrollOK, L
    <2>2. scroll[p].total = T /\ Len(scroll[p].rows) = PageLen(T, p)
          /\ (Unambiguous => ToSet(scroll[p].rows) = Share(p))
        BY <2>1 DEF Truthful, Slice, T
    <2>3. len[p] = Len(scroll[p].rows)
        BY <1>2
    <2>4. QED
        BY <2>1, <2>2, <2>3 DEF HasNextPage
<1>4. Limit \in Nat /\ Limit > 0 /\ \A p \in 1..L : ToSkip(p) \in Nat /\ p * Limit = ToSkip(p) + Limit
    <2>1. Limit \in Nat /\ Limit > 0
        BY ListingsAssumption
    <2>2. ASSUME NEW p \in 1..L PROVE ToSkip(p) \in Nat /\ p * Limit = ToSkip(p) + Limit
        <3>1. p \in Nat \ {0}
            BY <1>2
        <3>2. p * Limit = (p - 1) * Limit + Limit
            BY <2>1, <3>1
        <3>3. QED
            BY <3>1, <3>2, SkipsAreNumbers DEF ToSkip
    <2>3. QED
        BY <2>1, <2>2
<1> DEFINE shown == SumFunctionOnSet(len, 1..(L - 1))
<1>5. shown = ToSkip(L)
    <2>1. \A p \in 1..(L - 1) : len[p] = Limit
        <3> SUFFICES ASSUME NEW p \in 1..(L - 1) PROVE len[p] = Limit
            OBVIOUS
        <3>1. p \in 1..L /\ p < L
            BY <1>2
        <3>2. ToSkip(p) + Limit < T /\ len[p] = PageLen(T, p) /\ ToSkip(p) \in Nat
            BY <1>3, <1>4, <3>1
        <3> HIDE DEF len
        <3>3. QED
            BY <1>1, <1>4, <3>2 DEF PageLen
    <2>2. L - 1 \in Nat
        BY <1>2
    <2> HIDE DEF len
    <2>3. QED
        BY <1>4, <2>1, <2>2, EqualSums DEF ToSkip
<1>6. ToSkip(L) <= T /\ T <= ToSkip(L) + Limit /\ ToSkip(L) \in Nat
    <2>1. L \in 1..L
        BY <1>2
    <2>2. ~ (ToSkip(L) + Limit < T) /\ ToSkip(L) \in Nat
        BY <1>2, <1>3, <1>4, <2>1
    <2>3. ToSkip(L) <= T
        <3>1. CASE L = 1
            <4>1. ToSkip(L) = 0
                BY <1>4, <3>1 DEF ToSkip
            <4>2. QED
                BY <1>1, <4>1
        <3>2. CASE L # 1
            <4>1. L - 1 \in 1..L /\ L - 1 < L
                BY <1>2, <3>2
            <4>2. (L - 1) * Limit < T
                BY <1>3, <4>1
            <4>3. QED
                BY <1>1, <2>2, <4>2 DEF ToSkip
        <3>3. QED
            BY <3>1, <3>2
    <2>4. QED
        BY <1>1, <1>4, <2>2, <2>3
<1>7. RowsShown = T
    <2>1. L \in 1..L /\ L - 1 \in Nat /\ 1..L = (1..(L - 1)) \cup {L} /\ L \notin 1..(L - 1)
        BY <1>2
    <2>2. IsFiniteSet(1..(L - 1))
        BY <2>1, FS_Interval
    <2>3. \A p \in 1..L : len[p] \in Int
        BY <1>1, <1>2 DEF ListingTables, PageRow, L
    <2>4. len[L] = PageLen(T, L)
        BY <1>3, <2>1
    <2>5. RowsShown = SumFunctionOnSet(len, 1..L)
        BY <1>2 DEF RowsShown
    <2> HIDE DEF len
    <2>6. PICK S : S = 1..(L - 1)
        OBVIOUS
    <2>7. SumFunctionOnSet(len, S \cup {L}) = len[L] + SumFunctionOnSet(len, S)
        BY <2>1, <2>2, <2>3, <2>6, SumInsert
    <2>8. RowsShown = PageLen(T, L) + ToSkip(L)
        BY <1>5, <2>1, <2>4, <2>5, <2>6, <2>7
    <2>9. PageLen(T, L) + ToSkip(L) = T
        BY <1>1, <1>4, <1>6 DEF PageLen
    <2>10. QED
        BY <2>8, <2>9
<1>8. ASSUME Unambiguous PROVE Shown = Matching
    <2>1. Shown \subseteq Matching
        BY <1>2, <1>3, <1>8 DEF Shown, Share
    <2>2. ASSUME NEW m \in Matching PROVE \E p \in 1..L : m \in Share(p)
        <3> DEFINE before == {n \in Matching \ {m} : Precedes(n, m)}
        <3>1. before \in SUBSET Matching /\ before # Matching
            OBVIOUS
        <3> HIDE DEF before
        <3>2. IsFiniteSet(before) /\ Cardinality(before) <= T /\ Cardinality(before) # T
            BY <1>1, <3>1, FS_Subset DEF T
        <3>3. PICK n : n = Before(m)
            OBVIOUS
        <3>4. n \in Nat /\ n < T
            BY <1>1, <3>2, <3>3, FS_CardinalityType DEF Before, before
        <3>5. PICK p \in Nat \ {0} : (p - 1) * Limit <= n /\ n < p * Limit
            BY <3>4, PageOfPlace, ListingsAssumption
        <3>6. ToSkip(p) \in Nat /\ p * Limit = ToSkip(p) + Limit
            <4>1. p * Limit = (p - 1) * Limit + Limit
                BY <1>4
            <4>2. QED
                BY <4>1, SkipsAreNumbers DEF ToSkip
        <3>7. p <= L
            <4>1. ASSUME L <= p - 1 PROVE FALSE
                <5>1. L * Limit <= (p - 1) * Limit /\ L * Limit \in Nat
                    <6>1. Limit \in Nat \ {0} /\ L \in Nat /\ p - 1 \in Nat
                        BY <1>2, <1>4
                    <6>2. QED
                        BY <4>1, <6>1, PageOfPlace
                <5>2. L * Limit = ToSkip(L) + Limit
                    BY <1>2, <1>4
                <5>3. T <= (p - 1) * Limit
                    BY <1>1, <1>4, <1>6, <3>6, <5>1, <5>2 DEF ToSkip
                <5>4. QED
                    BY <1>1, <3>4, <3>5, <3>6, <5>3 DEF ToSkip
            <4>2. QED
                BY <1>2, <4>1
        <3>8. ToSkip(p) <= n /\ n < ToSkip(p) + Limit
            BY <3>5, <3>6 DEF ToSkip
        <3>9. QED
            BY <1>2, <3>3, <3>7, <3>8 DEF Share
    <2>3. Matching \subseteq Shown
        BY <1>2, <1>3, <1>8, <2>2 DEF Shown
    <2>4. QED
        BY <2>1, <2>3
<1>9. QED
    BY <1>7, <1>8 DEF T

LEMMA ScrollIsWhole ==
    ASSUME ListingsInv
    PROVE  ListingsAreWhole
<1>1. ASSUME NEW p \in DOMAIN scroll, query.listing # "all" \/ changes = 0
      PROVE  Len(scroll[p].rows) = Max({0, Min({Limit, scroll[p].total - ToSkip(p)})})
    <2>1. Truthful(scroll[p].rows, scroll[p].total, p) /\ p \in Nat \ {0} /\ scroll[p].total \in Nat
        <3>1. scroll \in Seq(PageRow) /\ p \in 1..Len(scroll) /\ Len(scroll) \in Nat /\ ScrollOK
            BY <1>1 DEF ListingsInv, ListingTables
        <3>2. scroll[p] \in PageRow
            BY <3>1
        <3>3. QED
            BY <3>1, <3>2 DEF ScrollOK, PageRow
    <2>2. Len(scroll[p].rows) = PageLen(scroll[p].total, p)
        BY <1>1, <2>1 DEF ListingsInv, ListingTables, Truthful, Slice, Boxed
    <2>3. QED
        BY <2>1, <2>2, PageLengths
<1>2. QED
    BY <1>1, PagesAddUp DEF ListingsAreWhole, Boxed

(* kitchens.service.ts:findKitchens, menu-search, findTrendingNearby: whatever  *)
(* the rows, their ranks and the page size, a page of a listing that the        *)
(* database cannot filter is as full as its own total says, and the pages of a  *)
(* scroll that nothing changed under hold what matches, once each where no two  *)
(* rows tie.                                                                    *)
THEOREM ScrollsAreWhole == ListingsSpec => []ListingsAreWhole
<1>1. ListingsInit /\ HandlersInit => ListingsInv
    <2> SUFFICES ASSUME ListingsInit, HandlersInit PROVE ListingsInv
        OBVIOUS
    <2>1. Tracked /\ OneByOne /\ \A r \in Requests : req[r] = Idle
        BY DEF HandlersInit, Tracked, OneByOne, InFlight, At, Idle
    <2>2. ListingTables /\ scroll = <<>>
        BY DEF ListingsInit, ListingTables
    <2>3. ScrollOK
        BY <2>2 DEF ScrollOK
    <2>4. QED
        BY <2>1, <2>2, <2>3 DEF ListingsInv, BrowseFrame
<1>2. ListingsInv /\ [ListingsNext]_<<listingVars, handlerVars>> => ListingsInv'
    <2> SUFFICES ASSUME ListingsInv, [ListingsNext]_<<listingVars, handlerVars>> PROVE ListingsInv'
        OBVIOUS
    <2>1. CASE UNCHANGED <<listingVars, handlerVars>>
        <3>1. req' = req /\ overlapped' = overlapped /\ UNCHANGED listingVars
            BY <2>1 DEF handlerVars
        <3>2. Tracked' /\ OneByOne'
            BY <3>1 DEF ListingsInv, Tracked, OneByOne, InFlight, At
        <3>3. ListingTables' /\ ScrollOK' /\ \A f : BrowseFrame(f) => BrowseFrame(f)'
            BY <3>1, ListingStays DEF ListingsInv
        <3>4. ASSUME NEW q \in Requests PROVE BrowseFrame(req[q])'
            <4>1. PICK f : f = req[q]
                OBVIOUS
            <4>2. BrowseFrame(f)' /\ f = req'[q]
                BY <3>1, <3>3, <4>1 DEF ListingsInv
            <4>3. QED
                BY <4>2
        <3>5. QED
            BY <3>2, <3>3, <3>4 DEF ListingsInv
    <2>2. QED
        BY <2>1, BrowseRuns, RowsChange DEF ListingsNext, ListingsAlone
<1>3. QED
    BY <1>1, <1>2, ScrollIsWhole, PTL DEF ListingsSpec

=============================================================================
