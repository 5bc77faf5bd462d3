-------------------------------- MODULE Inbox --------------------------------
(***************************************************************************)
(* The customer's inbox, which is read off the rows of other components     *)
(* (customer/notifications), the chat of an order (order-messages and the   *)
(* kitchen's order-chat), and the kitchen's own notifications.  One         *)
(* customer with one order and one subscription.                            *)
(***************************************************************************)
EXTENDS Handlers, Integers, Sequences, FiniteSetsExt, SequencesExt

CONSTANTS
    PageSize,      \* limit
    MaxWindow,     \* MAX_WINDOW, 200
    MaxClock       \* bound: the ticks of the clock; rows are created at different ticks

ASSUME InboxAssumption == PageSize \in Nat \ {0} /\ MaxWindow \in Nat

VARIABLES
    clock,         \* the last tick at which something was written
    rows,          \* at each tick, the source of the row created then, or none
    subscription,  \* its status, and approvedAt, pausedAt, cancelledAt, updatedAt, 0 for null
    readAt,        \* User.notificationsReadAt
    chat,          \* OrderMessage rows: sender, isRead
    alerts         \* Notification rows of the kitchen: isRead

inboxVars == <<clock, rows, subscription, readAt, chat, alerts>>

Sources == {"event", "message", "wallet"}
CategoryOf == [event |-> "ORDER", message |-> "ORDER", wallet |-> "WALLET",
               subscription |-> "SUBSCRIPTION"]
Categories == {"ORDER", "WALLET", "SUBSCRIPTION"}

InboxInit ==
    /\ clock = 0
    /\ rows = <<>>
    /\ subscription = [status |-> "PENDING", approvedAt |-> 0, pausedAt |-> 0, cancelledAt |-> 0, updatedAt |-> 0]
    /\ readAt = 0
    /\ chat = <<>>
    /\ alerts = <<>>

-----------------------------------------------------------------------------
(* What other components write *)

Tick(source) ==
    /\ clock < MaxClock
    /\ clock' = clock + 1
    /\ rows' = Append(rows, source)

(* A status event of the order, or a credit of the wallet. *)
NewRow(source) ==
    /\ Instant(source) /\ source # "message"
    /\ Tick(source)
    /\ UNCHANGED <<subscription, readAt, chat, alerts>>

StampOf == [ACTIVE |-> "approvedAt", PAUSED |-> "pausedAt", CANCELLED |-> "cancelledAt",
            REJECTED |-> "updatedAt"]

(* Approving and resuming, pausing, cancelling, rejecting: only the first approval *)
(* stamps approvedAt (module Subscriptions).                                       *)
MoveSubscription(status) ==
    LET stamp == StampOf[status]
        now == clock + 1
    IN  /\ Instant("subscription")
        /\ <<subscription.status, status>> \in
              {<<"PENDING", "ACTIVE">>, <<"PENDING", "REJECTED">>, <<"ACTIVE", "PAUSED">>,
               <<"PAUSED", "ACTIVE">>, <<"ACTIVE", "CANCELLED">>, <<"PAUSED", "CANCELLED">>}
        /\ Tick("none")
        /\ subscription' =
              [subscription EXCEPT
                 !.status = status,
                 !.updatedAt = now,
                 !.pausedAt = IF status = "PAUSED" THEN now ELSE IF status = "ACTIVE" THEN 0 ELSE @,
                 !.approvedAt = IF subscription.status = "PENDING" /\ status = "ACTIVE" THEN now ELSE @,
                 !.cancelledAt = IF status = "CANCELLED" THEN now ELSE @]
        /\ UNCHANGED <<readAt, chat, alerts>>

-----------------------------------------------------------------------------
(* The inbox *)

Listed(source, category) == category = "ALL" \/ CategoryOf[source] = category

TimesOf(source) == {t \in DOMAIN rows : rows[t] = source}

Stamped == subscription[StampOf[subscription.status]]

(* One entry for the subscription, "describing where it stands now". *)
SubscriptionTimes ==
    IF subscription.status = "PENDING" THEN {}
    ELSE {IF Stamped # 0 THEN Stamped ELSE subscription.updatedAt}

Latest(times, n) == {t \in times : Cardinality({s \in times : s > t}) < n}

(* Faulty: every source gives one page of its rows. *)
WindowOfPage(page) == PageSize

(* How deep a page looks into each source. *)
Window(page) == IF page * PageSize < MaxWindow THEN page * PageSize ELSE MaxWindow

(* list: the newest of each source, merged, and the page cut out of that. *)
Page(page, category) ==
    LET take(source) == IF Listed(source, category) THEN Latest(TimesOf(source), Window(page)) ELSE {}
        subscribed == IF Listed("subscription", category) THEN SubscriptionTimes ELSE {}
        merged == (UNION {take(s) : s \in Sources}) \cup subscribed
    IN  Latest(merged, page * PageSize) \ Latest(merged, (page - 1) * PageSize)

Entries(category) ==
    (UNION {TimesOf(s) : s \in {x \in Sources : Listed(x, category)}})
        \cup (IF Listed("subscription", category) THEN SubscriptionTimes ELSE {})

(* countsFor: what is unread, of every category. *)
UnreadCount ==
    Cardinality(UNION {{t \in TimesOf(s) : t > readAt} : s \in Sources})
    + IF \/ subscription.status = "PENDING"
         \/ readAt # 0 /\ Stamped <= readAt
      THEN 0 ELSE 1

(* The moment is taken before the row is written. *)
MarkAllRead(r) ==
    /\ Begin(r, "markAllRead", [at |-> "markAllRead", now |-> clock])
    /\ clock > 0
    /\ UNCHANGED inboxVars

WriteReadAt(r) ==
    /\ At(r, "markAllRead")
    /\ readAt' = req[r].now
    /\ End(r)
    /\ UNCHANGED <<clock, rows, subscription, chat, alerts>>

-----------------------------------------------------------------------------
(* The chat, and the kitchen's notifications *)

(* The customer's message is written first and the kitchen told of it later. *)
SendMessage(r) ==
    /\ Len(chat) < MaxClock
    /\ Begin(r, "customerChat", [at |-> "alert", now |-> 0])
    /\ chat' = Append(chat, [sender |-> "CUSTOMER", isRead |-> FALSE])
    /\ UNCHANGED <<clock, rows, subscription, readAt, alerts>>

CreateAlert(r) ==
    /\ At(r, "alert")
    /\ alerts' = Append(alerts, FALSE)
    /\ End(r)
    /\ UNCHANGED <<clock, rows, subscription, readAt, chat>>

(* The kitchen's message, which may come with a step of the order, an event. *)
KitchenSend ==
    /\ Instant("kitchenChat")
    /\ Tick("message")
    /\ chat' = Append(chat, [sender |-> "KITCHEN", isRead |-> FALSE])
    /\ UNCHANGED <<subscription, readAt, alerts>>

(* "Opening the thread IS the read action", of either side. *)
OpenChat(call, other) ==
    /\ Instant(call)
    /\ chat' = [i \in DOMAIN chat |-> [chat[i] EXCEPT !.isRead = @ \/ chat[i].sender = other]]
    /\ UNCHANGED <<clock, rows, subscription, readAt, alerts>>

ReadAlert(i) ==
    /\ Instant("readAlert")
    /\ alerts' = [alerts EXCEPT ![i] = TRUE]
    /\ UNCHANGED <<clock, rows, subscription, readAt, chat>>

ReadAllAlerts ==
    /\ Instant("readAlert")
    /\ alerts' = [i \in DOMAIN alerts |-> TRUE]
    /\ UNCHANGED <<clock, rows, subscription, readAt, chat>>

-----------------------------------------------------------------------------
InboxStep(r) == MarkAllRead(r) \/ WriteReadAt(r) \/ SendMessage(r) \/ CreateAlert(r)

InboxAlone ==
    \/ \E source \in Sources : NewRow(source)
    \/ \E status \in DOMAIN StampOf : MoveSubscription(status)
    \/ KitchenSend
    \/ OpenChat("customerChat", "KITCHEN") \/ OpenChat("kitchenChat", "CUSTOMER")
    \/ \E i \in DOMAIN alerts : ReadAlert(i)
    \/ ReadAllAlerts

InboxNext == InboxAlone \/ \E r \in Requests : InboxStep(r) \/ (Abort(r) /\ UNCHANGED inboxVars)

InboxSpec == InboxInit /\ HandlersInit /\ [][InboxNext]_<<inboxVars, handlerVars>>

(* The inbox is a list that is nowhere stored: page by page it shows every entry   *)
(* once, for as many pages as MAX_WINDOW holds, and the badge counts those that    *)
(* are newer than the marker.                                                     *)
InboxIsOneList ==
    /\ \A category \in Categories \cup {"ALL"} :
          LET all == Entries(category)
              pages == 1 .. (MaxWindow \div PageSize)
          IN  /\ UNION {Page(p, category) : p \in pages} = Latest(all, PageSize * (MaxWindow \div PageSize))
              /\ \A p, q \in pages : p # q => Page(p, category) \cap Page(q, category) = {}
    /\ UnreadCount = Cardinality({t \in Entries("ALL") : t > readAt})

=============================================================================
