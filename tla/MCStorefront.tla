---------------------------- MODULE MCStorefront ----------------------------
(***************************************************************************)
(* Two requests at a time of what customers and kitchens do around the      *)
(* orders, and two customers tapping.  The modules share no table, and a    *)
(* behaviour is of the endpoints of one scenario.                           *)
(***************************************************************************)
EXTENDS Cart, Defaults, Menu, Hours, Engagement, Inbox, Listings

Symmetry == Permutations(Requests)

MCCartScenarios == {
    {"add", "replace"},
    {"add", "story"},
    {"add", "update", "clear"},
    {"apply", "unapply", "place"},
    {"apply", "update", "place"},
    {"apply", "soldOut", "place"},
    {"apply", "place", "confirm"}}

MCListScenarios == {
    {"createAddress", "updateAddress", "setDefault", "removeEntry"},
    {"saveMethod", "setDefault", "removeEntry"}}

MCKitchenScenarios == {
    {"createDish", "updateDish", "deleteDish"},
    {"createPlan", "updatePlan"},
    {"getWeekly", "updateDay", "holiday", "profile", "accepting"},
    {"browse", "change"}}

MCCommunityScenarios == {
    {"review"},
    {"likeReel", "eraseFan"},
    {"likeStory", "eraseFan"},
    {"follow"},
    {"favorite"},
    {"seeStory", "seeAnonymously", "eraseFan"},
    {"helpful", "saveReel", "eraseFan"},
    {"event", "wallet", "subscription", "kitchenChat", "markAllRead"},
    {"customerChat", "kitchenChat", "readAlert"}}

MCScenarios == MCCartScenarios \cup MCListScenarios \cup MCKitchenScenarios \cup MCCommunityScenarios

MCKitchenOf == [a1 |-> "A", a2 |-> "A", b1 |-> "B"]
MCUnitPrice == [a1 |-> 500, a2 |-> 150, b1 |-> 350]
MCCouponRow == [flat |-> TRUE, value |-> 100, maxDiscount |-> 0, minOrderValue |-> 400, perUserLimit |-> 1]
MCInitialLines == {<<>>, <<[item |-> "a1", quantity |-> 2], [item |-> "a2", quantity |-> 1]>>}
MCWindows == {<<1, 3>>, <<3, 1>>}
MCDaySessions == {{}, {<<3, 1>>}, {<<0, 1>>, <<2, 3>>}}
MCRanks == {<<1, 2, 2, 3>>, <<4, 3, 2, 1>>}
MCDelivered == {<<"o1", "f1">>}

Init ==
    /\ HandlersInit
    /\ CartInit /\ DefaultsInit /\ MenuInit /\ HoursInit /\ EngagementInit /\ InboxInit /\ ListingsInit
    (* What may be there already, for the scenarios it is about. *)
    /\ calls \notin MCCartScenarios => lines = <<>>
    /\ "getWeekly" \notin calls => legacy = <<1, 3>>
    /\ "browse" \notin calls => \A m \in Catalogue : shelf[m] = "in"
    /\ "browse" \notin calls => query = [listing |-> "all", rank |-> <<4, 3, 2, 1>>]

Next ==
    \/ /\ CartAlone \/ \E r \in Requests : CartStep(r)
       /\ UNCHANGED <<defaultsVars, menuVars, hoursVars, engagementVars, inboxVars, listingVars>>
    \/ /\ \E r \in Requests : DefaultsStep(r)
       /\ UNCHANGED <<cartVars, menuVars, hoursVars, engagementVars, inboxVars, listingVars>>
    \/ /\ MenuAlone \/ \E r \in Requests : MenuStep(r)
       /\ UNCHANGED <<cartVars, defaultsVars, hoursVars, engagementVars, inboxVars, listingVars>>
    \/ /\ HoursAlone \/ \E r \in Requests : HoursStep(r)
       /\ UNCHANGED <<cartVars, defaultsVars, menuVars, engagementVars, inboxVars, listingVars>>
    \/ /\ EngagementAlone \/ \E r \in Requests : EngagementStep(r)
       /\ UNCHANGED <<cartVars, defaultsVars, menuVars, hoursVars, inboxVars, listingVars>>
    \/ /\ InboxAlone \/ \E r \in Requests : InboxStep(r)
       /\ UNCHANGED <<cartVars, defaultsVars, menuVars, hoursVars, engagementVars, listingVars>>
    \/ /\ ListingsAlone \/ \E r \in Requests : ListingsStep(r)
       /\ UNCHANGED <<cartVars, defaultsVars, menuVars, hoursVars, engagementVars, inboxVars>>
    \/ /\ \E r \in Requests : Abort(r)
       /\ UNCHANGED <<cartVars, defaultsVars, menuVars, hoursVars, engagementVars, inboxVars, listingVars>>

storefrontVars ==
    <<cartVars, defaultsVars, menuVars, hoursVars, engagementVars, inboxVars, listingVars, handlerVars>>

Spec == Init /\ [][Next]_storefrontVars
=============================================================================
