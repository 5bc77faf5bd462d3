----------------------------- MODULE Engagement -----------------------------
(***************************************************************************)
(* What customers think of a kitchen: reviews and the ratings kept of them  *)
(* (reviews.service.ts), and the likes, follows, views and votes with the   *)
(* counters kept of them (reels, stories, kitchens, meals, wishlist).  One   *)
(* kitchen with a dish, a reel, a story, and a review somebody votes on.     *)
(***************************************************************************)
EXTENDS Handlers, Integers, Sequences, FiniteSetsExt

CONSTANTS
    Fans,          \* customers
    Delivered,     \* orders of theirs that were delivered, as <<order, customer>>
    MaxReviews,    \* bound: reviews ever written
    MaxTaps        \* bound: rows of one kind a customer ever makes

ASSUME EngagementAssumption == IsFiniteSet(Fans)

VARIABLES
    reviews,       \* Review rows: their order, and whether they are about the dish too
    rated,         \* the reviews in ratingCount and rating, of the kitchen and of the dish
    answered,      \* history: the reviews whose request has been answered
    marks,         \* ReelLike, KitchenStoryLike, ...: the id of a customer's row, 0 for none
    tapped,        \* how many rows of a kind a customer has made
    counter,       \* likeCount, followerCount, viewCount, ...
    rowless        \* history: what the counter has of anonymous viewers and deleted accounts

engagementVars == <<reviews, rated, answered, marks, tapped, counter, rowless>>

(* The kinds that have a counter beside their rows, and those that have not. *)
Counted == {"likeReel", "likeStory", "seeStory", "follow", "helpful"}
Kinds == Counted \cup {"saveReel", "favorite"}

EngagementInit ==
    /\ reviews = <<>>
    /\ rated = [kitchen |-> {}, dish |-> {}]
    /\ answered = {}
    /\ marks = [k \in Kinds |-> [u \in Fans |-> 0]]
    /\ tapped = [k \in Kinds |-> [u \in Fans |-> 0]]
    /\ counter = [k \in Counted |-> 0]
    /\ rowless = [k \in Counted |-> 0]

-----------------------------------------------------------------------------
(* Reviews *)

NoOrder == <<"none", "anybody">>

(* An order of the reviewer's own that was delivered, and that is looked up first. *)
CreateReview(r, order, aboutDish) ==
    /\ order # NoOrder => \A i \in DOMAIN reviews : reviews[i].order # order
    /\ Begin(r, "review", [at |-> "insertReview", review |-> [order |-> order, dish |-> aboutDish]])
    /\ UNCHANGED engagementVars

(* The pair of order and customer is unique. *)
InsertReview(r) ==
    LET new == req[r].review
    IN  /\ At(r, "insertReview") /\ Len(reviews) < MaxReviews
        /\ IF new.order # NoOrder /\ \E i \in DOMAIN reviews : reviews[i].order = new.order
           THEN End(r) /\ UNCHANGED reviews
           ELSE /\ reviews' = Append(reviews, new)
                /\ Goto(r, [at |-> "aggregate", of |-> "kitchen", found |-> {}, review |-> Len(reviews')])
        /\ UNCHANGED <<rated, answered, marks, tapped, counter, rowless>>

AboutIt(subject) == {i \in DOMAIN reviews : subject = "dish" => reviews[i].dish}

(* recalculateRatings: an aggregate is read, *)
AggregateRatings(r) ==
    /\ At(r, "aggregate")
    /\ Goto(r, [req[r] EXCEPT !.at = "writeRating", !.found = AboutIt(req[r].of)])
    /\ UNCHANGED engagementVars

(* Faulty: the dish is left to its own next review. *)
WriteKitchenRating(r) ==
    /\ At(r, "writeRating")
    /\ rated' = [rated EXCEPT !.kitchen = req[r].found]
    /\ answered' = answered \cup {req[r].review}
    /\ End(r)
    /\ UNCHANGED <<reviews, marks, tapped, counter, rowless>>

(* and written; the kitchen's first, the dish's second. *)
WriteRating(r) ==
    LET f == req[r]
    IN  /\ At(r, "writeRating")
        /\ rated' = [rated EXCEPT ![f.of] = f.found]
        /\ IF f.of = "kitchen" /\ reviews[f.review].dish
           THEN Goto(r, [f EXCEPT !.at = "aggregate", !.of = "dish"]) /\ UNCHANGED answered
           ELSE End(r) /\ answered' = answered \cup {f.review}
        /\ UNCHANGED <<reviews, marks, tapped, counter, rowless>>

-----------------------------------------------------------------------------
(* Toggles *)

Bump(kind, by) ==
    counter' = IF kind \in Counted THEN [counter EXCEPT ![kind] = @ + by] ELSE counter

(* The row is looked up, and put down or taken away later; who has seen a story *)
(* has seen it.                                                                *)
Toggle(r, kind, u) ==
    /\ kind = "seeStory" => marks[kind][u] = 0
    /\ Begin(r, kind, [at |-> "toggle", kind |-> kind, user |-> u, found |-> marks[kind][u]])
    /\ UNCHANGED engagementVars

(* Row and counter in one transaction, rolled back when the row is there already. *)
PutMark(r) ==
    LET f == req[r]
    IN  /\ At(r, "toggle") /\ f.found = 0
        /\ IF marks[f.kind][f.user] # 0 THEN UNCHANGED <<marks, tapped, counter>>
           ELSE /\ tapped[f.kind][f.user] < MaxTaps
                /\ tapped' = [tapped EXCEPT ![f.kind][f.user] = @ + 1]
                /\ marks' = [marks EXCEPT ![f.kind][f.user] = tapped[f.kind][f.user] + 1]
                /\ Bump(f.kind, 1)
        /\ End(r)
        /\ UNCHANGED <<reviews, rated, answered, rowless>>

(* Faulty: whatever row the customer has there by now is taken, or none. *)
TakeAnyMark(r) ==
    LET f == req[r]
    IN  /\ At(r, "toggle") /\ f.found # 0
        /\ marks' = [marks EXCEPT ![f.kind][f.user] = 0]
        /\ Bump(f.kind, -1)
        /\ End(r)
        /\ UNCHANGED <<reviews, rated, answered, tapped, rowless>>

(* The row is deleted by the id that was found, and rolled back when that is gone. *)
TakeMark(r) ==
    LET f == req[r]
    IN  /\ At(r, "toggle") /\ f.found # 0
        /\ IF marks[f.kind][f.user] # f.found THEN UNCHANGED <<marks, counter>>
           ELSE /\ marks' = [marks EXCEPT ![f.kind][f.user] = 0]
                /\ Bump(f.kind, -1)
        /\ End(r)
        /\ UNCHANGED <<reviews, rated, answered, tapped, rowless>>

(* A viewer who is not signed in counts every time. *)
SeeAnonymously ==
    /\ Instant("seeAnonymously") /\ rowless["seeStory"] < MaxTaps
    /\ Bump("seeStory", 1)
    /\ rowless' = [rowless EXCEPT !["seeStory"] = @ + 1]
    /\ UNCHANGED <<reviews, rated, answered, marks, tapped>>

(* An account that is deleted takes its rows along, and leaves the counters and *)
(* its votes.                                                                   *)
EraseFan(u) ==
    /\ Instant("eraseFan")
    /\ marks' = [k \in Kinds |-> IF k = "helpful" THEN marks[k] ELSE [marks[k] EXCEPT ![u] = 0]]
    /\ rowless' = [k \in Counted |->
                      rowless[k] + IF k # "helpful" /\ marks[k][u] # 0 THEN 1 ELSE 0]
    /\ UNCHANGED <<reviews, rated, answered, tapped, counter>>

-----------------------------------------------------------------------------
EngagementStep(r) ==
    \/ \E order \in Delivered \cup {NoOrder}, aboutDish \in BOOLEAN : CreateReview(r, order, aboutDish)
    \/ InsertReview(r) \/ AggregateRatings(r) \/ WriteRating(r)
    \/ \E kind \in Kinds, u \in Fans : Toggle(r, kind, u)
    \/ PutMark(r) \/ TakeMark(r)

EngagementAlone == SeeAnonymously \/ \E u \in Fans : EraseFan(u)

EngagementNext ==
    EngagementAlone \/ \E r \in Requests : EngagementStep(r) \/ (Abort(r) /\ UNCHANGED engagementVars)

EngagementSpec == HandlersInit /\ EngagementInit /\ [][EngagementNext]_<<engagementVars, handlerVars>>

(* However taps, and the deletion of accounts, interleave: a counter is the number   *)
(* of its rows, of the anonymous views and of the rows deleted accounts took along.  *)
(* "Recomputed from source after each write": the ratings of the kitchen and of the   *)
(* dish are over a review that was answered, where requests did not overlap: one that *)
(* has read its aggregate before another's review, and writes after it, leaves it out. *)
CountersMatchRows ==
    /\ \A k \in Counted : counter[k] = rowless[k] + Cardinality({u \in Fans : marks[k][u] # 0})
    /\ ~overlapped => answered \subseteq rated.kitchen /\ {i \in answered : reviews[i].dish} \subseteq rated.dish

=============================================================================
