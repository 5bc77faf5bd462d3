------------------------------ MODULE Listings ------------------------------
(***************************************************************************)
(* Scrolling through a listing page by page: kitchens, dishes and reels     *)
(* that the database filters and pages ("all"), what is open now, which it  *)
(* cannot filter ("openOnly"), and the dishes near a customer ("nearby").   *)
(***************************************************************************)
EXTENDS Handlers, Integers, SequencesExt, FiniteSetsExt

CONSTANTS
    Catalogue,      \* the dishes, kitchens or reels there are: 1 is the newest
    Ranks,          \* what a listing may be ordered by: the lowest comes first
    Limit,          \* the page size a client asks for
    TakeFloor,      \* the 200 rows that "nearby" fetches at least
    MaxChanges      \* bound: how often a row changes

ASSUME ListingsAssumption ==
    /\ Catalogue \subseteq Int /\ IsFiniteSet(Catalogue)
    /\ Ranks \subseteq [Catalogue -> Int]
    /\ Limit \in Nat \ {0} /\ TakeFloor \in Nat

VARIABLES
    shelf,          \* each row: "hidden" from the query, or "in" or "out" of what only the code can test
    query,          \* the listing a client scrolls, and the rank of its sortBy
    scroll,         \* the pages the client has
    changes         \* history: how often a row changed

listingVars == <<shelf, query, scroll, changes>>

ListingsInit ==
    /\ shelf \in [Catalogue -> {"hidden", "out", "in"}]
    /\ query \in [listing : {"all", "openOnly", "nearby"}, rank : Ranks]
    /\ scroll = <<>>
    /\ changes = 0

ToSkip(page) == (page - 1) * Limit

Take(rows, skip, n) == SubSeq(rows, skip + 1, Min({skip + n, Len(rows)}))
PageOf(rows, page) == Take(rows, ToSkip(page), Limit)

(* The where of the listing, with what the client filters by: of the kitchens that are *)
(* ACTIVE, the dishes that are available, the reels that are published.                *)
Visible == {m \in Catalogue : shelf[m] # "hidden"}

(* What is tested row by row: isOpenNow, isOrderable, the distance within the box. *)
Passes(m) == query.listing = "all" \/ shelf[m] = "in"

Matching == {m \in Visible : Passes(m)}

(* buildOrderBy: rows that tie come in any order, and in another the next time; only *)
(* "nearby" ends with when a row was created.                                       *)
Precedes(m, n) ==
    \/ query.rank[m] < query.rank[n]
    \/ query.rank[m] = query.rank[n] /\ (query.listing = "nearby" => m < n)

Orderings(S) == {rows \in SetToSeqs(S) : \A i, j \in DOMAIN rows : i < j => Precedes(rows[i], rows[j])}

Scrolled == scroll # <<>> /\ ~Last(scroll).hasNextPage

BrowseNext(r) ==
    /\ InFlight = {} /\ ~Scrolled
    /\ Begin(r, "browse", [at |-> "query", page |-> Len(scroll) + 1, rows |-> <<>>, total |-> 0,
                           await |-> IF query.listing = "all" THEN {"findMany", "count"} ELSE {"findMany"}])
    /\ UNCHANGED listingVars

(* Promise.all: the rows and their count are two queries, in either order. *)
Arrive(r, q, frame) ==
    /\ q \in req[r].await
    /\ Goto(r, [frame EXCEPT !.await = @ \ {q}])
    /\ UNCHANGED listingVars

Count(r) == At(r, "query") /\ Arrive(r, "count", [req[r] EXCEPT !.total = Cardinality(Visible)])

(* Faulty: the page is cut first, and what is not open dropped from it. *)
FindManyThenFilter(r) ==
    At(r, "query") /\ \E rows \in Orderings(Visible) :
        Arrive(r, "findMany",
            [req[r] EXCEPT !.rows = SelectSeq(PageOf(rows, req[r].page), Passes),
                           !.total = IF query.listing = "all" THEN @ ELSE Cardinality(Matching)])

(* The rows that are fetched: all of them, or near a customer the first of those in *)
(* the box.                                                                        *)
Fetched(page) ==
    LET take == Max({(page + 2) * Limit, TakeFloor})
    IN  IF query.listing = "nearby" THEN {m \in Visible : Cardinality({n \in Visible : Precedes(n, m)}) < take}
        ELSE Visible

(* "Filter before paginating so pages stay full and meta stays truthful". *)
FindMany(r) ==
    At(r, "query") /\ \E rows \in Orderings({m \in Fetched(req[r].page) : Passes(m)}) :
        Arrive(r, "findMany",
            [req[r] EXCEPT !.rows = PageOf(rows, req[r].page),
                           !.total = IF query.listing = "all" THEN @ ELSE Len(rows)])

(* paginate: page < Math.ceil(total / limit) *)
HasNextPage(page, total) == page * Limit < total

Paginate(r) ==
    /\ At(r, "query") /\ req[r].await = {}
    /\ scroll' = Append(scroll, [rows |-> req[r].rows, total |-> req[r].total,
                                 hasNextPage |-> HasNextPage(req[r].page, req[r].total)])
    /\ End(r)
    /\ UNCHANGED <<shelf, query, changes>>

(* A kitchen opens or closes, a dish sells out, an account is blocked. *)
ChangeRow(m, to) ==
    /\ Instant("change")
    /\ changes < MaxChanges /\ to # shelf[m]
    /\ shelf' = [shelf EXCEPT ![m] = to]
    /\ changes' = changes + 1
    /\ UNCHANGED <<query, scroll>>

ListingsStep(r) == BrowseNext(r) \/ Count(r) \/ FindMany(r) \/ Paginate(r)

ListingsAlone == \E m \in Catalogue, to \in {"hidden", "out", "in"} : ChangeRow(m, to)

ListingsNext == ListingsAlone \/ \E r \in Requests : ListingsStep(r) \/ (Abort(r) /\ UNCHANGED listingVars)

ListingsSpec == ListingsInit /\ HandlersInit /\ [][ListingsNext]_<<listingVars, handlerVars>>

RowsShown == SumFunctionOnSet([p \in DOMAIN scroll |-> Len(scroll[p].rows)], DOMAIN scroll)

Shown == UNION {ToSet(scroll[p].rows) : p \in DOMAIN scroll}

Unambiguous == query.listing = "nearby" \/ \A m, n \in Matching : m = n \/ query.rank[m] # query.rank[n]

(* "a post-pagination filter would return short pages and a wrong total (and stall the   *)
(* app's infinite scroll)": a page of what was filtered here is as full as its own total *)
(* says, whatever changes between pages, and so is every page while nothing changes.     *)
(* Then the scroll ends with as many rows as match, near a customer if the box holds no  *)
(* more than are fetched, and with each of them once where no two rows tie.              *)
ListingsAreWhole ==
    /\ \A p \in DOMAIN scroll :
           query.listing # "all" \/ changes = 0 =>
               Len(scroll[p].rows) = Max({0, Min({Limit, scroll[p].total - ToSkip(p)})})
    /\ Scrolled /\ changes = 0 /\ (query.listing = "nearby" => Cardinality(Visible) <= TakeFloor) =>
           /\ RowsShown = Cardinality(Matching)
           /\ Unambiguous => Shown = Matching

=============================================================================
