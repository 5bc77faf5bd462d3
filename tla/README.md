# FreshBhoj backend: TLA+ models and proofs

The FreshBhoj backend (`src/`, NestJS over Prisma 5 and PostgreSQL) takes orders, subscriptions, wallets, payouts and
promotions for home kitchens. This directory models its components that keep state, from the money ledgers to the inbox,
and the way a call finds its handler; it checks the models with TLC and proves their safety properties with TLAPS. Paths
below are relative to `src/src/modules/` unless they begin with `src/`.

## How the system runs

* **Requests are the only processes.** `vercel.json` deploys the application as serverless functions: every HTTP call
  is a handler on its own, calls run concurrently, and one may be killed between any two of its statements. There is no
  cron job, queue or worker. What must happen "later" (a pause ends, a bill is due, a plan runs out) happens when some
  later read settles it.
* **PostgreSQL runs at READ COMMITTED**, Prisma's default; no transaction asks for another isolation level. A row that
  is only read is not locked. The usual handler reads a row with the Prisma client, checks it, and then updates
  `where: { id }`, alone or in a `$transaction`: what it checked may have changed meanwhile. A `$transaction`'s writes
  commit together. `{ increment }` and `{ decrement }` are done by the database and are not lost.
* **No payment gateway is connected.** `confirm-payment` and `fail-payment` are called by the app, top-ups credit at
  once, and operators move withdrawals and payouts by hand. **Redis is a stub** (`redis/redis.service.ts`).
* The system is driven by customers, kitchens, operators and, in development, a simulator endpoint. The models do not
  distinguish who sends a request where the code would serve each of them the same way (`Api` is about telling them apart).

Each module follows from this: `Requests` are calls in flight, `pc` (or the frame `req[r]`, see Handlers below) says where
each one is and what it has read, a handler is split at every `await` that separates a read from a write that uses it, a
transaction's writes are one action, and `Abort` kills a request anywhere. Reads made inside an interactive transaction (the balance check in `debit`) are steps of their own
too, because READ COMMITTED lets others commit between them and the write.

## Inventory

| Component | State | Operations | What is hard | What makes it correct | Module |
|---|---|---|---|---|---|
| Order pipeline (`customer/orders`, `kitchen/portal/orders`) | orders, status events, books in three ledgers, cart, coupon count | place, confirm and fail payment, cancel, kitchen's status, simulate | every call reads first and updates by id later; one commit moves money, coins, coupon and cart | nothing spent twice or lost, kitchens see only paid orders, the transition table | `Orders`, `OrderLifecycle`, `OrdersProofs` |
| Subscriptions (`kitchen/portal/subscriptions`, `customer/subscriptions`) | subscriptions, deliveries, billing events | create, approve, reject, pause and resume by either side, cancel, vacation for all, dispatch, skip, swap, reads | lazy settlement and backfills on every read, statements outside transactions | each cycle billed once at its price, deliveries never replanned, pauses end | `Subscriptions`, `SubscriptionsProofs` |
| Customer wallet (`customer/wallet`) | balance, ledger, withdrawals | top up, withdraw, operators' process, complete, fail | balance read before it is decremented; operators' calls unguarded or stale | no rupee lost, refunds given and final | `Withdrawals`, `LedgersProofs` |
| Kitchen payouts (`kitchen/portal/payouts`) | payouts; delivered orders | request, operators' calls | an amount computed from three aggregates read at three times | never more than the net earnings | `Payouts`, `PayoutsProofs` |
| Reel promotions, suggestions (`kitchen/portal/ads`, `ads-suggestions`) | campaigns with an accrual anchor, suggestions | create, pause, resume, stop, reads; generate, apply, dismiss | spend folded lazily from day differences; a charge and its mark are two commits | spend = live days, prepaid covers it, ended for good | `Campaigns`, `CampaignsProofs` |
| Premium plan, kitchen wallet, reels (`kitchen/portal/premium`, `wallet`, `reels`) | plan row, balance and ledger, reels | purchase, lazy renewal or expiry, publish, archive, top up | a read renews or expires; the cap is counted before the insert | a period charged once, a paid one honoured, the Basic cap | `Premium`, `PremiumProofs` |
| Cart (`customer/cart`, `common/utils/pricing.ts`) | cart, lines, what is applied | add, replace, update, clear, coupon, coins, story; becoming an order | kitchen read, line inserted later, replacement in three statements; what was applied outlives the items | lines of one kitchen, one line for each dish; an order qualifies for what it is given | `Cart`, `HandlersProofs` |
| Addresses, payment methods (`customer/addresses`, `payment-methods`) | rows, one of them default | create, update, set default, remove | the default is promoted on a row read before the transaction | one default | `Defaults`, `HandlersProofs` |
| Menu and plans (`kitchen/portal/menu`, `subscription-plans`) | dishes, plans | create, update, delete | partial updates judged with the columns they do not name | columns agree with each other | `Menu`, `HandlersProofs` |
| Profile and hours (`kitchen/portal/profile`, `operating-hours`, `common/utils/kitchen.ts`) | the old window, weekly sessions, holidays | set a day, holidays, profile, accept orders; a read that backfills | the backfill counts, then inserts a week; sessions past midnight | when it is open does not change by looking | `Hours`, `HandlersProofs` |
| Reviews, reels, stories, follows, wishlist (`discovery/*`, `customer/wishlist`) | denormalised ratings and counters, marks of each customer | review, like, save, follow, see, vote, delete an account | aggregates written late; two taps at once | a counter is the number of its rows, a rating includes every review answered | `Engagement`, `HandlersProofs` |
| Customer and kitchen notifications, order chat (`customer/notifications`, `orders`, `kitchen/portal/notifications`, `order-chat`) | a marker, messages, alerts | page, mark read, send, open | an inbox that is merged from four tables and cut into pages | every entry on one page, the badge counts what is newer | `Inbox`, `HandlersProofs` |
| Discovery listings (`discovery/kitchens`, `meals`, `reels`) | none of its own | page through a listing | a count and a page read at two times; filters SQL cannot do | full pages, a scroll that ends with everything | `Listings`, `HandlersProofs` |
| Customer and kitchen sessions (`identity`) | accounts, codes, refresh tokens | send, verify, refresh, log out, delete | rotation is a read, a revocation and an insert; two realms share the codes | a code and a token are used once; logging out ends every session | `Sessions`, `HandlersProofs` |
| Referrals (`platform/referral`) | codes, coins, redemptions | summary (makes the code), redeem | both check and act later | coins are the bonuses on record | `Referrals`, `HandlersProofs` |
| Onboarding, review, FSSAI assistance (`kitchen/onboarding`, `kitchen/admin`, `fssai-assistance`) | funnel step, what is given, account and kitchen status, assistance requests | save steps, submit, approve, reject; start, upload, pay, cancel, file; delete | the step is compared with a stale read, operators' calls check nothing | a live kitchen is complete; steps move forward; one open request, none cancelled after it is paid | `Vetting`, `HandlersProofs` |
| BhojAI (`kitchen/portal/bhojai`) | conversations, messages, escalations | ask, reset, resolve | a slow assistant between the question and the answer | nothing from before a reset is shown or sent after it | `BhojAi`, `HandlersProofs` |
| Request plumbing (guards, controllers, `app.module.ts`) | who is banned, the admin secret | a call from the router to the handler | 53 controllers with marks that disable the global guard; routes shadowing routes | a handler runs for a caller it may have | `Api`, `Routes`, `HandlersProofs` |
| Home rails, dashboards, nutrition estimates, uploads, support, legal, waitlist, SMS, Redis, Prisma, scripts | counters or single rows, if any | mostly reads | little or nothing | - | not modelled, see below |

The components meet in a few shared rows. Orders and subscriptions debit and refund the customer's wallet (through
`CustomerWalletService`, in the caller's transaction); orders spend and return the coins that referrals credit; delivered
orders are the revenue that payouts draw on; promotions and premium plans debit the kitchen's wallet; the premium plan
limits the reels a kitchen publishes; the cart becomes an order; a kitchen's sessions decide whether it may. The inbox is
derived from the rows of orders, messages, wallet and subscriptions. Otherwise components are independent, and the composed
instances below step one at a time.

## Modules

Definitions carry the names of the handlers they model. `Begin…`, `Load…`, `…Check` and `…Read` are the reads with their
early returns, `…Commit` or the bare name is the write. A definition whose comment starts with "Faulty:" is not part of the
specification: it is a plausible bug, used to see that a property notices it.

### Orders, OrderLifecycle

`Orders` models `orders.service.ts`, `kitchen-orders.service.ts` and what they call in the cart, coupon, referral and
wallet services. `placeOrder` is `PlaceReadItems` (cart and catalogue), `PlaceEvaluate` (coupon and coins, read later), for
a wallet order `PlaceDebitCheck`, and a commit: `PlaceCommitImmediate` for COD and WALLET (debit, coins, coupon, cart,
events), `PlaceCommitPending` for the rest, or `PlaceConflict` where the transaction throws; then `NotifyKitchen`.
`confirmPayment`, `failPayment`, `cancel` and `advanceStatus` are a read with its check and a commit that writes from the
row read: `SettleCancellation` refunds what *that* row says was taken. `books[o]` sums the ledger rows written for an order;
`events` counts its status events. One coupon, one price and one cart content stand for all; `FillCart` is the
customer filling it again.

`OrderLifecycle` is what the pipeline promises: one atomic step per legal transition of `ALLOWED_TRANSITIONS`, holding a
customer's money and coins exactly while the order wants them. `Orders!ImplementsLifecycle` maps the detailed tables to it.

`Spec` lets everything overlap. `LockedSpec` keeps the requests on one order from overlapping, as a row lock taken by the
first read would; it separates what the transactions give from what only luck gives.

### Subscriptions

One subscription's row, its deliveries per day and its bills per cycle. `Create` is one transaction. Every other handler
loads and checks (`Load` with `Admits`, or `LoadDelivery`) and writes later; `approve` and both `resume`s then run
`BackfillDeliveries` and `BackfillBilling`, two `createMany … skipDuplicates`, as does every `Read` of an active
subscription. `RejectRefund` and `RejectStatus` are the two commits of `reject`. `PauseIsOver`/`SettlePause` are
`settlePauseIfNeeded`. Days are `getIstCalendarDate()`; a customer's pause counts from the day it was loaded on, the
backfills from the day of their own `createMany`. Cycles are `CycleDays` long, the delivery window is today and the
`WindowDays` after it, and `OffDays` are the weekdays without delivery.

### Withdrawals, Payouts

`Withdrawals` is the customer's wallet by itself: `RequestWithdrawal` (the check), `DebitCheck`, `CommitWithdrawal`, and the
operators' three calls behind `RequireWithdrawal`; `Admits` has no check for `adminFail`, as the code has none. Withdrawal
names are fresh ids: two requests that happen to choose one name do not both insert it.

`Payouts` reads its three aggregates (`Aggregate`, in any order: they are a `Promise.all`) and creates a payout for all that
is available. `NetEarnings` is the floor of nine tenths, in rupees. Bank details and notifications are left out.

### Campaigns

`FoldSpend`, `Settled` and `SettledRow` are `foldSpend` and `settleIfNeeded` on a row that was *read* and the date of that
moment (`job[r].copy`, `job[r].date`), written over the row that is there: the code calls `getIstCalendarDate()` before the
awaited write, and `NextDay` may come between the two. `live` records the days a campaign has been active on, which the code does not store; the properties
compare the spend with it. Suggestions are generated (a check, the list that settles, an insert), applied (load, settle,
charge, mark) or dismissed. The wallet is only a sum of what was charged; a debit that fails rolls back, as an aborted
request does. `GenerateList` settles all active campaigns at once.

### Premium

The kitchen's wallet, plan and reels. `PurchaseCheck`/`PurchaseCommit` are `purchase`; `Read`, `RenewCheck`,
`RenewCommit` and `Expire` are `settleIfNeeded`, whose `catch` lets *any* failure of the renewal expire the plan; `copy[r]` holds
the plan that was read and the one to be written, whose period starts on the day of the read;
`PublishCheck`/`Publish` are the cap of the Basic plan. One price stands for the tiers, `PRO` for each tier without a cap.
`autoRenew` is never set to false by the code and is left out.

### Handlers

What the modules below share: `req[r]` is the frame of a request, that is the step it is at and what it carries from its
reads; `Begin`, `Goto`, `Continue`, `End` and `Abort` move it. `calls` is the set of endpoints called in a behaviour, chosen
initially from `Scenarios`: endpoints that touch the same rows are in one scenario, those that share nothing are not run
together.

### Cart, Defaults, Menu, Hours

`Cart` follows `addItem` through its look-ups (`CreateCart`, `CheckKitchen`) and the three statements of a replacement;
`pricing.ts` and the evaluation of coupon and coins are operators on whole rupees; checkout is `ReadItems`, `EvaluateOrder`,
`CommitOrder`, and `ConfirmPayment`/`ConfirmOrder` empties whatever is in the cart by then. `Orders` takes over where an order has been made.
`Defaults` is one list with a default; addresses and payment methods differ only in which calls they have. In `Menu` an update is a
partial record, and a rule is judged as the code does it, with the columns of the row read for those not named. `Hours` keeps
the row sets of `operating-hours.service.ts` and evaluates `isKitchenOpenNow` for every day and minute of a short clock.

### Engagement, Inbox, Listings

`Engagement`: a toggle reads its row and then inserts or deletes it together with the counter, `Bump` is the atomic increment; the
ratings are read by `AggregateRatings` and written by `WriteKitchenRating` and `WriteRating` later. `Inbox`: each row of its sources is stamped by a clock
that `Tick`s; `Page` merges the windows as `notifications.service.ts` does, and `Entries` is the list it stands for, as far as whole pages fit into `MAX_WINDOW`.
`Listings`: a scroll asks for page after page; `Count` and `FindMany` arrive in either order, being a `Promise.all`, and a listing
that the code filters itself counts what it kept; at any time a row may be hidden or change sides (`ChangeRow`); `Fetched` is what "nearby" over-fetches. Ties in the sort key are
resolved differently from page to page (`Orderings`), as PostgreSQL may.

### Sessions, Referrals, Vetting, BhojAi

`Sessions` has one telephone number, customers and partners with tokens of their own, and the codes both share. `outs` counts
the times all sessions of an account were ended; a token remembers the count of the sign-in it descends from. `AgeCodes` makes codes
expire, and leave the hour of the SMS limit. `Referrals`: `coinLog` sums what was credited. `Vetting` is one partner
from the funnel to a live kitchen: `Save` and then the three steps of `setStep`, `Submit`, the operators' `Approve` and `Reject` from a screen that may
be out of date (`Decidable` are the statuses they act on), the licence requests, and the deletion of the account. `BhojAi`: a
question is `FindConversation`, `Recall`, `SaveQuestion`, rounds of `Generate` and `UseTools` up to `MaxToolIterations`, and `SaveAnswer`;
the assistant's answer is a choice. `resets` counts resets, and a message knows the count it was written under.

### Api, Routes

`Routes` transcribes the controllers: for each route its verb, its path and the marks that decide about its guards, in the order `app.module.ts` registers
them. `Api` sends a call to each of them with any credentials: `Dispatch` finds the first route that fits, then the guards run in
order, each able to be overtaken by a ban.

### The variables `overlapped` and `crossed`

`Watch` (in the ledgers and `Subscriptions`) and `Goto` (in `Handlers`) set a history variable once two
requests about the same rows are in flight together. A property of the form `~overlapped => …` says what the handlers keep
by themselves, through any order of calls, crashes and retries, as long as calls do not overlap. A property
without it holds in every interleaving. `crossed`, in `Campaigns` only, is set once midnight has come between the date a
handler took (`Dating`) and the write that rests on it; the two properties that compare money with days say `~crossed` too.
Neither variable is read by an action.

What `~overlapped` and `~crossed` leave out is not promised, because the code does not keep it: each race met this way is listed under
Disagreements.

### Compositions

`MCLedgers` extends `Withdrawals` and instantiates `Payouts`, `Premium` and (twice, with and without pauses) `Campaigns`, of which a behaviour runs one.
It instantiates them through the modules that hold their theorems, `PayoutsProofs`, `PremiumProofs` and `CampaignsProofs`, so that `LedgersProofs` can carry these
theorems over to the composition. `MCStorefront` extends `Cart`,
`Defaults`, `Menu`, `Hours`, `Engagement`, `Inbox` and `Listings`, and `MCAccounts` `Sessions`, `Referrals`, `Vetting`, `BhojAi` and
`Api`: the requests are shared, the tables are not.

## Runs

All runs finish; the counts are distinct states. `CHECK_DEADLOCK FALSE` is set in every one, since each instance
legitimately stops: orders are used up, days and charges are bounded, all requests may be idle.

| Run | Asks | States |
|---|---|---|
| `orders_concurrent` | four requests on two orders of one customer, any interleaving: coins never negative, tracking agrees with the status, wallet orders paid when the kitchen sees them; notices, coupon uses and balances agree with what happened (`EffectsMatchHistory`); a refund commits only with a cancellation | 680 k |
| `orders_locked` | requests on one order one after the other: `BooksBalance` (the books of every order balance, gateway orders are paid before the kitchen sees them, a cancelled order keeps no money), and `Orders` implements `OrderLifecycle` | 200 k |
| `orders_double_refund` | *violation*: two cancellations refund twice | |
| `subs_concurrent` | two requests on one subscription, any interleaving: `FirstCycleKeepsItsPrice`, `BillsFollowCycles`, `RejectedIsRefunded`, `LifecycleIsKept` | 1.58 M |
| `subs_fair` | one request after the other, some of them dying: timed pauses end, and backfills catch up | 57 k |
| `subs_reversed_twice` | *violation*: a rejection that dies between its commits and is repeated refunds twice | |
| `ledgers` | two requests on the customer's wallet (15 k of the states), on payouts with an operator (470 k), on a premium plan with its wallet and reels, on promotions without pauses (what was charged covers what is spent) or with them (spend is live days, a stopped campaign stays stopped) | 4.09 M |
| `campaigns_never_end` | *violation*: a campaign resumed on its last day is active for ever | |
| `accounts` | two requests on sessions, a referral, a partner's application or a conversation; one call to each route: `SingleUse`, `SessionsEnd`, `ReferralsAgree`, `LiveIsComplete`, `PaidIsNotCancelled`, `StepsOnlyForward`, `ResetsForget`, `HandlersKnowTheirCaller` | 638 k |
| `listed_without_licence` | *violation*: a kitchen is live with no licence and none applied for | |
| `storefront` | two requests on a cart, a list, a dish, a plan, a schedule, reviews, counters, an inbox, and a scroll through a changing listing: `CartIsOneOrder`, `OrdersQualify`, `OneDefault`, `OffersAreCoherent`, `BackfillKeepsHours`, `CountersMatchRows`, `InboxIsOneList`, `ListingsAreWhole` | 908 k |
| `undeclared_dish` | *violation*: a null in an update takes the calories off a dish on sale | |

**Bounds, and why they are enough.** The hazards are races of two requests over one row, one request after another that
died, and boundaries of days. Two requests in flight show the first (orders have more because placing, paying and cancelling
one order takes one each); crashes are unbounded, `Abort` is enabled everywhere; the days reach past
every boundary (a first and a second cycle, a last day and the day after, an anchor beyond the end). `InitialWallet = 3` pays
one order of 3 and not two; one coin and one coupon use are the contested last ones. Amounts 1 and 2 with three rupees of
top-ups make a wallet that covers one request and not two. `OrderTotals` 10 and 15 give a tenth that is and one that is not
whole. `MaxRefunds`, `MaxCharges`, `MaxTopUps`, `MaxGross`, `MaxDay` and `CycleGuard` (which is also the code's loop guard,
there 500) bound counters; each leaves room for the one event too many its property is about, except `subs_concurrent`, where
`MaxRefunds = 1` cuts off the double refund that `subs_reversed_twice` shows. Different sets `Calls` and the `Scenarios` let instances
leave out endpoints that do not bear on the question; between the runs every action is taken.

In the storefront, prices 500, 150 and 350 lie on both sides of the coupon's and the coins' minimum, `QuantityCap = 3` stands
for the code's 20 and is reached, and two kitchens share three dishes. A list has three entries (two leave nothing to promote). Two days of four
minutes hold a night session that crosses midnight and a day whose row is judged the morning after. A page of one with four
rows gives pages before, at and beyond the last; `TakeFloor = 3` is less than the four rows, so that "nearby" also meets its cap; `MAX_WINDOW` is two pages.
Among the accounts: two codes and three tokens suffice for a second sign-in beside a rotation; three members make one both referrer and
referee; two referral codes for them make the unique key refuse one; two assistance requests make a second one open; two rounds of tools reach the limit.
`MaxLines`, `MaxPlaced`, `MaxReviews`, `MaxTaps`, `MaxClock`, `MaxChanges`, `MaxCodes`, `MaxTokens`, `MaxOuts`, `MaxAssist`,
`MaxQuestions`, `MaxResets` and `MaxEscalations` bound what is only ever added. `Simulatable` excludes the target `PLACED` (see Disagreements). Symmetry
is used for requests, orders and rows, never in a run with liveness.

**Fairness.** `Subscriptions!FairSpec` and `Campaigns!FairSpec` assume that a handler under way continues (weak fairness
of `Handle`), that a function is not killed every single time it gets to its settling or backfilling statement (strong
fairness of these), and that somebody keeps coming back to look at every subscription or campaign (strong fairness of
`Read`). The code has no scheduler, so the last is an assumption about its users, and exactly the one the
comments make ("the next read auto-resumes the subscription"). No fairness is assumed of any other call.

## Proofs

Every invariant and action property that a passing run checks is also a theorem, for any values of the constants that meet the
assumptions and the few hypotheses named below, as those of the runs do. Eight modules hold them: `Sums` (lemmas only), `OrdersProofs`, `SubscriptionsProofs`, `PayoutsProofs`, `PremiumProofs`, `CampaignsProofs`, `LedgersProofs`
(the customer's wallet, and the composition of the ledgers) and `HandlersProofs` (every module on top of `Handlers`, one section for each).

**From what.** The assumptions on the constants are named in the modules: `OrdersAssumption`, `WithdrawalsAssumption`,
`SubscriptionsAssumption`, `PayoutsAssumption`, `PremiumAssumption`, `CampaignsAssumption`, `ReferralsAssumption`, `SessionsAssumption`,
`EngagementAssumption`, `CartAssumption`, `InboxAssumption`, `ListingsAssumption`. They say that amounts, bounds and page sizes are
naturals of the right kind, that markers for "nothing" are not members, that tables which are summed or counted are finite, and that customers and partners are
different accounts. TLC evaluates them in the runs (`LedgersAssumption` those of the instances in `MCLedgers`). `RoutesAssumption` is
another kind: what the table of routes has to satisfy for `HandlersAreGuarded`. The theorem has it as a hypothesis and TLC evaluates it, route by route, in `accounts`.

**Sums.** Balances are compared with sums of rows (`SumFunctionOnSet`), whose definition recurs over the index set. The library's induction theorems cannot be instantiated by the
provers at hand, so `Sums` proves induction for a property given as a *set*: `NatSets` over the naturals, `SubsetInduction` over
the subsets of a finite set. From there: the recursion is well defined (`RecursExists`, `RecursUnique`), the order of its choices
does not matter (`SumRemove`), and a step that changes one row changes the sum by the difference (`SumChange`, `SumInsert`).

### In every interleaving

* `OrdersProofs!TypeCorrect`, `CoinsStayNonNegative`: `Inv == TypeOK /\ CoinsNeverNegative`. The two need each
  other: a cart and an order hold a natural number of coins because the balance they are clamped to is natural, and a
  balance stays natural because commits check it against a natural number.
* `TrackingAgrees`, `WalletOrdersArePaid`, `RefundsCancel`: `Shape` adds that a row about to be created has the status its payment
  method asks for (`Drafts`), that a request only holds orders that exist (`Known`), that no transition leads back to
  PENDING_PAYMENT (`Forward`), and that ids not yet drawn have no payment method of their own (`Unborn`). They hold in spite of
  stale reads because status and event, refund and cancellation are written by one commit.
* `EffectsAreAccounted`: `Effects` adds that an order not created yet has no event and no ledger row (`Blank`), that a cancellation pays back the
  customer whose order it is (`Owned`), that no status update goes to PLACED (`NotPlacing`), and that notices, with those of requests about to
  send one, are no more than PLACED events (`Notified`). Hypothesis `"PLACED" \notin Simulatable`: the simulator's transition confirms without the effects of a confirmation, see
  Disagreements.
* `SubscriptionsProofs!FirstCycleIsKept`, `BillsAreInOrder`, `RejectionsRefund`: `Inv` joins the three with types, `Begun` (a
  request in flight is about a row that is there), `Unborn` (a row that is not there has neither bills nor a charge) and `Reversed` (a
  rejection past its first commit has the refund on record). Bills need the order of cycles only (`CycleOrder`): a `createMany`
  with `skipDuplicates` neither skips a cycle nor touches one that is there.
* `LedgersProofs!TypeCorrect`, `FailuresAreRefunded`, `FundsAreReserved`: every rupee is in the balance or in a withdrawal, as debit and insert, status and refund
  are written by one commit each. `Booked` adds that a withdrawal not drawn yet has neither amount nor refund, and that an operator's call carries the amount of its withdrawal.
* `PremiumProofs!PeriodsArePaid`: the wallet accounts for every purchase and renewal. (That a period is renewed once is of the next kind.)
* `HandlersProofs`: `BackfillIsInvisible` (the week that the backfill writes is what the single window meant, and rows that came in
  meanwhile are kept); the counters of `CountersAreRight` (row and counter change in one commit); `PlacedOrdersQualify` (coupon and
  coins are evaluated on the items the request itself has read and is about to charge for); the freshness half of `ResetsAreFinal` (an active conversation holds nothing from before the last
  reset); `HandlersAreGuarded`.
* `PagesAreOneList`: an inbox merges windows of `page * PageSize` rows of each source. No two rows share a stamp, and of the subscription's stamps the one its status is shown with is set; so an entry
  among the newest `n` of all is among the newest `n` of its source, and pages are consecutive cuts of one list, for as many pages as fit
  into `MAX_WINDOW`.
* `ScrollsAreWhole`: `ScrollOK` says of each page that it has as many rows as its total leaves (`Truthful`), and, while nothing has changed, that it is a
  slice (`Slice`): the rows with so many others before them, where no two tie. Pages up to the last are full, so their lengths add up to the number of
  matches. "Nearby" adds `Boxed`: the box holds no more than are fetched.

### As long as requests do not overlap

A second layer, `~overlapped => Alone`, on top of what holds in every interleaving: at most one request is in flight (`OneAtATime`, `OneByOne`) and
what it has read is still so. `Alone` is inductive only together with the property, and is precisely what READ COMMITTED does not give.

* `LedgersProofs!BalanceCovers`, `RefundsAreFinal`: `Funds` (a debit that passed its check is covered) and `Current`.
* `SubscriptionsProofs!LifecycleHolds`: `Current` says which status each request has read at each of its steps.
* `PayoutsProofs!PayoutsStayWithinEarnings`: `FreshSums` (each aggregate read so far is the total of the rows; deliveries may add to the gross
  meanwhile, which only helps) and `Covered`.
* `PremiumProofs!PaidPeriodsAreKept`, and the renewals of `PeriodsArePaid`: `Fresh` and `RenewedBefore`: a period that was renewed is over before
  the plan's end.
* `CampaignsProofs!StoppedStaysStopped`, `SuggestionsAreChargedOnce` (an application that died between charge and mark finds the raised budget
  and does not charge again), `ChargesAreEnough` and `LiveDaysAreBilledOnce`. The last two have hypotheses about what the kitchen calls.
  `Prepaid` (what was charged covers what has accrued and all days from the anchor to the end) is not kept by a pause or a stop after the last day, so `ChargesAreEnough` has
  `Calls \cap {"pause", "stop"} = {}`. `Billed` (accrued plus the days since the anchor is live days times the budget) is not
  kept when a suggestion raises the budget, so `LiveDaysAreBilledOnce` has `"apply" \notin Calls`. These are the two instances of `ledgers`.
  Both also end with `crossed`: until then `Dated` says that a request that carries a date (`DatedJob`) carries today's, and
  what it will write is what it would compute now.
* `HandlersProofs`: `OneEntryIsDefault`; `PlansStayCoherent` (a partial update is judged with the row it read); `CoinsFollowReferrals`; `SignInsAreSingleUse` and
  `LogoutsEndSessions` (`CodesSingle`, `TokensSingle`, and `SignInCurrent`: a sign-in on its way to a token has used its code up, and nobody
  has logged out since); `PaidRequestsStand`; `CartsAreOneOrder`; the ratings of `CountersAreRight`; the order of questions and answers in `ResetsAreFinal`.
* `LiveKitchensAreComplete`, `TheFunnelMovesForward`: under `OnlyTheQueue`, that operators decide what is under review. The code of their two calls
  looks at no status, so without it they are false (Disagreements); the list operators work from shows the UNDER_REVIEW queue unless they ask for another.
* `OrdersProofs!BooksAreBalanced`, `LifecycleIsImplemented` are about `LockedSpec`, where requests on *one* order do not overlap and others
  do. `Locked` adds to `Inv` and `Shape` that a request's snapshot is still the row (`Held`), that orders about to be created or
  live are paid if they are to be, and `BooksBalance` itself: without it the commit of a cancellation, which refunds what its snapshot
  says, would not be the abstract `Cancel`. Every commit is one action of `OrderLifecycle`, every other step a stutter. Hypothesis again: `"PLACED" \notin Simulatable`.

### Compositions

`KitchensStayWithinEarnings`, `KitchensPayTheirPlans`, `KitchensKeepPaidPeriods`, `KitchensAreChargedEnough`, `KitchensPayEachLiveDayOnce` and `KitchensEndForGood`
carry the theorems of the kitchen's components over to `LedgersSpec`, in which only one component moves: its steps are steps of the component or leave its tables
alone. The modules on `Handlers` are proved about specifications of their own (`CartSpec`, `SessionsSpec` and so on: the actions that `MCAccounts` and
`MCStorefront` compose, with any set of calls instead of one of the `Scenarios`).

**Only model-checked.** `TimedPauseEnds` and `BackfillsCatchUp`, which are liveness under fairness and need ENABLED; and `RoutesAssumption`, which is a computation over one table.

## Disagreements

Where the code does not do what a comment, a document or a neighbouring line says. The first five are runs; the
others were met while modelling, each is a behaviour of the modules, and the properties are stated so as not to deny it.

*Runs.* `orders_double_refund`: overlapping cancellations refund twice (`orders.service.ts:413`; line 650 "Gives back what a
cancelled order already took"). `subs_reversed_twice`: a repeated rejection refunds twice
(`kitchen-subscriptions.service.ts:164`). `campaigns_never_end`: `kitchen-ads.service.ts:228` returns before the ENDED of
lines 219-220. `listed_without_licence`: an open assistance request stands in for the licence when the funnel is submitted,
and may be cancelled afterwards (`fssai-assistance.service.ts:83`; `onboarding.constants.ts:62` "These cannot be skipped"). `undeclared_dish`:
`{calories: null}` passes the publish rule with the number it erases (`kitchen-menu.service.ts:114`; the DTO's lines 74-75).

*Orders.*
- By overlap: a kitchen's accept that read PLACED revives an order cancelled meanwhile (`orders.service.ts:433` updates
  by id); `failPayment` writes FAILED over a confirmation (318); a wallet is overdrawn (`wallet.service.ts:55`); an order
  confirmed between a cancellation's read and its commit loses the coins it has just spent, since the row that was read is
  PENDING_PAYMENT (668).
- Without overlap: the coupon's `usedCount` passes
  `usageLimit` when several pending orders priced with the last use are confirmed (283 counts, nothing checks).
- `orders.controller.ts:45` says WALLET orders come back PENDING_PAYMENT and must be confirmed; they come back PLACED and PAID.
- The simulator (`orders.controller.ts:179`) may move PENDING_PAYMENT to PLACED without the coins, coupon, cart and notice of a
  confirmation, after which a cancellation returns coins that were not spent. It answers nothing in production.

*Subscriptions.*
- `schema.prisma:1631-1634` says a kitchen's indefinite pause leaves `pausedUntil` null. The kitchen's resume
  (`kitchen-subscriptions.service.ts:194`) clears `pausedAt` only, so the kitchen's next pause carries an old date and ends
  by itself. `TimedPauseEnds` covers such pauses.
- By overlap: an approval is written over a cancellation (122), a swap over a dispatch (508).

*Wallet.*
- `adminFail` (`wallet.service.ts:180-182`) looks at no status: repeating it refunds again, and it fails a withdrawal that is
  PAID. `schema.prisma:1790-1792` says the balance is debited "so a customer can't request more than they have twice over"; two
  requests that overlap do (55, 120).

*Payouts.* Two requests that overlap both take all that is available (`payouts.service.ts:72`); the aggregates of 197 are not
one snapshot; `adminFail` (181) fails a payout that is PAID.

*Campaigns.* A pause after the last day, of a campaign nobody has read since, bills the days past `endDate` too
(`kitchen-ads.service.ts:153` folds through today, where line 227 stops at `endDate`), so that a
campaign may have spent more than it was charged for; pauses that overlap a resume bill days the campaign was
paused on. `resume` (173) does not look for another active campaign of the reel, which `create` (51)
refuses, and writes ACTIVE over a `stop` that overlaps it. By midnight: a date is taken before the awaited write (153, 171, 188, 225),
so a pause or stop that commits on the next day leaves that day unbilled, a resume bills the day before it too, and a raise
settled before midnight and priced after it (99) does not charge the day between. Suggestions: two batches a day (`ads-suggestions.service.ts:37`), one
charged twice (134) or dismissed after its charge (172), all by overlap.

*Premium.* By overlap: a plan is renewed twice (`premium.service.ts:188`), expired although another request has just paid (202), and
the Basic cap exceeded (147).

*Cart.* Removing the last line keeps coupon, coins and story on the empty cart; a confirmation empties what the customer has put in since. By overlap: lines of two kitchens.

*Lists.* Saving the default card or UPI id again without the flag leaves no default.

*Menu.* An update to `foodType: EGG` keeps `isJainAvailable` (`kitchen-menu.service.ts:117`). By overlap: two updates each judged with the other's old columns.

*Hours.* After midnight a night session is judged by the next day's row (`utils/kitchen.ts:16`). Once backfilled, editing `opensAt` of the profile has no effect; "0 or
7 rows" (`utils/kitchen.ts:106`) is not so after setting one day of an empty week.

*Engagement.* Deleting an account takes its likes along and leaves the counters (the model's `rowless`). `findOne` of a reel says "Same
visibility rule as the feed" and does not look at PUBLISHED. The live condition of stories has a `new Date()` that is evaluated when
the module is imported (`stories.service.ts:284-287`).

*Inbox.* Pages beyond `MAX_WINDOW` are empty although `meta.total` counts them. An event stamped before the marker and committed after it is never unread. The list of chats marks
messages read before it has returned them.

*Listings.* The sort keys of the SQL listings tie, so a row can appear twice or not at all; only "nearby" breaks ties. The total of "nearby" depends on the page,
since `take` does. The open pill of a dish ignores holidays (the selectors' comment says so on purpose), so `openOnly` lists dishes of a kitchen on holiday. Search
suggestions of the home screen show dishes of kitchens that are not ACTIVE.

*Sessions.* Logging out with a refresh token revokes all devices, where swagger says the current one (`auth.service.ts:426-437`). A customer's
code is looked up without its purpose and uses up all others; `kitchen-auth.service.ts:78-79` says a partner's code "cannot be replayed
against the customer LOGIN flow". An access token outlives its account. Refused at once is who is banned, because the cache of users is a stub.

*Referrals.* By overlap: two first calls make two codes, of which the one handed out first is lost; both redemptions are paid.

*Vetting.* The operators' calls check no status by themselves: a confirmed payment takes an APPROVED assistance request back, a rejection after an approval leaves the
kitchen ACTIVE, an approval from a stale screen revives a deleted account. Deleting an account keeps its UPI ids.

*BhojAI.* The schema says "One conversation per account at a time"; two first messages that overlap make two. A message that is being answered
during a reset is written to the archived conversation. Escalations are never linked to a conversation and are not deduplicated.

*Plumbing.* Some twenty POST routes answer 201 and are documented as 200 (`api-envelope.decorator.ts` "Overrides the default 200"). The
serverless entry (`src/api/index.ts`) installs no exception filter and no response transformer, `main.ts` does. A kitchen named "Following" has a page that `GET /kitchens/following` hides.

## Not modelled, and why

`PROJECT.json` lists every component with its reason. In the modelled ones: validation of a request's own fields, address,
slot and opening hours at checkout (they reject before any shared state is read); fees and taxes in `Orders` and `Subscriptions`, which know one total; texts, order
numbers; the first-access `upsert` that creates a wallet; the
`serviceRadiusKm` a DELIVERY_RADIUS suggestion sets; campaign analytics, views and shares of reels (bare increments). External services (SMS, uploads, assistants) are
calls without state here, their answers are choices. Home rails, dashboards and look-ups only read. Seed and smoke scripts are run by hand. A request that waits for a row lock is a request that takes its step later. Liveness of the
customer-facing flows other than the two lazy mechanisms is not claimed: nothing in the code retries them.

## Plan

Done, in this order: `Orders` with its abstract specification and first proofs, the modules that share its wallets
(`Withdrawals`, `Subscriptions`, `Payouts`), the kitchen's money (`Campaigns`, `Premium`), the accounts (`Sessions`, `Referrals`,
`Vetting`, `BhojAi`, `Api`), the storefront (`Cart`, `Defaults`, `Menu`, `Hours`, `Engagement`, `Inbox`, `Listings`), and a theorem for every
invariant and action property of the passing runs.

Left:
* A ledger as an abstract specification (the balance is the sum of its rows and never negative), which `Withdrawals` and `Premium` implement without
  overlap. `FundsAreReserved` and `PeriodsArePaid` are the invariants of that mapping.
* The subscription's lifecycle as an abstract specification, as `OrderLifecycle` is the order's; `LifecycleHolds` is its step property.
* `Cart` composed with the `CartRow` of `Orders`, so that the order made from a cart is the order whose books balance.
* The theorems of the modules on `Handlers` carried over to the compositions of `MCAccounts` and `MCStorefront`.

Hazards without a property, because no document says what should hold: the reserved charge of a request cancelled while PENDING
(`kitchen-subscriptions.service.ts:403`), items added while a payment is pending (`orders.service.ts:277`). Nor does one forbid two active campaigns of one reel
(`kitchen-ads.service.ts:173`) or two batches of suggestions a day (`ads-suggestions.service.ts:37`).
