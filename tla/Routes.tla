------------------------------- MODULE Routes -------------------------------
(***************************************************************************)
(* The endpoints of the API: the routes of every controller, with the       *)
(* decorators that decide who may call them, in the order Nest registers    *)
(* them (app.module.ts, depth first through each module's imports).         *)
(***************************************************************************)
EXTENDS SequencesExt

Id == "*"    \* a parameter in a path: it matches any segment

Route(verb, path, handler) == [verb |-> verb, path |-> path, handler |-> handler, marks |-> {}]
Get(path, handler) == Route("GET", path, handler)
Post(path, handler) == Route("POST", path, handler)
Put(path, handler) == Route("PUT", path, handler)
Patch(path, handler) == Route("PATCH", path, handler)
Delete(path, handler) == Route("DELETE", path, handler)

(* Decorators of a route, and of a class. *)
Open(route) == [route EXCEPT !.marks = @ \cup {"Public"}]
Guarded(route) == [route EXCEPT !.marks = @ \cup {"KitchenAuthGuard"}]
Signed == {}
Partner == {"KitchenScope", "KitchenAuthGuard"}
Operator == {"Public", "AdminSecretGuard"}

(* The routes of a controller, with its prefix and its class's decorators. *)
Controller(prefix, marks, routes) ==
    [i \in DOMAIN routes |-> [routes[i] EXCEPT !.path = prefix \o @, !.marks = @ \cup marks]]

-----------------------------------------------------------------------------
(* What a customer has an account for. *)

AuthController == Controller(<<"auth">>, Signed, <<
    Open(Post(<<"otp", "send">>, "sendOtp")),
    Open(Post(<<"account-deletion", "request">>, "requestAccountDeletion")),
    Open(Post(<<"account-deletion", "confirm">>, "confirmAccountDeletion")),
    Open(Post(<<"account-type">>, "getAccountType")),
    Open(Post(<<"otp", "verify">>, "verifyOtp")),
    Open(Post(<<"token", "refresh">>, "refreshToken")), Post(<<"logout">>, "logout"),
    Get(<<"me">>, "me")>>)

ReferralController == Controller(<<"referral">>, Signed, <<
    Get(<<"me">>, "me"), Post(<<"redeem">>, "redeem")>>)

UsersController == Controller(<<"customer", "profile">>, Signed, <<
    Get(<<>>, "getProfile"), Post(<<"complete">>, "completeProfile"),
    Patch(<<"image">>, "updateProfileImage"), Patch(<<"location">>, "updateLocation"),
    Patch(<<"fcm-token">>, "updateFcmToken")>>)

AddressesController == Controller(<<"customer", "addresses">>, Signed, <<
    Get(<<>>, "list"), Get(<<"default">>, "getDefault"), Post(<<>>, "create"),
    Patch(<<Id>>, "update"), Patch(<<Id, "default">>, "setDefault"), Delete(<<Id>>, "remove")>>)

CartController == Controller(<<"customer", "cart">>, Signed, <<
    Get(<<>>, "get"), Get(<<"count">>, "count"), Post(<<"items">>, "addItem"),
    Patch(<<"items", Id>>, "updateItem"), Delete(<<"items", Id>>, "removeItem"),
    Delete(<<>>, "clear"), Post(<<"coupon">>, "applyCoupon"),
    Delete(<<"coupon">>, "removeCoupon"), Post(<<"coins">>, "applyCoins"),
    Delete(<<"coins">>, "removeCoins")>>)

OrdersController == Controller(<<"customer", "orders">>, Signed, <<
    Post(<<>>, "place"), Get(<<>>, "history"), Get(<<"active">>, "active"),
    Get(<<Id>>, "detail"), Get(<<Id, "tracking">>, "tracking"),
    Post(<<Id, "confirm-payment">>, "confirmPayment"),
    Post(<<Id, "fail-payment">>, "failPayment"), Post(<<Id, "cancel">>, "cancel"),
    Post(<<Id, "reorder">>, "reorder"), Post(<<Id, "simulate", Id>>, "simulate")>>)

OrderMessagesController == Controller(<<"customer", "orders">>, Signed, <<
    Get(<<Id, "messages">>, "list"), Post(<<Id, "messages">>, "send"),
    Post(<<Id, "messages", "read">>, "markRead")>>)

CustomerWalletController == Controller(<<"customer", "wallet">>, Signed, <<
    Get(<<>>, "summary"), Get(<<"transactions">>, "transactions"), Post(<<"topup">>, "topUp"),
    Get(<<"withdrawals">>, "withdrawals"), Post(<<"withdraw">>, "withdraw")>>)

CustomerReviewsController == Controller(<<"customer", "reviews">>, Signed, <<
    Post(<<"kitchens", Id>>, "create"), Get(<<"pending">>, "pending"),
    Post(<<Id, "helpful">>, "helpful")>>)

WishlistController == Controller(<<"customer", "wishlist">>, Signed, <<
    Get(<<"counts">>, "counts"), Get(<<"meals">>, "meals"),
    Post(<<"meals", Id>>, "toggleMeal")>>)

PaymentMethodsController == Controller(<<"customer", "payment-methods">>, Signed, <<
    Get(<<>>, "list"), Post(<<>>, "save"), Patch(<<Id, "default">>, "setDefault"),
    Delete(<<Id>>, "remove"), Get(<<"upi">>, "listUpi"), Post(<<"upi">>, "addUpi"),
    Patch(<<"upi", Id, "default">>, "setDefaultUpi"), Delete(<<"upi", Id>>, "removeUpi")>>)

SubscriptionsController == Controller(<<"customer", "subscriptions">>, Signed, <<
    Post(<<>>, "create"), Post(<<"quote">>, "quote"), Post(<<"pause-all">>, "pauseAll"),
    Get(<<>>, "list"), Get(<<Id>>, "findOne"), Post(<<Id, "cancel">>, "cancel"),
    Post(<<Id, "pause">>, "pause"), Post(<<Id, "resume">>, "resume"),
    Post(<<Id, "deliveries", Id, "meal">>, "swapMeal")>>)

CustomerNotificationsController == Controller(<<"customer", "notifications">>, Signed, <<
    Get(<<>>, "list"), Get(<<"unread-count">>, "unreadCount"),
    Post(<<"read-all">>, "readAll")>>)

-----------------------------------------------------------------------------
(* What everyone may look at; Open routes greet a customer who is signed in. *)

AppController == Controller(<<>>, Signed, <<
    Open(Get(<<"health">>, "health"))>>)

WebWaitlistController == Controller(<<"web-waitlist">>, Signed, <<
    Open(Post(<<"user">>, "registerUser")), Open(Post(<<"kitchen">>, "registerKitchen"))>>)

CatalogController == Controller(<<"catalog">>, Signed, <<
    Open(Get(<<"categories">>, "categories")), Open(Get(<<"cuisines">>, "cuisines")),
    Open(Get(<<"goal-tags">>, "goalTags")), Open(Get(<<"areas">>, "areas")),
    Open(Get(<<"serviceability">>, "serviceability"))>>)

KitchensController == Controller(<<"kitchens">>, Signed, <<
    Open(Get(<<>>, "list")), Get(<<"following">>, "following"), Open(Get(<<Id>>, "detail")),
    Open(Get(<<Id, "media">>, "media")), Open(Get(<<Id, "menu">>, "menu")),
    Open(Get(<<Id, "subscription-plans">>, "subscriptionPlans")),
    Post(<<Id, "follow">>, "follow")>>)

MealsController == Controller(<<"meals">>, Signed, <<
    Open(Get(<<>>, "list")), Open(Get(<<"trending-nearby">>, "trendingNearby")),
    Get(<<"favorites">>, "favorites"), Open(Get(<<Id>>, "detail")),
    Open(Get(<<Id, "similar">>, "similar")), Post(<<Id, "favorite">>, "toggleFavorite")>>)

CouponsController == Controller(<<"coupons">>, Signed, <<
    Open(Get(<<>>, "list"))>>)

ReviewsController == Controller(<<>>, Signed, <<
    Open(Get(<<"kitchens", Id, "reviews">>, "kitchenReviews")),
    Open(Get(<<"kitchens", Id, "reviews", "summary">>, "summary")),
    Open(Get(<<"meals", Id, "reviews">>, "mealReviews"))>>)

ReelsController == Controller(<<"reels">>, Signed, <<
    Open(Get(<<>>, "feed")), Get(<<"saved">>, "saved"), Open(Get(<<Id>>, "detail")),
    Post(<<Id, "like">>, "like"), Post(<<Id, "save">>, "save"),
    Open(Post(<<Id, "view">>, "view")), Open(Post(<<Id, "share">>, "share"))>>)

StoriesController == Controller(<<"stories">>, Signed, <<
    Open(Get(<<>>, "feed")), Open(Get(<<"kitchens", Id>>, "forKitchen")),
    Open(Post(<<Id, "seen">>, "seen")), Post(<<Id, "like">>, "like"),
    Open(Post(<<Id, "share">>, "share"))>>)

SupportController == Controller(<<"support">>, Signed, <<
    Open(Get(<<"contact">>, "contact")), Open(Get(<<"faqs">>, "faqs")),
    Get(<<"notification-preferences">>, "getPreferences"),
    Patch(<<"notification-preferences">>, "updatePreferences"),
    Get(<<"profile-stats">>, "stats")>>)

LegalController == Controller(<<"legal">>, Signed, <<
    Open(Get(<<>>, "list")), Open(Get(<<Id>>, "getOne"))>>)

HomeController == Controller(<<"home">>, Signed, <<
    Open(Get(<<"feed">>, "feed")), Open(Get(<<"search-suggestions">>, "suggestions"))>>)

-----------------------------------------------------------------------------
(* The kitchen partner's portal.  KitchenAuthController guards one route of its own. *)

NotificationsController == Controller(<<"partner", "notifications">>, Partner, <<
    Get(<<>>, "list"), Post(<<Id, "read">>, "markRead"), Post(<<"read-all">>, "markAllRead")>>)

KitchenSubscriptionsController == Controller(<<"partner", "subscriptions">>, Partner, <<
    Get(<<>>, "list"), Get(<<Id>>, "findOne"), Post(<<Id, "approve">>, "approve"),
    Post(<<Id, "reject">>, "reject"), Post(<<Id, "pause">>, "pause"),
    Post(<<Id, "resume">>, "resume"), Post(<<Id, "deliveries", Id, "dispatch">>, "dispatch"),
    Post(<<Id, "deliveries", Id, "skip">>, "skip")>>)

KitchenAuthController == Controller(<<"partner", "auth">>, {"KitchenScope"}, <<
    Open(Post(<<"otp", "send">>, "sendOtp")), Open(Post(<<"otp", "verify">>, "verifyOtp")),
    Open(Post(<<"token", "refresh">>, "refresh")),
    Open(Post(<<"account-deletion", "request">>, "requestAccountDeletion")),
    Open(Post(<<"account-deletion", "confirm">>, "confirmAccountDeletion")),
    Guarded(Post(<<"logout">>, "logout"))>>)

OnboardingController == Controller(<<"partner", "onboarding">>, Partner, <<
    Get(<<"status">>, "status"), Post(<<"owner-details">>, "ownerDetails"),
    Post(<<"kitchen-details">>, "kitchenDetails"), Post(<<"location">>, "location"),
    Post(<<"documents">>, "documents"), Post(<<"bank-details">>, "bankDetails"),
    Post(<<"submit">>, "submit"), Post(<<"simulate", "approve">>, "simulateApprove")>>)

KitchenProfileController == Controller(<<"partner", "kitchen">>, Partner, <<
    Get(<<>>, "getOwn"), Patch(<<>>, "update"),
    Patch(<<"accepting-orders">>, "setAcceptingOrders")>>)

KitchenMenuController == Controller(<<"partner", "menu">>, Partner, <<
    Post(<<"analyze">>, "analyze"), Get(<<>>, "list"), Get(<<Id>>, "findOne"),
    Post(<<>>, "create"), Patch(<<Id>>, "update"),
    Patch(<<Id, "availability">>, "setAvailability"), Delete(<<Id>>, "remove")>>)

KitchenOrdersController == Controller(<<"partner", "orders">>, Partner, <<
    Get(<<>>, "findAll"), Get(<<"incoming">>, "findIncoming"), Get(<<Id>>, "findOne"),
    Post(<<Id, "status">>, "advanceStatus")>>)

KitchenStoriesController == Controller(<<"partner", "stories">>, Partner, <<
    Get(<<>>, "list"), Post(<<>>, "publish"), Patch(<<Id>>, "updateCaption"),
    Delete(<<Id>>, "deactivate")>>)

KitchenDashboardController == Controller(<<"partner", "dashboard">>, Partner, <<
    Get(<<"summary">>, "summary")>>)

KitchenUploadController == Controller(<<"partner", "upload">>, Partner, <<
    Post(<<>>, "upload")>>)

KitchenReelsController == Controller(<<"partner", "reels">>, Partner, <<
    Get(<<>>, "list"), Post(<<>>, "publish"), Patch(<<Id>>, "update"),
    Delete(<<Id>>, "archive"), Post(<<Id, "pause">>, "pause"),
    Post(<<Id, "resume">>, "resume")>>)

PremiumController == Controller(<<"partner", "premium">>, Partner, <<
    Get(<<"tiers">>, "tiers"), Get(<<"subscription">>, "mySubscription"),
    Post(<<"purchase">>, "purchase")>>)

WalletController == Controller(<<"partner", "wallet">>, Partner, <<
    Get(<<>>, "summary"), Get(<<"transactions">>, "transactions"), Post(<<"topup">>, "topUp")>>)

FssaiAssistanceController == Controller(<<"partner", "fssai-assistance">>, Partner, <<
    Get(<<"status">>, "status"), Post(<<"start">>, "start"), Post(<<"documents">>, "documents"),
    Post(<<"confirm-payment">>, "confirmPayment"), Post(<<"cancel">>, "cancel"),
    Post(<<"simulate", "advance">>, "simulateAdvance")>>)

BhojAiController == Controller(<<"partner", "bhojai">>, Partner, <<
    Post(<<"message">>, "sendMessage"), Get(<<"history">>, "history"),
    Post(<<"reset">>, "reset")>>)

PayoutsController == Controller(<<"partner", "payouts">>, Partner, <<
    Get(<<"summary">>, "summary"), Post(<<"request">>, "request"), Get(<<>>, "transactions")>>)

OperatingHoursController == Controller(<<"partner", "operating-hours">>, Partner, <<
    Get(<<>>, "getWeekly"), Put(<<Id>>, "updateDay"), Post(<<"holidays">>, "upsertHoliday"),
    Delete(<<"holidays", Id>>, "removeHoliday")>>)

KitchenAdsController == Controller(<<"partner", "ads", "campaigns">>, Partner, <<
    Get(<<"estimate">>, "estimate"), Get(<<"analytics">>, "analytics"), Post(<<>>, "create"),
    Get(<<>>, "list"), Get(<<Id>>, "findOne"), Post(<<Id, "pause">>, "pause"),
    Post(<<Id, "resume">>, "resume"), Post(<<Id, "stop">>, "stop")>>)

SubscriptionPlansController == Controller(<<"partner", "subscription-plans">>, Partner, <<
    Get(<<>>, "list"), Post(<<>>, "create"), Patch(<<Id>>, "update")>>)

KitchenOrderChatController == Controller(<<"partner", "orders">>, Partner, <<
    Get(<<Id, "messages">>, "list"), Post(<<Id, "messages">>, "send")>>)

AdsSuggestionsController == Controller(<<"partner", "ads", "suggestions">>, Partner, <<
    Post(<<"generate">>, "generate"), Get(<<>>, "list"), Get(<<Id>>, "findOne"),
    Post(<<Id, "apply">>, "apply"), Post(<<Id, "dismiss">>, "dismiss")>>)

-----------------------------------------------------------------------------
(* The operators' tools. *)

CustomerWalletAdminController == Controller(<<"admin", "customer-wallet-withdrawals">>, Operator, <<
    Get(<<>>, "list"), Post(<<Id, "process">>, "process"), Post(<<Id, "complete">>, "complete"),
    Post(<<Id, "fail">>, "fail")>>)

KitchenAdminController == Controller(<<"admin", "kitchen-accounts">>, Operator, <<
    Get(<<>>, "list"), Post(<<Id, "approve">>, "approve"), Post(<<Id, "reject">>, "reject")>>)

KitchenReelsAdminController == Controller(<<"admin", "reels">>, Operator, <<
    Patch(<<Id, "sponsor">>, "setSponsored")>>)

FssaiAssistanceAdminController == Controller(<<"admin", "fssai-assistance-requests">>, Operator, <<
    Get(<<>>, "list"), Post(<<Id, "file">>, "file"), Post(<<Id, "approve">>, "approve"),
    Post(<<Id, "reject">>, "reject")>>)

BhojAiAdminController == Controller(<<"admin", "bhojai-escalations">>, Operator, <<
    Get(<<>>, "list"), Post(<<Id, "resolve">>, "resolve")>>)

PayoutsAdminController == Controller(<<"admin", "payouts">>, Operator, <<
    Get(<<>>, "list"), Post(<<Id, "process">>, "process"), Post(<<Id, "complete">>, "complete"),
    Post(<<Id, "fail">>, "fail")>>)

OrderChatAdminController == Controller(<<"admin", "orders">>, Operator, <<
    Get(<<Id, "messages">>, "list")>>)

-----------------------------------------------------------------------------
(* The router of the application. *)
AppModule == FlattenSeq(<<
    AppController, AuthController, ReferralController, UsersController,
    WebWaitlistController, CatalogController, KitchensController, MealsController,
    AddressesController, CouponsController, CartController, OrdersController,
    OrderMessagesController, NotificationsController, CustomerWalletController,
    CustomerWalletAdminController, ReviewsController, CustomerReviewsController,
    ReelsController, StoriesController, WishlistController, PaymentMethodsController,
    SubscriptionsController, KitchenSubscriptionsController,
    CustomerNotificationsController, SupportController, LegalController, HomeController,
    KitchenAuthController, OnboardingController, KitchenAdminController,
    KitchenProfileController, KitchenMenuController, KitchenOrdersController,
    KitchenStoriesController, KitchenDashboardController, KitchenUploadController,
    KitchenReelsController, KitchenReelsAdminController, PremiumController,
    WalletController, FssaiAssistanceController, FssaiAssistanceAdminController,
    BhojAiController, BhojAiAdminController, PayoutsController, PayoutsAdminController,
    OperatingHoursController, KitchenAdsController, SubscriptionPlansController,
    KitchenOrderChatController, OrderChatAdminController, AdsSuggestionsController>>)

=============================================================================
