----------------------------- MODULE MCAccounts -----------------------------
(***************************************************************************)
(* Two requests at a time of the endpoints that accounts are made with,     *)
(* and one call at a time to any route with any credentials.                *)
(***************************************************************************)
EXTENDS Sessions, Referrals, Vetting, BhojAi, Api, TLC

ASSUME RoutesAssumption

Symmetry == Permutations(Requests)

MCScenarios == {
    {"sendOtp", "verifyOtp", "refresh", "logout"},
    {"sendOtp", "verifyOtp", "completeProfile"},
    {"sendOtp", "partnerSendOtp", "partnerVerifyOtp", "wait"},
    {"requestDeletion", "verifyOtp", "confirmDeletion"},
    {"partnerSendOtp", "partnerRequestDeletion", "partnerVerifyOtp", "partnerConfirmDeletion"},
    {"partnerSendOtp", "partnerVerifyOtp", "refresh", "logout"},
    {"referral", "redeem"},
    {"save", "removeDish"},
    {"save", "submit", "approve", "reject"},
    {"save", "submit", "approve", "deletePartner"},
    {"start", "uploadForLicence", "pay", "cancel", "licence", "advance"},
    {"ask", "reset"},
    {"ask", "resolve"},
    {"send", "ban"}}

MCLicenceScenarios == {{"save", "submit", "start", "cancel", "approve"}}

accountVars == <<sessionVars, referralVars, vettingVars, bhojAiVars, apiVars>>

Init ==
    /\ HandlersInit
    /\ SessionsInit /\ ReferralsInit /\ VettingInit /\ BhojAiInit /\ ApiInit
    /\ "send" \notin calls => adminSecret = "set"

Next ==
    \/ /\ SessionsAlone \/ \E r \in Requests : SessionsStep(r)
       /\ UNCHANGED <<referralVars, vettingVars, bhojAiVars, apiVars>>
    \/ /\ \E r \in Requests : ReferralsStep(r)
       /\ UNCHANGED <<sessionVars, vettingVars, bhojAiVars, apiVars>>
    \/ /\ VettingAlone \/ \E r \in Requests : VettingStep(r)
       /\ UNCHANGED <<sessionVars, referralVars, bhojAiVars, apiVars>>
    \/ /\ BhojAiAlone \/ \E r \in Requests : BhojAiStep(r)
       /\ UNCHANGED <<sessionVars, referralVars, vettingVars, apiVars>>
    \/ /\ Ban \/ \E r \in Requests : Others(r) = {} /\ ApiStep(r)
       /\ UNCHANGED <<sessionVars, referralVars, vettingVars, bhojAiVars>>
    \/ /\ \E r \in Requests : Abort(r)
       /\ UNCHANGED accountVars

Spec == Init /\ [][Next]_<<accountVars, handlerVars>>
=============================================================================
