----------------------------- MODULE MCLedgers -----------------------------
(***************************************************************************)
(* The components that keep books, side by side: the customer's wallet      *)
(* (extended), payouts, premium plans, and promotions twice, with their     *)
(* suggestions and with their pauses.  They share no table in these         *)
(* instances, so each behaviour is one of one part.  The instances are of    *)
(* the modules with the components' theorems.                              *)
(***************************************************************************)
EXTENDS Withdrawals, TLC

CONSTANTS
    PayoutIds, KitchenRequests, OpsRequests, OrderTotals, MaxGross,
    PremiumReels, PremiumDays, CycleDays, Price, MaxPremiumTopUps, ReelCap,
    CampaignIds, SuggestionIds, AdReels, MaxCharges

VARIABLES
    part,  \* the component whose behaviour this is
    gross, payouts, payoutPc, sums, about, payoutsOverlapped,
    kitchenBalance, kitchenTopUps, plan, purchases, renewals, reels, day, planPc, copy, plansOverlapped,
    campaigns, charged, suggestions, live, charges, today, adPc, job, adsOverlapped, adsCrossed

Earnings == INSTANCE PayoutsProofs WITH pc <- payoutPc, overlapped <- payoutsOverlapped

Plans == INSTANCE PremiumProofs WITH
    Reels <- PremiumReels, MaxDay <- PremiumDays, MaxTopUps <- MaxPremiumTopUps,
    Calls <- {"purchase", "read", "publish", "archive"},
    balance <- kitchenBalance, topUps <- kitchenTopUps, today <- day, pc <- planPc, overlapped <- plansOverlapped

Charges == INSTANCE CampaignsProofs WITH
    Reels <- AdReels, pc <- adPc, overlapped <- adsOverlapped, crossed <- adsCrossed,
    Calls <- {"create", "read", "generate", "apply", "dismiss"},
    MaxDay <- 2, Budgets <- {1, 2}, Durations <- {1, 2}

Pauses == INSTANCE CampaignsProofs WITH
    SuggestionIds <- {}, Reels <- AdReels, pc <- adPc, overlapped <- adsOverlapped, crossed <- adsCrossed,
    Calls <- {"create", "pause", "resume", "stop", "read"},
    MaxDay <- 4, Budgets <- {1}, Durations <- {1, 2, 3}

ASSUME LedgersAssumption ==
    /\ Earnings!PayoutsAssumption /\ Plans!PremiumAssumption
    /\ Charges!CampaignsAssumption /\ Pauses!CampaignsAssumption

walletVars == <<vars, overlapped>>
earningsVars == <<gross, payouts, payoutPc, sums, about, payoutsOverlapped>>
planVars == <<kitchenBalance, kitchenTopUps, plan, purchases, renewals, reels, day, planPc, copy, plansOverlapped>>
adVars == <<campaigns, charged, suggestions, live, charges, today, adPc, job, adsOverlapped, adsCrossed>>

LedgersInit ==
    /\ Init /\ Earnings!Init /\ Plans!Init
    /\ \/ part \in {"wallet", "payouts", "plans", "charges"} /\ Charges!Init
       \/ part = "pauses" /\ Pauses!Init

LedgersNext ==
    /\ \/ part = "wallet" /\ Next /\ UNCHANGED <<earningsVars, planVars, adVars>>
       \/ part = "payouts" /\ Earnings!Next /\ UNCHANGED <<walletVars, planVars, adVars>>
       \/ part = "plans" /\ Plans!Next /\ UNCHANGED <<walletVars, earningsVars, adVars>>
       \/ part = "charges" /\ Charges!Next /\ UNCHANGED <<walletVars, earningsVars, planVars>>
       \/ part = "pauses" /\ Pauses!Next /\ UNCHANGED <<walletVars, earningsVars, planVars>>
    /\ UNCHANGED part

LedgersSpec == LedgersInit /\ [][LedgersNext]_<<part, walletVars, earningsVars, planVars, adVars>>

(* The parts use the same model values for their requests and for their rows. *)
Symmetry == Permutations(Requests) \cup Permutations(Withdrawals)

(* Payouts: paid and pending payouts stay within the net earnings, through      *)
(* failures and repetitions, as long as no two requests overlap.               *)
WithinEarnings == Earnings!WithinEarnings

(* Premium: the wallet's balance accounts for every purchase and renewal, and,   *)
(* as long as no two requests overlap, a period is renewed once.               *)
PlansArePaid == Plans!PlansArePaid

(* Premium: as long as no two requests overlap, a plan whose paid period is not  *)
(* over is not taken away.                                                     *)
PaidPeriodHonoured == Plans!PaidPeriodHonoured

(* Campaigns: as long as no two requests overlap and midnight overtakes none,     *)
(* what was charged covers what is and may still be spent, and a suggestion is  *)
(* charged once, whatever dies and is repeated.                                *)
ChargesCoverSpend == part = "charges" => Charges!ChargesCoverSpend

(* Campaigns: each live day is billed once, through every pause and resume, as   *)
(* long as no two requests overlap and midnight overtakes none.                 *)
SpendIsLiveDays == part = "pauses" => Pauses!SpendIsLiveDays

(* Campaigns: a stopped campaign stays stopped.                                 *)
EndedForGood == [][Pauses!StopIsFinal]_adVars
=============================================================================
