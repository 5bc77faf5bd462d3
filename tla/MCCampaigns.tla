---------------------------- MODULE MCCampaigns ----------------------------
EXTENDS Campaigns, TLC

Symmetry == Permutations(Requests) \cup Permutations(CampaignIds) \cup Permutations(SuggestionIds)
=============================================================================
