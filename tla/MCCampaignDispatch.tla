-------------------------- MODULE MCCampaignDispatch --------------------------
(* Small instances of CampaignDispatch for TLC. *)
EXTENDS CampaignDispatch, TLC

CONSTANTS w1, w2, w3, p1, p2, c1, c2

\* One row, two rows of one campaign, and a lead that two campaigns have.
OneRow       == w1 :> c1
OneCampaign  == (w1 :> c1) @@ (w2 :> c1)
TwoCampaigns == (w1 :> c1) @@ (w2 :> c2)
OneLead      == w1 :> p1
TwoLeads     == (w1 :> p1) @@ (w2 :> p2)
SharedLead   == (w1 :> p1) @@ (w2 :> p1)

\* A third row of the campaign, for the lead of w1 once that is removed.
OneCampaignAgain == OneCampaign @@ (w3 :> c1)
LeadAgain        == TwoLeads @@ (w3 :> p1)

\* Call ids are handed out in any order, and the two campaigns are alike.
CallSymmetry     == Permutations(Calls)
CampaignSymmetry == CallSymmetry \cup
    {(w1 :> w2) @@ (w2 :> w1) @@ (c1 :> c2) @@ (c2 :> c1)}
=============================================================================
