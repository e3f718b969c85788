---------------------------- MODULE MCCampaigns ----------------------------
(***************************************************************************)
(* Campaigns on their own: what becomes of a cleared link.                 *)
(***************************************************************************)
EXTENDS Campaigns, TLC

Symmetry == Permutations(Requests)
=============================================================================
