---------------------------- MODULE MCChainViews ----------------------------
(***************************************************************************)
(* ChainViews with the constants' values of MCVendorDao.  A behaviour      *)
(* stays within one block and is about RFPs and the responses to them; or  *)
(* it has no RFP and goes on to payouts and what is recorded about them;   *)
(* or to payouts and what a page has loaded of them, proposals and vendors *)
(* once each: TLC need not explore every mixture of these.                 *)
(***************************************************************************)
EXTENDS ChainViews, MCVendorDao

VARIABLE about

ScopedInit == ViewsInit /\ about \in {"terms", "books", "views"}

KeepsToScope ==
    \/ /\ about = "terms" /\ loaded' = loaded
       /\ now' = now /\ treasuryVars' = treasuryVars /\ updateVars' = updateVars
    \/ /\ about = "books" /\ loaded' = loaded
       /\ rfpVars' = rfpVars
       /\ \A id \in DOMAIN proposals' : proposals'[id].ward = Citywide
    \/ /\ about = "views"
       /\ rfpVars' = rfpVars /\ receiptVars' = receiptVars /\ updateVars' = updateVars
       /\ grants' = grants /\ donors' = donors
       /\ \A a \in DOMAIN vendors' : ~vendors'[a].verified
       /\ \A id \in DOMAIN proposals' : proposals'[id].ward = Citywide
       /\ \A list \in DOMAIN loaded : loaded[list] \in {EmptyMap, loaded'[list]}

ScopedNext == ViewsNext /\ KeepsToScope /\ UNCHANGED about

ScopedSpec == ScopedInit /\ [][ScopedNext]_<<viewVars, about>>
=============================================================================
