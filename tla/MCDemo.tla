------------------------------- MODULE MCDemo -------------------------------
(***************************************************************************)
(* Visits of demo mode that each keep to some of its pages, so that TLC    *)
(* explores what those do together, and not every mixture of all of them.  *)
(***************************************************************************)
EXTENDS DemoLedger

VARIABLE visit

Visits == {"money", "votes", "forms"}

\* The proposals whose pages a visit opens.
Looked == CASE visit = "money" -> {2, 4, 6}
            [] visit = "votes" -> {3, 10}
            [] visit = "forms" -> {1, 10}

\* The proposals and RFPs that a visit's pages show or add to.
KeepsTo ==
    /\ \A id \in DOMAIN proposals \ Looked : proposals'[id] = proposals[id]
    /\ \A id \in DOMAIN proposals' \ DOMAIN proposals :
          CASE visit = "money" -> FALSE
            [] visit = "votes" -> proposals'[id].rfpId = None
            [] visit = "forms" -> proposals'[id].ward = "District3"
    /\ \A id \in DOMAIN rfps' \ DOMAIN rfps : rfps'[id].ward = "District3"
    /\ visit = "money" => DOMAIN vendors' = DOMAIN vendors
    /\ DOMAIN stakedBalances' \subseteq {"citizen"}
    /\ \A k \in DOMAIN spendingReceipts' \ DOMAIN spendingReceipts : k[1] \in Looked
    /\ queued' \in Looked \cup {None}

VisitInit == DemoInit /\ visit \in Visits

VisitNext ==
    /\ \/ FundingPages \/ Microtask
       \/ visit = "money" /\ MoneyPages
       \/ visit = "votes" /\ ResidentPages
       \/ visit = "forms" /\ VendorPages
       \/ visit = "forms" /\ RfpPages
    /\ KeepsTo
    /\ UNCHANGED visit

VisitSpec == VisitInit /\ [][VisitNext]_<<demoVars, visit>>
=============================================================================
