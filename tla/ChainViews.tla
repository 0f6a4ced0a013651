----------------------------- MODULE ChainViews -----------------------------
(***************************************************************************)
(* What the ledger page and the dashboard derive from chain storage, over  *)
(* every behaviour of module VendorDao.  Each list is loaded by a read of  *)
(* its own, sent when the page is opened and answered when it may be: the  *)
(* page shows what it has, and before the first answer nothing.            *)
(***************************************************************************)
EXTENDS VendorDao, LedgerView

VARIABLE loaded   \* the lists in the hooks' state, each as of its own read

viewVars == <<vars, loaded>>

decodeProposal(id) ==
    LET raw == proposals[id] IN
    [vendor |-> raw.vendor, amount |-> raw.amount, status |-> raw.status,
     votingEnd |-> raw.voting_end, ward |-> raw.ward]

\* The category is part of what VendorDao keeps as one opaque profile.
decodeVendor(address) ==
    LET raw == vendors[address] IN
    [category |-> raw.profile, totalReceived |-> raw.total_received,
     proposalsFunded |-> raw.proposals_funded]

ViewsInit ==
    /\ Init
    /\ loaded = [proposals |-> EmptyMap, vendors |-> EmptyMap]

\* The hooks read every entry of a map, useProposals and useVendors each at a
\* moment of its own, and again whenever a page is opened.
useProposals ==
    loaded' = [loaded EXCEPT !.proposals = [id \in DOMAIN proposals |-> decodeProposal(id)]]
useVendors ==
    loaded' = [loaded EXCEPT !.vendors = [a \in DOMAIN vendors |-> decodeVendor(a)]]

ViewsNext ==
    \/ Next /\ UNCHANGED loaded
    \/ (useProposals \/ useVendors) /\ UNCHANGED vars

ViewsSpec == ViewsInit /\ [][ViewsNext]_viewVars

PayoutRows ==
    {r \in UNION {DecisionRows(loaded.proposals[id], id) : id \in DOMAIN loaded.proposals} :
        r.type = "ProposalFunded"}
-----------------------------------------------------------------------------
\* Whatever lists are on the page, each as of another moment: every payout of
\* the list has its row and is in exactly one bar of each of the three charts,
\* together they are worth no more than TotalFundsDisbursed, and a vendor whose
\* bar counts as many payouts as the vendor's own record is worth the same.
ViewsAddUp ==
    LET ps == loaded.proposals
        vs == loaded.vendors
        paid == FundedIn(ps)
        bars == buildVendorBreakdown(ps, vs)
    IN  /\ {r.key : r \in PayoutRows} = paid
        /\ Parts(buildCategoryBreakdown(ps, vs), paid)
        /\ Parts(buildWardBreakdown(ps), paid)
        /\ Parts([a \in DOMAIN bars |-> bars[a].totalFunded], paid)
        /\ Worth(ps, paid) <= totalDisbursed
        /\ \A a \in DOMAIN bars \cap DOMAIN vs :
              bars[a].proposalsFunded = vs[a].proposalsFunded
                  => Worth(ps, bars[a].totalFunded) = vs[a].totalReceived
=============================================================================
