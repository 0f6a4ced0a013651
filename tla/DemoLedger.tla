----------------------------- MODULE DemoLedger -----------------------------
(***************************************************************************)
(* The ledger page and the dashboard over the states of demo mode, where   *)
(* the contributions are known too.                                        *)
(***************************************************************************)
EXTENDS DemoMode, LedgerView

DemoLedgerPage ==
    buildLedger(proposals, vendors, treasuryContributions, donors, grants)

DemoHistory ==
    buildFundingHistory(DashboardLedger(proposals, vendors, treasuryContributions))

\* The demo's ledger page shows all of its money: the income rows are what
\* the treasury says it received, the payout rows and all three breakdowns
\* are the amounts of the funded proposals, and the dashboard's curves, which
\* know of no grants, end at the other totals.  Its amounts are whole tokens.
DemoViewsAddUp ==
    LET total(types) == SumFunction([r \in {r \in DemoLedgerPage : r.type \in types} |->
                                     r.amount])
    IN  /\ total(IncomeTypes) = treasury.totalReceived
        /\ total({"ProposalFunded"}) = FundedAmount(Funded)
        /\ ChartTotal(proposals, buildCategoryBreakdown(proposals, vendors)) = FundedAmount(Funded)
        /\ ChartTotal(proposals, buildWardBreakdown(proposals)) = FundedAmount(Funded)
        /\ \A a \in DOMAIN buildVendorBreakdown(proposals, vendors) :
              Worth(proposals, buildVendorBreakdown(proposals, vendors)[a].totalFunded)
                  = vendors[a].totalReceived
        /\ \E point \in DemoHistory :
              /\ point.received = total({"TreasuryContribution"})
              /\ point.disbursed = FundedAmount(Funded)
=============================================================================
