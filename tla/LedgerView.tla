----------------------------- MODULE LedgerView -----------------------------
(***************************************************************************)
(* The public ledger of the front end: pure functions from the lists that  *)
(* the hooks load (maps from an id or an address to a decoded record) to   *)
(* ledger rows, the funding history and the three spending breakdowns.     *)
(* Rows and slices are sets and functions: sorting, titles and colours are *)
(* left out.  A slice of a breakdown is the set of payouts it adds up; the *)
(* number drawn is a sum of floating-point numbers, and is exactly what    *)
(* those are worth if the amounts are whole tokens, as the demo's are.     *)
(***************************************************************************)
EXTENDS Frame

NoAmount == 0

Row(block, type, key, amount, address) ==
    [block |-> block, type |-> type, key |-> key, amount |-> amount,
     address |-> address]

\* Mutant of DecisionRows: a payout has its row as soon as it is approved.
DecisionRowsEarly(p, id) ==
    IF p.status \in {"Approved", "Funded"}
    THEN {Row(p.votingEnd, "ProposalFunded", id, p.amount, p.vendor)}
    ELSE {}

\* The row for how a proposal ended, dated by the end of its voting; there is
\* none for an approval and none for a veto.
DecisionRows(p, id) ==
    IF p.status = "Funded"
    THEN {Row(p.votingEnd, "ProposalFunded", id, p.amount, p.vendor)}
    ELSE IF p.status = "Rejected"
    THEN {Row(p.votingEnd, "ProposalRejected", id, NoAmount, None)}
    ELSE IF p.status = "Cancelled"
    THEN {Row(p.votingEnd, "ProposalCancelled", id, NoAmount, None)}
    ELSE {}

buildLedger(ps, vs, contributions, ds, gs) ==
    {Row(vs[a].registeredAt, "VendorRegistered", a, NoAmount, a) : a \in DOMAIN vs}
    \cup {Row(ds[a].registeredAt, "DonorRegistered", a, NoAmount, a) : a \in DOMAIN ds}
    \cup {Row(gs[g].submittedAt, "GrantSubmitted", g, gs[g].amount, gs[g].donor)
            : g \in DOMAIN gs}
    \cup (UNION {{Row(ps[id].createdAt, "ProposalSubmitted", id, ps[id].amount,
                      ps[id].vendor)} \cup DecisionRows(ps[id], id) : id \in DOMAIN ps})
    \cup {Row(contributions[c].block, "TreasuryContribution", c,
              contributions[c].amount, contributions[c].from) : c \in DOMAIN contributions}

IncomeTypes == {"TreasuryContribution", "GrantSubmitted"}

\* The total of the rows of these types, up to a block.
RowTotal(ledger, types, block) ==
    SumFunction([r \in {r \in ledger : r.type \in types /\ r.block <= block} |-> r.amount])

\* The last point of the chart at each block at which money moved.
buildFundingHistory(ledger) ==
    {[block |-> 0, received |-> 0, disbursed |-> 0]} \cup
    {[block |-> r.block,
      received |-> RowTotal(ledger, IncomeTypes, r.block),
      disbursed |-> RowTotal(ledger, {"ProposalFunded"}, r.block)]
        : r \in {r \in ledger : r.type \in IncomeTypes \cup {"ProposalFunded"}}}

FundedIn(ps) == {id \in DOMAIN ps : ps[id].status = "Funded"}

\* The payouts among ps that each key's slice adds up.
FundedBy(ps, key(_)) ==
    [k \in {key(ps[id]) : id \in FundedIn(ps)} |-> {id \in FundedIn(ps) : key(ps[id]) = k}]

\* What these payouts are worth.
Worth(ps, payouts) == SumFunction([id \in payouts |-> ps[id].amount])

\* Mutant of buildCategoryBreakdown: a category's slice is its last payout.
buildCategoryBreakdownLast(ps, vs) ==
    LET category(p) == IF p.vendor \in DOMAIN vs THEN vs[p.vendor].category ELSE "Other"
    IN  [c \in {category(ps[id]) : id \in FundedIn(ps)} |->
            LET funded == {id \in FundedIn(ps) : category(ps[id]) = c}
            IN  {id \in funded : \A x \in funded : x <= id}]

buildCategoryBreakdown(ps, vs) ==
    FundedBy(ps, LAMBDA p : IF p.vendor \in DOMAIN vs THEN vs[p.vendor].category
                            ELSE "Other")

buildWardBreakdown(ps) == FundedBy(ps, LAMBDA p : p.ward)

buildVendorBreakdown(ps, vs) ==
    LET total == FundedBy(ps, LAMBDA p : p.vendor)
    IN  [a \in DOMAIN total |->
            [category |-> IF a \in DOMAIN vs THEN vs[a].category ELSE "Other",
             totalFunded |-> total[a],
             proposalsFunded |-> Cardinality({id \in FundedIn(ps) : ps[id].vendor = a})]]

\* The dashboard's ledger has neither donors nor grants, the ledger page's has.
DashboardLedger(ps, vs, contributions) ==
    buildLedger(ps, vs, contributions, EmptyMap, EmptyMap)

\* What a bar chart adds up to; with no bar it says there is no data.
ChartTotal(ps, slices) == SumFunction([k \in DOMAIN slices |-> Worth(ps, slices[k])])

\* The slices are a partition of the payouts.
Parts(slices, payouts) ==
    /\ UNION {slices[k] : k \in DOMAIN slices} = payouts
    /\ \A j, k \in DOMAIN slices : j # k => slices[j] \cap slices[k] = {}
=============================================================================
