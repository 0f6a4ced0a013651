------------------------- MODULE VendorDaoMandate -------------------------
(***************************************************************************)
(* The pallet as an implementation of Mandate: the ballot box is VoteOf,   *)
(* an account's income is its vendor profile's total_received, and the     *)
(* stages are the proposal statuses with every way of ending without       *)
(* money collapsed into one.                                               *)
(***************************************************************************)
EXTENDS VendorDao

StageOf(status) ==
    CASE status = "PendingReview" -> "review"
      [] status = "Proposed" -> "poll"
      [] status = "Approved" -> "awarded"
      [] status = "Funded" -> "paid"
      [] status \in {"Rejected", "Cancelled", "Vetoed"} -> "dropped"

StageMap == [id \in DOMAIN proposals |-> StageOf(proposals[id].status)]

TermsMap == [id \in DOMAIN proposals |->
                [payee |-> proposals[id].vendor, amount |-> proposals[id].amount]]

IncomeMap == [a \in Account |->
                IF a \in DOMAIN vendors THEN vendors[a].total_received ELSE 0]

M == INSTANCE Mandate WITH
        stage <- StageMap, terms <- TermsMap, box <- voteOf,
        income <- IncomeMap, spent <- totalDisbursed,
        Id <- 0 .. MaxProposals - 1, Amount <- Amounts

\* The pallet keeps the promise: its proposals, votes and payments behave as
\* Mandate allows, where decisions are counts of the ballot box rather than
\* of the tallies the proposals carry, and a payment is one step.
ImplementsMandate == M!Spec
===========================================================================
