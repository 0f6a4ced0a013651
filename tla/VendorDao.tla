----------------------------- MODULE VendorDao -----------------------------
(***************************************************************************)
(* The whole pallet: the funding process of module Proposals, with the     *)
(* vendor's accounting for it (spending receipts, progress updates), and   *)
(* the next-state relation in which every call of every origin interleaves *)
(* with every other one and with the production of blocks.                 *)
(***************************************************************************)
EXTENDS Proposals

CONSTANTS
    ReceiptAmounts,  \* amounts tried in post_spending_receipt
    MaxReceipts,     \* bound on the receipts of one proposal
    MaxUpdates,      \* bound on the updates of one vendor
    \* Any account may make any signed call; these sets bound who tries which.
    Contributor,     \* registers as a donor, funds, grants, transfers
    Resident,        \* submits KYC requests
    Candidate,       \* registers as a vendor
    Proposer,        \* submits and cancels proposals
    Voter            \* votes

ASSUME VendorDaoAssumption ==
    /\ ReceiptAmounts \subseteq Nat
    /\ MaxReceipts \in Nat
    /\ MaxUpdates \in Nat
    /\ Contributor \cup Resident \cup Candidate \cup Proposer \cup Voter
         \subseteq Account

VARIABLES
    receiptCount,  \* SpendingReceiptCount: proposal id -> its next receipt id
    receipts,      \* SpendingReceipts: <<proposal id, receipt id>> -> receipt
    updateCount,   \* VendorUpdateCount: vendor -> its next update id
    updates        \* VendorUpdates: <<vendor, update id>> -> linked proposal

receiptVars == <<receiptCount, receipts>>
updateVars == <<updateCount, updates>>

vars == <<treasuryVars, residencyVars, vendors, rfpVars, ballotVars, receiptVars,
          updateVars>>

ReceiptId == Nat
UpdateId == Nat
Receipt == [vendor : Account, amount : Nat]

\* The ValueQuery default of a per-key counter.
CountAt(count, k) == IF k \in DOMAIN count THEN count[k] ELSE 0

Init ==
    /\ TreasuryInit
    /\ ResidencyInit
    /\ RegistryInit
    /\ ProposalsInit
    /\ receiptCount = EmptyMap
    /\ receipts = EmptyMap
    /\ updateCount = EmptyMap
    /\ updates = EmptyMap

\* SpendingReceipts::iter_prefix_values(id), and the fold over it.
ReceiptsOf(id) == {k \in DOMAIN receipts : k[1] = id}

\* Mutant of AlreadyReceipted: earlier receipts are not added up.
NothingReceipted(id) == 0

AlreadyReceipted(id) == SumFunction([k \in ReceiptsOf(id) |-> receipts[k].amount])

PostSpendingReceipt(who, id, amount) ==
    /\ CountAt(receiptCount, id) < MaxReceipts
    /\ amount > 0
    /\ InStatus(id, "Funded")
    /\ proposals[id].vendor = who
    /\ AlreadyReceipted(id) + amount <= proposals[id].amount
    /\ LET n == CountAt(receiptCount, id) IN
        /\ receipts' = Put(receipts, <<id, n>>, [vendor |-> who, amount |-> amount])
        /\ receiptCount' = Put(receiptCount, id, n + 1)
    /\ UNCHANGED updateVars

PostVendorUpdate(who, proposal_id) ==
    /\ CountAt(updateCount, who) < MaxUpdates
    /\ who \in DOMAIN vendors
    /\ proposal_id # None => /\ proposal_id \in DOMAIN proposals
                             /\ proposals[proposal_id].vendor = who
    /\ LET n == CountAt(updateCount, who) IN
        /\ updates' = Put(updates, <<who, n>>, proposal_id)
        /\ updateCount' = Put(updateCount, who, n + 1)
    /\ UNCHANGED receiptVars

MoneyStep ==
    /\ \/ \E a \in Contributor, x \in Contributions : FundTreasury(a, x)
       \/ \E a \in Contributor : RegisterDonor(a)
       \/ \E a \in Contributor, x \in Contributions : SubmitGrant(a, x)
       \/ \E h \in Holder, x \in Mints : StakeMint(h, x)
       \/ \E a \in Contributor, h \in Holder, x \in Transfers : PlainTransfer(a, h, x)
    /\ UNCHANGED <<residencyVars, vendors, rfpVars, ballotVars, receiptVars, updateVars>>

ResidencyStep ==
    /\ \/ Tick
       \/ \E a \in Resident, w \in Ward : SubmitKyc(a, w)
       \/ \E a \in Resident : ApproveKyc(a)
       \/ \E a \in Resident : RejectKyc(a)
    /\ UNCHANGED <<treasuryVars, vendors, rfpVars, ballotVars, receiptVars, updateVars>>

RegistryStep ==
    /\ \/ \E a \in Candidate, p \in Profile : RegisterVendor(a, p)
       \/ \E a \in Candidate, p \in Profile : UpdateVendorProfile(a, p)
       \/ \E a \in Candidate, b \in BOOLEAN : SetVendorVerified(a, b)
    /\ UNCHANGED <<treasuryVars, residencyVars, rfpVars, ballotVars, receiptVars,
                   updateVars>>

ProposalStep ==
    /\ \/ \E w \in Ward, x \in Amounts : PostRfp(w, x)
       \/ \E id \in DOMAIN rfps : CloseRfp(id)
       \/ \E a \in Proposer, v \in Candidate, x \in Amounts, w \in Ward,
             r \in DOMAIN rfps \cup {None} : SubmitProposal(a, v, x, w, r)
       \/ \E id \in DOMAIN proposals, b \in BOOLEAN : VetProposal(id, b)
       \/ \E a \in Voter, id \in DOMAIN proposals, b \in BOOLEAN : Vote(a, id, b)
       \/ \E id \in DOMAIN proposals : CloseProposal(id)
       \/ \E id \in DOMAIN proposals : Disburse(id)
       \/ \E a \in Proposer, id \in DOMAIN proposals : CancelProposal(a, id)
    /\ UNCHANGED <<residencyVars, receiptVars, updateVars>>

AccountingStep ==
    /\ \/ \E a \in Candidate, id \in DOMAIN proposals, x \in ReceiptAmounts :
             PostSpendingReceipt(a, id, x)
       \/ \E a \in Candidate, id \in DOMAIN proposals \cup {None} :
             PostVendorUpdate(a, id)
    /\ UNCHANGED <<treasuryVars, residencyVars, vendors, rfpVars, ballotVars>>

Next == MoneyStep \/ ResidencyStep \/ RegistryStep \/ ProposalStep \/ AccountingStep

Spec == Init /\ [][Next]_vars

\* The pallet has no hook that runs at the end of a vote: somebody has to
\* send close_proposal, and disburse after a payout that failed.  Progress is
\* therefore claimed only for a chain that produces blocks and has a keeper
\* that sends the two calls again and again for every proposal.
TickStep == Tick /\ ResidencyStep
CloseStep(id) == CloseProposal(id) /\ ProposalStep
DisburseStep(id) == Disburse(id) /\ ProposalStep

KeeperSpec ==
    /\ Spec
    /\ WF_vars(TickStep)
    /\ \A id \in 0 .. MaxProposals - 1 :
        WF_vars(CloseStep(id)) /\ WF_vars(DisburseStep(id))
----------------------------------------------------------------------------
TypeOK ==
    /\ TreasuryTypeOK
    /\ ResidencyTypeOK
    /\ RegistryTypeOK
    /\ ProposalsTypeOK
    /\ IsMap(receiptCount, ProposalId, Nat)
    /\ IsMap(receipts, ProposalId \X ReceiptId, Receipt)
    /\ IsMap(updateCount, Account, Nat)
    /\ IsMap(updates, Account \X UpdateId, ProposalId \cup {None})

\* Those who voted a given way on a proposal, from the public vote records.
VotersIn(votes, id, approve) ==
    {a \in Account : <<id, a>> \in DOMAIN votes /\ votes[<<id, a>>] = approve}

Voters(id, approve) == VotersIn(voteOf, id, approve)

\* The tally that a proposal carries is the recount of the public vote
\* records: vote keeps the two in separate storage items, and a vote that was
\* refused, repeated or cast on a withdrawn proposal must be in neither.
TallyIsRecount ==
    \A id \in DOMAIN proposals :
        /\ proposals[id].ayes = Cardinality(Voters(id, TRUE))
        /\ proposals[id].nays = Cardinality(Voters(id, FALSE))

Recount(id) == Passes(Cardinality(Voters(id, TRUE)), Cardinality(Voters(id, FALSE)))

\* A decision stands for ever on the recorded votes: what is approved or paid
\* still has quorum and majority in a recount, what was rejected still has
\* not, every decision came after the deadline, and what was never put to the
\* vote has no votes.
DecisionMatchesRecount ==
    \A id \in DOMAIN proposals :
        /\ proposals[id].status \in {"Approved", "Funded"} =>
               Recount(id) /\ now > proposals[id].voting_end
        /\ proposals[id].status = "Rejected" =>
               ~Recount(id) /\ now > proposals[id].voting_end
        /\ proposals[id].status \in {"PendingReview", "Vetoed"} =>
               Voters(id, TRUE) \cup Voters(id, FALSE) = {}

Funded == {id \in DOMAIN proposals : proposals[id].status = "Funded"}
FundedFor(a) == {id \in Funded : proposals[id].vendor = a}
Paid(S) == SumFunction([id \in S |-> proposals[id].amount])

\* TotalFundsDisbursed and every vendor's public record are exactly what the
\* funded proposals add up to: each is paid once, in full, to its own vendor,
\* however often close_proposal and disburse are tried around it.
PayoutsBooked ==
    /\ totalDisbursed = Paid(Funded)
    /\ \A a \in DOMAIN vendors :
        /\ vendors[a].total_received = Paid(FundedFor(a))
        /\ vendors[a].proposals_funded = Cardinality(FundedFor(a))

\* What a proposal was submitted under still holds of it, whatever happened
\* to its RFP since: same ward, within the RFP's maximum; and its payee is
\* registered, so that a payout is always credited to somebody.
RfpTermsHold ==
    \A id \in DOMAIN proposals :
        LET p == proposals[id] IN
        /\ p.vendor \in DOMAIN vendors
        /\ p.rfp_id # None =>
               /\ p.rfp_id \in DOMAIN rfps
               /\ p.ward = rfps[p.rfp_id].ward
               /\ p.amount <= rfps[p.rfp_id].max_amount

\* Receipts account for money that really was paid: only a funded proposal
\* has any, posted by its vendor, and together they never exceed the payout.
ReceiptsCovered ==
    \A id \in {k[1] : k \in DOMAIN receipts} :
        /\ InStatus(id, "Funded")
        /\ SumFunction([k \in ReceiptsOf(id) |-> receipts[k].amount]) <= proposals[id].amount
        /\ \A k \in ReceiptsOf(id) : receipts[k].vendor = proposals[id].vendor

\* Ids are handed out densely from the counters, so no record ever replaces
\* another one.
IdsDense ==
    /\ DOMAIN proposals = 0 .. proposalCount - 1
    /\ DOMAIN rfps = 0 .. rfpCount - 1
    /\ DOMAIN grants = 0 .. grantCount - 1
    /\ DOMAIN receipts = {k \in DOMAIN receipts : k[2] < CountAt(receiptCount, k[1])}
    /\ \A id \in DOMAIN receiptCount :
        {k[2] : k \in ReceiptsOf(id)} = 0 .. receiptCount[id] - 1
    /\ DOMAIN updates = {k \in DOMAIN updates : k[2] < CountAt(updateCount, k[1])}

\* One approval of a resident's declared ward lets it vote in one ward: to
\* vote in another ward it has to be approved again, however it resubmits,
\* is rejected or waits for its record to expire in between.
OneWardPerApproval ==
    \A b, c \in wardBallots :
        b.voter = c.voter /\ b.approval = c.approval => b.ward = c.ward

\* A verified record was approved for the ward it names: nothing turns a
\* ward into a verified one except an approval while it was being declared.
KeepsVerifiedWard ==
    \A a \in DOMAIN kyc :
        kyc'[a].status = "Verified" => kyc'[a].ward = kyc[a].ward

WardFixedByApproval == [][KeepsVerifiedWard]_vars

Keeps(f, g) == \A k \in DOMAIN f : k \in DOMAIN g /\ g[k] = f[k]

KeepsRecords ==
    /\ Keeps(voteOf, voteOf')
    /\ Keeps(grants, grants')
    /\ Keeps(receipts, receipts')
    /\ Keeps(updates, updates')

KeepsDecisions ==
    \A id \in DOMAIN proposals :
        LET s == proposals[id].status IN
        /\ s \in {"Vetoed", "Rejected", "Cancelled", "Funded"} => proposals'[id].status = s
        /\ s = "Approved" => proposals'[id].status \in {"Approved", "Funded"}

\* Public records are append-only: a vote, a grant, a receipt and an update
\* once recorded are never altered or removed.  And a decision is final: a
\* veto, a rejection, a withdrawal and a payment stay what they are, and an
\* approval turns into nothing but the payment.
AppendOnly == [][KeepsRecords /\ KeepsDecisions]_vars

\* Polls stay closed: once the deadline has passed, or a proposal is decided
\* or withdrawn, nobody's vote on it is recorded any more.
BallotsOnTime ==
    \A id \in DOMAIN proposals :
        \/ proposals[id].status = "Proposed" /\ now <= proposals[id].voting_end
        \/ Voters(id, TRUE)' = Voters(id, TRUE) /\ Voters(id, FALSE)' = Voters(id, FALSE)

PollsStayClosed == [][BallotsOnTime]_vars

\* With a keeper, no proposal stays open: whatever was put to the vote early
\* enough for the bounded clock to pass its deadline ends as decided, paid or
\* withdrawn.
PollsEnd ==
    \A id \in 0 .. MaxProposals - 1 :
        (InStatus(id, "Proposed") /\ proposals[id].voting_end < MaxBlock)
            ~> (id \in DOMAIN proposals /\ ~InStatus(id, "Proposed"))

\* With a keeper, an approved proposal is paid unless the pot goes on being
\* unable to pay it: a payout that failed is never forgotten, and other
\* proposals taking the pot's money first only delay it.
ApprovedGetPaid ==
    \A id \in 0 .. MaxProposals - 1 :
        InStatus(id, "Approved")
            ~> \/ InStatus(id, "Funded")
               \/ /\ id \in DOMAIN proposals
                  /\ ~CanPay(proposals[id].vendor, proposals[id].amount)

\* Claimed at lib.rs:565 and lib.rs:1094: approving a request locks the ward
\* it declares until the approval expires.
WardLockedUntilExpiry ==
    [][\A a \in DOMAIN kyc :
          kyc[a].status = "Verified" /\ now <= kyc[a].expires_at
              => kyc'[a].ward = kyc[a].ward]_vars

\* Claimed at lib.rs:867 and lib.rs:207: a proposal is only withdrawn before
\* its voting closes.
WithdrawnBeforeClose ==
    [][\A id \in DOMAIN proposals :
          InStatus(id, "Proposed") /\ proposals'[id].status = "Cancelled"
              => now <= proposals[id].voting_end]_vars
============================================================================
