----------------------------- MODULE Proposals -----------------------------
(***************************************************************************)
(* The funding process: requests for proposals, proposals, votes, tallies  *)
(* and payouts.  Module Treasury pays, Residency says who lives where,     *)
(* Registry knows the vendors.  Each action is the Ok path of one call     *)
(* and constrains every variable of this module, of Treasury and of        *)
(* Registry; Residency's variables are only read here.                     *)
(***************************************************************************)
EXTENDS Treasury, Residency, Registry

CONSTANTS
    VotingPeriod,       \* Config::VotingPeriod, in blocks
    MinimumQuorum,      \* Config::MinimumQuorum, in votes
    MaxProposalAmount,  \* Config::MaxProposalAmount
    Amounts,            \* amounts tried in submit_proposal and post_rfp
    MaxProposals,       \* bound on the number of proposals
    MaxRfps             \* bound on the number of RFPs

ASSUME ProposalsAssumption ==
    /\ VotingPeriod \in Nat
    /\ MinimumQuorum \in Nat
    /\ MaxProposalAmount \in Nat
    /\ Amounts \subseteq Nat
    /\ MaxProposals \in Nat
    /\ MaxRfps \in Nat

VARIABLES
    rfpCount,       \* RfpCount: the next RFP id
    rfps,           \* Rfps: id -> RFP
    proposalCount,  \* ProposalCount: the next proposal id
    proposals,      \* Proposals: id -> proposal
    voteOf,         \* VoteOf: <<proposal id, voter>> -> TRUE for aye
    wardBallots     \* history: the ward-scoped votes, each with the approval
                    \* (the how-manieth of its voter) it was cast under

rfpVars == <<rfpCount, rfps>>
ballotVars == <<proposalCount, proposals, voteOf, wardBallots>>

ProposalId == Nat
RfpId == Nat

ProposalStatus ==
    {"PendingReview", "Proposed", "Approved", "Rejected", "Funded", "Cancelled",
     "Vetoed"}

Proposal ==
    [proposer : Account, vendor : Account, amount : Nat, status : ProposalStatus,
     ayes : Nat, nays : Nat, voting_end : Nat, ward : Ward,
     rfp_id : RfpId \cup {None}]

Rfp == [ward : Ward, max_amount : Nat, status : {"Open", "Closed"}]

WardBallot == [voter : Account, ward : District, approval : Nat]

ProposalsInit ==
    /\ rfpCount = 0
    /\ rfps = EmptyMap
    /\ proposalCount = 0
    /\ proposals = EmptyMap
    /\ voteOf = EmptyMap
    /\ wardBallots = {}

InStatus(id, status) == id \in DOMAIN proposals /\ proposals[id].status = status

PostRfp(ward, max_amount) ==
    /\ rfpCount < MaxRfps
    /\ max_amount # 0
    /\ rfps' = Put(rfps, rfpCount, [ward |-> ward, max_amount |-> max_amount,
                                    status |-> "Open"])
    /\ rfpCount' = rfpCount + 1
    /\ UNCHANGED <<ballotVars, treasuryVars, vendors>>

CloseRfp(id) ==
    /\ id \in DOMAIN rfps
    /\ rfps' = [rfps EXCEPT ![id].status = "Closed"]
    /\ UNCHANGED <<rfpCount, ballotVars, treasuryVars, vendors>>

\* Mutant of MeetsRfp: the proposal's ward is not compared.
MeetsRfpAnyWard(id, ward, amount) ==
    /\ id \in DOMAIN rfps
    /\ rfps[id].status = "Open"
    /\ amount <= rfps[id].max_amount

\* submit_proposal's checks against the RFP it responds to.
MeetsRfp(id, ward, amount) ==
    /\ id \in DOMAIN rfps
    /\ rfps[id].status = "Open"
    /\ amount <= rfps[id].max_amount
    /\ ward = rfps[id].ward

SubmitProposal(proposer, vendor, amount, ward, rfp_id) ==
    /\ proposalCount < MaxProposals
    /\ vendor \in DOMAIN vendors
    /\ amount # 0 /\ amount <= MaxProposalAmount
    /\ rfp_id # None => MeetsRfp(rfp_id, ward, amount)
    /\ proposals' = Put(proposals, proposalCount,
            [proposer |-> proposer, vendor |-> vendor, amount |-> amount,
             status |-> "PendingReview", ayes |-> 0, nays |-> 0,
             voting_end |-> now, ward |-> ward, rfp_id |-> rfp_id])
    /\ proposalCount' = proposalCount + 1
    /\ UNCHANGED <<voteOf, wardBallots, rfpVars, treasuryVars, vendors>>

VetProposal(id, approve) ==
    /\ InStatus(id, "PendingReview")
    /\ proposals' = IF approve
            THEN [proposals EXCEPT ![id].status = "Proposed",
                                   ![id].voting_end = now + VotingPeriod]
            ELSE [proposals EXCEPT ![id].status = "Vetoed"]
    /\ UNCHANGED <<proposalCount, voteOf, wardBallots, rfpVars, treasuryVars, vendors>>

\* Who may vote on a proposal of this ward, besides having voted already.
Eligible(voter, ward) == ward # Citywide => ResidentOf(voter, ward)

\* The effect of a vote that was let through.
Count(voter, id, approve) ==
    /\ proposals' = IF approve THEN [proposals EXCEPT ![id].ayes = @ + 1]
                               ELSE [proposals EXCEPT ![id].nays = @ + 1]
    /\ voteOf' = Put(voteOf, <<id, voter>>, approve)
    /\ wardBallots' = wardBallots \cup
            (IF proposals[id].ward = Citywide THEN {}
             ELSE {[voter |-> voter, ward |-> proposals[id].ward,
                    approval |-> approvals[voter]]})
    /\ UNCHANGED <<proposalCount, rfpVars, treasuryVars, vendors>>

\* Mutant of Vote: no AlreadyVoted check.
VoteAgain(voter, id, approve) ==
    /\ InStatus(id, "Proposed")
    /\ now <= proposals[id].voting_end
    /\ Eligible(voter, proposals[id].ward)
    /\ Count(voter, id, approve)

\* Mutant of Vote: no ProposalNotOpen check.
VoteUnopened(voter, id, approve) ==
    /\ <<id, voter>> \notin DOMAIN voteOf
    /\ now <= proposals[id].voting_end
    /\ Eligible(voter, proposals[id].ward)
    /\ Count(voter, id, approve)

\* Mutant of Vote: no VotingPeriodEnded check.
VoteLate(voter, id, approve) ==
    /\ <<id, voter>> \notin DOMAIN voteOf
    /\ InStatus(id, "Proposed")
    /\ Eligible(voter, proposals[id].ward)
    /\ Count(voter, id, approve)

Vote(voter, id, approve) ==
    /\ <<id, voter>> \notin DOMAIN voteOf
    /\ InStatus(id, "Proposed")
    /\ now <= proposals[id].voting_end
    /\ Eligible(voter, proposals[id].ward)
    /\ Count(voter, id, approve)

\* Mutant of Settle: a payout is booked before it is known to succeed.
SettleBooksFirst(id, p) ==
    IF CanPay(p.vendor, p.amount)
    THEN /\ proposals' = [proposals EXCEPT ![id].status = "Funded"]
         /\ PayOut(p.vendor, p.amount)
         /\ CreditVendor(p.vendor, p.amount)
    ELSE /\ proposals' = [proposals EXCEPT ![id].status = "Approved"]
         /\ totalDisbursed' = totalDisbursed + p.amount
         /\ CreditVendor(p.vendor, p.amount)
         /\ UNCHANGED <<balanceVars, totalReceived, donors, grantCount, grants,
                        offLedger>>

\* try_disburse's two arms.  Whether the pot can pay decides between them; a
\* failed transfer is swallowed, and the proposal waits as Approved.
Settle(id, p) ==
    IF CanPay(p.vendor, p.amount)
    THEN /\ proposals' = [proposals EXCEPT ![id].status = "Funded"]
         /\ PayOut(p.vendor, p.amount)
         /\ CreditVendor(p.vendor, p.amount)
    ELSE /\ proposals' = [proposals EXCEPT ![id].status = "Approved"]
         /\ UNCHANGED <<treasuryVars, vendors>>

\* A tally passes.
Passes(ayes, nays) == ayes + nays >= MinimumQuorum /\ ayes > nays

\* Mutant of CloseProposal: an error instead of Rejected without a majority.
CloseOnlyPassed(id) ==
    /\ InStatus(id, "Proposed")
    /\ now > proposals[id].voting_end
    /\ Passes(proposals[id].ayes, proposals[id].nays)
    /\ Settle(id, proposals[id])
    /\ UNCHANGED <<proposalCount, voteOf, wardBallots, rfpVars>>

CloseProposal(id) ==
    /\ InStatus(id, "Proposed")
    /\ now > proposals[id].voting_end
    /\ IF Passes(proposals[id].ayes, proposals[id].nays)
       THEN Settle(id, proposals[id])
       ELSE /\ proposals' = [proposals EXCEPT ![id].status = "Rejected"]
            /\ UNCHANGED <<treasuryVars, vendors>>
    /\ UNCHANGED <<proposalCount, voteOf, wardBallots, rfpVars>>

\* Mutant of Disburse: a funded proposal is taken for an approved one.
DisburseAgain(id) ==
    /\ InStatus(id, "Approved") \/ InStatus(id, "Funded")
    /\ Settle(id, proposals[id])
    /\ UNCHANGED <<proposalCount, voteOf, wardBallots, rfpVars>>

\* Mutant of Disburse: it asks for an open poll, as vote does.
DisburseWhileOpen(id) ==
    /\ InStatus(id, "Approved")
    /\ now <= proposals[id].voting_end
    /\ Settle(id, proposals[id])
    /\ UNCHANGED <<proposalCount, voteOf, wardBallots, rfpVars>>

Disburse(id) ==
    /\ InStatus(id, "Approved")
    /\ Settle(id, proposals[id])
    /\ UNCHANGED <<proposalCount, voteOf, wardBallots, rfpVars>>

CancelProposal(who, id) ==
    /\ id \in DOMAIN proposals
    /\ proposals[id].proposer = who
    /\ proposals[id].status \in {"PendingReview", "Proposed"}
    /\ proposals' = [proposals EXCEPT ![id].status = "Cancelled"]
    /\ UNCHANGED <<proposalCount, voteOf, wardBallots, rfpVars, treasuryVars, vendors>>

ProposalsTypeOK ==
    /\ rfpCount \in Nat
    /\ IsMap(rfps, RfpId, Rfp)
    /\ proposalCount \in Nat
    /\ IsMap(proposals, ProposalId, Proposal)
    /\ IsMap(voteOf, ProposalId \X Account, BOOLEAN)
    /\ wardBallots \subseteq WardBallot
============================================================================
