------------------------------ MODULE DemoMode ------------------------------
(***************************************************************************)
(* Demo mode: the replica of the pallet that the front end keeps in the    *)
(* state of one React component, and the pages' handlers that drive it.    *)
(* An action is a handler together with the render that follows it.        *)
(*                                                                         *)
(* React runs a state updater at once when the component has no update     *)
(* waiting and no lane left over from an earlier one, and otherwise during *)
(* the next render; which of the two happens is React's affair.  The two   *)
(* handlers whose effect depends on it take it as a parameter, eager.      *)
(***************************************************************************)
EXTENDS DemoSeeds, FiniteSetsExt

CONSTANTS
    DemoWards,      \* the wards picked in forms
    Categories,     \* the vendor categories picked there
    Opened,         \* the proposals whose own pages are opened
    OpenedRfps,     \* the RFPs whose own pages are opened
    DemoAmounts,    \* the amounts typed into forms, in thousands of tokens
    DemoReceipts,   \* the amounts typed into the form for receipts
    Visited,        \* the accounts that are selected in the wallet
    NewProposals, NewRfps, NewUpdates, NewReceipts,   \* bounds on what is added to
    NewContributions, NewGrants, MaxStaked    \* the seeds, and on a staked balance

ASSUME DemoAssumption ==
    /\ {CITIZEN, ADMIN} \subseteq Account
    /\ Visited \subseteq Account
    /\ DemoAmounts \cup DemoReceipts \subseteq Nat \ {0}
    /\ {NewProposals, NewRfps, NewUpdates, NewReceipts, NewContributions, NewGrants,
        MaxStaked} \subseteq Nat

VARIABLES
    vendors, proposals, treasury, treasuryContributions, votedProposalIds,
    vendorUpdates, donors, grants, stakedBalances, rfps, kycRecords,
    spendingReceipts,   \* <<proposal, receipt id>> -> receipt
    queued   \* the proposal whose disbursement waits in the microtask queue

poolVars == <<treasury, treasuryContributions, donors, grants>>
votingVars == <<proposals, votedProposalIds>>
profileVars == <<vendorUpdates, stakedBalances, rfps, kycRecords, spendingReceipts>>
demoVars == <<vendors, poolVars, votingVars, profileVars, queued>>

DemoInit ==
    /\ vendors = createDemoVendors
    /\ proposals = createDemoProposals
    /\ treasury = createDemoTreasury
    /\ treasuryContributions = createDemoTreasuryContributions
    /\ votedProposalIds = {}
    /\ vendorUpdates = createDemoVendorUpdates
    /\ donors = createDemoDonors
    /\ grants = createDemoGrants
    /\ stakedBalances = EmptyMap
    /\ rfps = createDemoRfps
    /\ kycRecords = EmptyMap
    /\ spendingReceipts = createDemoSpendingReceipts
    /\ queued = None

\* Mutant of NewId: the length of a list is taken for its largest id.
NewIdByLength(list) == Cardinality(DOMAIN list) + 1

\* A list's next id, and the latest block among its entries.
NewId(list) == Max(DOMAIN list \cup {-1}) + 1
Latest(list, block(_)) == Max({block(list[k]) : k \in DOMAIN list} \cup {0})

\* Room for another entry: list, its seeds, and the bound on new ones.
Room(list, seeds, bound) == Cardinality(DOMAIN list) < Len(seeds) + bound

\* The demo's wallet: the citizen, the admin, every vendor and every donor.
Selectable == Visited \cap ({CITIZEN, ADMIN} \cup DOMAIN vendors \cup DOMAIN donors)

\* No script of the page runs before the microtasks of the last one have.
Idle == queued = None

\* The sender is always the citizen, whichever account is selected.
RegisterVendor(category) ==
    /\ Idle
    /\ CITIZEN \notin DOMAIN vendors
    /\ vendors' = Put(vendors, CITIZEN,
            [category |-> category, totalReceived |-> 0, proposalsFunded |-> 0,
             registeredAt |-> Latest(vendors, LAMBDA v : v.registeredAt) + 100])
    /\ UNCHANGED <<poolVars, votingVars, profileVars, queued>>

\* The vendor comes from the page's list; an RFP in the address sets the ward,
\* whatever its status, and nothing compares the amount with its maximum.
SubmitProposal(vendor, amount, ward, rfp) ==
    /\ Idle
    /\ Room(proposals, ProposalSeeds, NewProposals)
    /\ rfp # None => ward = rfps[rfp].ward
    /\ LET createdAt == Latest(proposals, LAMBDA p : p.votingEnd)
       IN  proposals' = Put(proposals, NewId(proposals),
                [proposer |-> CITIZEN, vendor |-> vendor, amount |-> amount,
                 status |-> "PendingReview", ayes |-> 0, nays |-> 0,
                 createdAt |-> createdAt, votingEnd |-> createdAt,
                 ward |-> ward, rfpId |-> rfp])
    /\ UNCHANGED <<vendors, poolVars, votedProposalIds, profileVars, queued>>

\* The buttons of a proposal's page that its status brings up.
Shown(id, status) ==
    id \in Opened \cap DOMAIN proposals /\ proposals[id].status = status

VetProposal(account, id, approve) ==
    /\ Idle
    /\ account = ADMIN
    /\ Shown(id, "PendingReview")
    /\ proposals' = IF approve
            THEN [proposals EXCEPT
                    ![id].status = "Proposed",
                    ![id].votingEnd = proposals[id].createdAt + DEMO_VOTING_BLOCKS]
            ELSE [proposals EXCEPT ![id].status = "Vetoed"]
    /\ UNCHANGED <<vendors, poolVars, votedProposalIds, profileVars, queued>>

\* The check that throws "restricted to verified residents of its ward".
ResidentOfWard(ward) ==
    /\ CITIZEN \in DOMAIN kycRecords
    /\ kycRecords[CITIZEN].status = "Verified"
    /\ kycRecords[CITIZEN].ward = ward

\* Mutant of Vote: the list of own votes is not kept.
VoteUnlisted(id, approve) ==
    /\ Idle
    /\ Shown(id, "Proposed")
    /\ id \notin votedProposalIds
    /\ proposals[id].ward # "Citywide" => ResidentOfWard(proposals[id].ward)
    /\ proposals' = IF approve THEN [proposals EXCEPT ![id].ayes = @ + 1]
                               ELSE [proposals EXCEPT ![id].nays = @ + 1]
    /\ UNCHANGED votedProposalIds
    /\ UNCHANGED <<vendors, poolVars, profileVars, queued>>

Vote(id, approve) ==
    /\ Idle
    /\ Shown(id, "Proposed")
    /\ id \notin votedProposalIds
    /\ proposals[id].ward # "Citywide" => ResidentOfWard(proposals[id].ward)
    /\ votedProposalIds' = votedProposalIds \cup {id}
    /\ proposals' = IF approve THEN [proposals EXCEPT ![id].ayes = @ + 1]
                               ELSE [proposals EXCEPT ![id].nays = @ + 1]
    /\ UNCHANGED <<vendors, poolVars, profileVars, queued>>

\* Mutant of Settled: the status does not wait for the treasury's answer.
SettledAnyway(id, eager) ==
    /\ proposals' = [proposals EXCEPT ![id].status = "Funded"]
    /\ vendors' = IF eager
                  THEN [vendors EXCEPT
                        ![proposals[id].vendor].totalReceived = @ + proposals[id].amount,
                        ![proposals[id].vendor].proposalsFunded = @ + 1]
                  ELSE vendors

\* Run late, the updater of the proposals leaves them alone: the updater of
\* the treasury that should set its flag runs after it has read the flag.
Settled(id, eager) ==
    IF eager
    THEN /\ vendors' = [vendors EXCEPT
                ![proposals[id].vendor].totalReceived = @ + proposals[id].amount,
                ![proposals[id].vendor].proposalsFunded = @ + 1]
         /\ proposals' = [proposals EXCEPT ![id].status = "Funded"]
    ELSE UNCHANGED <<vendors, proposals>>

\* disburse's two updaters; a proposal the pot cannot pay changes nothing.
Paid(id, eager) ==
    IF proposals[id].amount > treasury.potBalance
    THEN UNCHANGED <<vendors, proposals, treasury>>
    ELSE /\ treasury' = [treasury EXCEPT !.potBalance = @ - proposals[id].amount,
                                         !.totalDisbursed = @ + proposals[id].amount]
         /\ Settled(id, eager)

\* "Retry disbursement" on an approved proposal.
Disburse(id, eager) ==
    /\ Idle
    /\ Shown(id, "Approved")
    /\ Paid(id, eager)
    /\ UNCHANGED <<treasuryContributions, donors, grants, votedProposalIds,
                   profileVars, queued>>

Passed(p) == p.ayes + p.nays >= DEMO_MINIMUM_QUORUM /\ p.ayes > p.nays

\* Anyone may close, at any time.  justApproved is read where the call was
\* made, so it is still false when the updater runs with the render.
CloseProposal(id, eager) ==
    /\ Idle
    /\ Shown(id, "Proposed")
    /\ proposals' = [proposals EXCEPT
            ![id].status = IF Passed(proposals[id]) THEN "Approved" ELSE "Rejected"]
    /\ queued' = IF eager /\ Passed(proposals[id]) THEN id ELSE None
    /\ UNCHANGED <<vendors, poolVars, votedProposalIds, profileVars>>

\* The microtask of closeProposal, before or after the render.
AttemptDisbursement(eager) ==
    /\ ~Idle
    /\ Paid(queued, eager)
    /\ queued' = None
    /\ UNCHANGED <<treasuryContributions, donors, grants, votedProposalIds,
                   profileVars>>

Collected(amount) ==
    treasury' = [treasury EXCEPT !.potBalance = @ + amount,
                                 !.totalReceived = @ + amount]

FundTreasury(amount) ==
    /\ Idle
    /\ Room(treasuryContributions, ContributionSeeds, NewContributions)
    /\ Collected(amount)
    /\ treasuryContributions' = Put(treasuryContributions,
            NewId(treasuryContributions),
            [amount |-> amount, from |-> CITIZEN,
             block |-> Latest(treasuryContributions, LAMBDA c : c.block) + 50])
    /\ UNCHANGED <<vendors, donors, grants, votingVars, profileVars, queued>>

\* From the owner's page of a vendor, about a proposal that names it or none.
PostVendorUpdate(account, id) ==
    /\ Idle
    /\ Room(vendorUpdates, VendorUpdateSeeds, NewUpdates)
    /\ account \in DOMAIN vendors
    /\ id # None => id \in DOMAIN proposals /\ proposals[id].vendor = account
    /\ vendorUpdates' = Put(vendorUpdates, NewId(vendorUpdates),
            [vendor |-> account, proposalId |-> id,
             postedAt |-> Latest(vendorUpdates, LAMBDA u : u.postedAt) + 50])
    /\ UNCHANGED <<vendors, poolVars, votingVars, stakedBalances, rfps,
                   kycRecords, spendingReceipts, queued>>

RegisterDonor ==
    /\ Idle
    /\ CITIZEN \notin DOMAIN donors
    /\ donors' = Put(donors, CITIZEN,
            [totalContributed |-> 0, grantsMade |-> 0,
             registeredAt |-> Latest(donors, LAMBDA d : d.registeredAt) + 100])
    /\ UNCHANGED <<vendors, treasury, treasuryContributions, grants, votingVars,
                   profileVars, queued>>

SubmitGrant(account, amount) ==
    /\ Idle
    /\ Room(grants, GrantSeeds, NewGrants)
    /\ account \in DOMAIN donors
    /\ grants' = Put(grants, NewId(grants),
            [donor |-> account, amount |-> amount,
             submittedAt |-> Latest(grants, LAMBDA g : g.submittedAt) + 50])
    /\ donors' = [donors EXCEPT ![account].totalContributed = @ + amount,
                                ![account].grantsMade = @ + 1]
    /\ Collected(amount)
    /\ UNCHANGED <<vendors, treasuryContributions, votingVars, profileVars, queued>>

StakeTokens(account, amount) ==
    LET current == IF account \in DOMAIN stakedBalances
                   THEN stakedBalances[account] ELSE 0
    IN  /\ Idle
        /\ current + amount <= MaxStaked
        /\ stakedBalances' = Put(stakedBalances, account, current + amount)
        /\ UNCHANGED <<vendors, poolVars, votingVars, vendorUpdates, rfps,
                       kycRecords, spendingReceipts, queued>>

PostRfp(account, ward, amount) ==
    /\ Idle
    /\ account = ADMIN
    /\ Room(rfps, RfpSeeds, NewRfps)
    /\ rfps' = Put(rfps, NewId(rfps),
            [ward |-> ward, maxAmount |-> amount, status |-> "Open",
             createdAt |-> Latest(rfps, LAMBDA r : r.createdAt) + 50])
    /\ UNCHANGED <<vendors, poolVars, votingVars, vendorUpdates, stakedBalances,
                   kycRecords, spendingReceipts, queued>>

CloseRfp(account, id) ==
    /\ Idle
    /\ account = ADMIN
    /\ rfps[id].status = "Open"
    /\ rfps' = [rfps EXCEPT ![id].status = "Closed"]
    /\ UNCHANGED <<vendors, poolVars, votingVars, vendorUpdates, stakedBalances,
                   kycRecords, spendingReceipts, queued>>

\* The form is on the page of an account with no record or a rejected one,
\* but the record it writes is the citizen's.
SubmitKyc(account, ward) ==
    /\ Idle
    /\ account \in DOMAIN kycRecords => kycRecords[account].status = "Rejected"
    /\ kycRecords' = Put(kycRecords, CITIZEN,
            [ward |-> ward, status |-> "Pending", verifiedAt |-> None,
             expiresAt |-> None])
    /\ UNCHANGED <<vendors, poolVars, votingVars, vendorUpdates, stakedBalances,
                   rfps, spendingReceipts, queued>>

SetKycStatus(account, who, approve) ==
    /\ Idle
    /\ account = ADMIN
    /\ kycRecords[who].status = "Pending"
    /\ kycRecords' = [kycRecords EXCEPT
            ![who].status = IF approve THEN "Verified" ELSE "Rejected",
            ![who].verifiedAt = IF approve THEN 100 ELSE None,
            ![who].expiresAt = IF approve THEN 100 + DEMO_KYC_VALIDITY_BLOCKS
                               ELSE None]
    /\ UNCHANGED <<vendors, poolVars, votingVars, vendorUpdates, stakedBalances,
                   rfps, spendingReceipts, queued>>
ReceiptsOf(id) == {k \in DOMAIN spendingReceipts : k[1] = id}
Receipted(id) == SumFunction([k \in ReceiptsOf(id) |-> spendingReceipts[k].amount])

\* Mutant of Remaining: what was receipted before is not subtracted.
RemainingOfAll(id) == proposals[id].amount

\* What the page of a funded proposal says is left to receipt.
Remaining(id) == proposals[id].amount - Receipted(id)

\* The vendor's form on the page of a funded proposal.
PostSpendingReceipt(account, id, amount) ==
    /\ Idle
    /\ Room(spendingReceipts, SpendingReceiptSeeds, NewReceipts)
    /\ Shown(id, "Funded")
    /\ account = proposals[id].vendor
    /\ Remaining(id) > 0 /\ amount <= Remaining(id)
    /\ LET newId == Max({k[2] : k \in ReceiptsOf(id)} \cup {-1}) + 1
       IN  spendingReceipts' = Put(spendingReceipts, <<id, newId>>,
                [proposalId |-> id, vendor |-> account, amount |-> amount,
                 postedAt |-> Latest(spendingReceipts, LAMBDA r : r.postedAt) + 50])
    /\ UNCHANGED <<vendors, poolVars, votingVars, vendorUpdates, stakedBalances,
                   rfps, kycRecords, queued>>
-----------------------------------------------------------------------------
FundingPages ==
    \/ \E category \in Categories : RegisterVendor(category)
    \/ \E vendor \in DOMAIN vendors, amount \in DemoAmounts, ward \in DemoWards,
          rfp \in (OpenedRfps \cap DOMAIN rfps) \cup {None} :
          SubmitProposal(vendor, amount, ward, rfp)
    \/ \E account \in Selectable, id \in DOMAIN proposals, approve \in BOOLEAN :
          VetProposal(account, id, approve)
    \/ \E id \in DOMAIN proposals, flag \in BOOLEAN :
          Vote(id, flag) \/ CloseProposal(id, flag) \/ Disburse(id, flag)

MoneyPages ==
    \/ \E amount \in DemoAmounts : FundTreasury(amount)
    \/ RegisterDonor
    \/ \E account \in Selectable, amount \in DemoAmounts :
          SubmitGrant(account, amount) \/ StakeTokens(account, amount)

ResidentPages ==
    \/ \E account \in Selectable, ward \in DemoWards : SubmitKyc(account, ward)
    \/ \E account \in Selectable, who \in DOMAIN kycRecords, approve \in BOOLEAN :
          SetKycStatus(account, who, approve)

VendorPages ==
    \/ \E account \in Selectable, id \in DOMAIN proposals \cup {None} :
          PostVendorUpdate(account, id)
    \/ \E account \in Selectable, id \in DOMAIN proposals, amount \in DemoReceipts :
          PostSpendingReceipt(account, id, amount)

RfpPages ==
    \/ \E account \in Selectable, ward \in DemoWards, amount \in DemoAmounts :
          PostRfp(account, ward, amount)
    \/ \E account \in Selectable, id \in OpenedRfps \cap DOMAIN rfps : CloseRfp(account, id)

Microtask == \E eager \in BOOLEAN : AttemptDisbursement(eager)

DemoNext ==
    FundingPages \/ MoneyPages \/ ResidentPages \/ VendorPages \/ RfpPages \/ Microtask

DemoSpec == DemoInit /\ [][DemoNext]_demoVars
-----------------------------------------------------------------------------
DemoStatus ==
    {"PendingReview", "Proposed", "Approved", "Rejected", "Funded", "Cancelled",
     "Vetoed"}

Funded == {id \in DOMAIN proposals : proposals[id].status = "Funded"}
FundedAmount(S) == SumFunction([id \in S \cap Funded |-> proposals[id].amount])

\* The replica keeps to its types: no balance or count goes below zero, and
\* every list is indexed densely, as the next ids taken from its maximum need.
DemoTypeOK ==
    /\ treasury \in [potBalance : Nat, totalDisbursed : Nat, totalReceived : Nat]
    /\ \A list \in {proposals, treasuryContributions, vendorUpdates, grants, rfps} :
          DOMAIN list = 0 .. Cardinality(DOMAIN list) - 1
    /\ \A id \in DOMAIN proposals :
          /\ proposals[id].status \in DemoStatus
          /\ proposals[id].vendor \in DOMAIN vendors
          /\ proposals[id].rfpId \in DOMAIN rfps \cup {None}
    /\ votedProposalIds \subseteq DOMAIN proposals
    /\ DOMAIN kycRecords \subseteq {CITIZEN} /\ DOMAIN stakedBalances \subseteq Account
    /\ \A k \in DOMAIN spendingReceipts : k = <<spendingReceipts[k].proposalId, k[2]>>
    /\ queued \in DOMAIN proposals \cup {None}

GiftsAddUp ==
    LET given(S) == SumFunction([g \in S |-> grants[g].amount]) IN
    /\ treasury.potBalance + treasury.totalDisbursed = treasury.totalReceived
    /\ treasury.totalReceived =
          given(DOMAIN grants) +
          SumFunction([c \in DOMAIN treasuryContributions |-> treasuryContributions[c].amount])
    /\ \A d \in DOMAIN donors :
          LET own == {g \in DOMAIN grants : grants[g].donor = d}
          IN  donors[d].totalContributed = given(own) /\ donors[d].grantsMade = Cardinality(own)

DemoReceiptsCovered ==
    \A id \in DOMAIN proposals : ReceiptsOf(id) # {} =>
        /\ id \in Funded
        /\ Receipted(id) <= proposals[id].amount
        /\ \A k \in ReceiptsOf(id) : spendingReceipts[k].vendor = proposals[id].vendor

\* Lists updated by separate updaters agree: the pot and the payouts add up to
\* what was received, that to the contributions and grants of the ledger, and
\* each donor's totals to its grants; receipts, whatever ids the seeds took,
\* account for no more than the payout of their proposal.
DemoBooksBalance == GiftsAddUp /\ DemoReceiptsCovered

\* Whenever React ran the updaters, a vendor's totals are those of the funded
\* proposals that name it, and no funded proposal was left out of the payouts.
VendorsMatchFunded ==
    /\ \A a \in DOMAIN vendors :
          LET paid == {id \in Funded : proposals[id].vendor = a}
          IN  /\ vendors[a].totalReceived = FundedAmount(paid)
              /\ vendors[a].proposalsFunded = Cardinality(paid)
    /\ FundedAmount(Funded) <= treasury.totalDisbursed

OwnVoteCounted ==
    \A id \in DOMAIN proposals :
        LET seeded == IF id \in DOMAIN createDemoProposals
                      THEN createDemoProposals[id].ayes + createDemoProposals[id].nays
                      ELSE 0
        IN  proposals[id].ayes + proposals[id].nays =
                seeded + (IF id \in votedProposalIds THEN 1 ELSE 0)

DecidedByTally ==
    \A id \in DOMAIN proposals :
        LET total == proposals[id].ayes + proposals[id].nays
            mandate == total >= DEMO_MINIMUM_QUORUM /\ proposals[id].ayes > proposals[id].nays
        IN  /\ proposals[id].status \in {"Approved", "Funded"} => mandate
            /\ proposals[id].status = "Rejected" => ~mandate

\* A tally is the seed's and at most the visitor's one vote, recorded in the
\* list the page greys its buttons by; closing at any time, in any order with
\* votes, leaves no decision that the final tally contradicts.
VotesDecide == OwnVoteCounted /\ DecidedByTally
=============================================================================
