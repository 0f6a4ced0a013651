----------------------------- MODULE DemoSeeds -----------------------------
(***************************************************************************)
(* The example data that demo mode starts from: what the create functions  *)
(* of the front end build out of their seed tables.  Names, texts, photos  *)
(* and street addresses are left out.  Amounts are in thousands of tokens, *)
(* and an account is the key its address is derived from.                  *)
(***************************************************************************)
EXTENDS Frame, Sequences

CITIZEN == "citizen"   \* DEMO_CITIZEN
ADMIN == "admin"       \* DEMO_ADMIN, which is also the city's donor account

VendorSeeds == <<
    [key |-> "motor-city",     category |-> "Construction",       registeredAt |-> 1200],
    [key |-> "eastern-market", category |-> "FoodAndAgriculture", registeredAt |-> 1450],
    [key |-> "blight-busters", category |-> "Environmental",      registeredAt |-> 900],
    [key |-> "corktown",       category |-> "Housing",            registeredAt |-> 2100],
    [key |-> "belle-isle",     category |-> "ParksAndRecreation", registeredAt |-> 800],
    [key |-> "north-end",      category |-> "ArtsAndCulture",     registeredAt |-> 3400],
    [key |-> "riverwalk",      category |-> "Infrastructure",     registeredAt |-> 3900] >>

\* vendor, amount, status, ayes, nays, createdAt, votingEnd, ward, rfp
ProposalSeeds == <<
    <<"belle-isle",     185, "Funded",        412, 37,  8100,  22500, "District5", None>>,
    <<"blight-busters", 62,  "Funded",        298, 21,  9500,  23900, "District1", None>>,
    <<"riverwalk",      240, "Approved",      356, 118, 15200, 29600, "Citywide",  None>>,
    <<"eastern-market", 94,  "Proposed",      187, 42,  24800, 39200, "District4", None>>,
    <<"corktown",       310, "Proposed",      201, 76,  25100, 39500, "District6", None>>,
    <<"motor-city",     150, "Rejected",      88,  214, 11300, 25700, "District4", None>>,
    <<"north-end",      38,  "Proposed",      264, 19,  26000, 40400, "Citywide",  None>>,
    <<"riverwalk",      76,  "Cancelled",     12,  3,   12800, 27200, "District5", None>>,
    <<"motor-city",     118, "PendingReview", 0,   0,   27200, 27200, "District3", 0>>,
    <<"eastern-market", 420, "Vetoed",        0,   0,   18600, 18600, "Citywide",  None>> >>

RfpSeeds == <<
    [ward |-> "District3", maxAmount |-> 150, status |-> "Open",   createdAt |-> 27000],
    [ward |-> "District1", maxAmount |-> 80,  status |-> "Open",   createdAt |-> 30000],
    [ward |-> "District6", maxAmount |-> 45,  status |-> "Closed", createdAt |-> 16000] >>

ContributionSeeds == <<
    [amount |-> 45, block |-> 5000], [amount |-> 22, block |-> 7000] >>

DonorSeeds == <<
    [key |-> ADMIN,     registeredAt |-> 300],
    [key |-> "kresge",  registeredAt |-> 1800],
    [key |-> "chamber", registeredAt |-> 6500] >>

GrantSeeds == <<
    [donor |-> ADMIN,     amount |-> 500, submittedAt |-> 500],
    [donor |-> "kresge",  amount |-> 100, submittedAt |-> 2000],
    [donor |-> "chamber", amount |-> 18,  submittedAt |-> 6800] >>

\* vendor, linked proposal, postedAt
VendorUpdateSeeds == <<
    <<"belle-isle", 0, 22800>>,      <<"belle-isle", 0, 27600>>,
    <<"blight-busters", 1, 24200>>,  <<"riverwalk", 2, 30100>>,
    <<"motor-city", None, 26400>>,   <<"eastern-market", 3, 26200>>,
    <<"eastern-market", None, 31400>>, <<"corktown", 4, 27100>>,
    <<"corktown", None, 32600>>,     <<"north-end", 6, 28300>>,
    <<"north-end", None, 33900>>,    <<"blight-busters", 1, 29500>> >>

\* proposal, vendor, amount, postedAt
SpendingReceiptSeeds == <<
    <<0, "belle-isle", 92, 23100>>,     <<0, "belle-isle", 68, 24600>>,
    <<0, "belle-isle", 12, 24800>>,
    <<1, "blight-busters", 24, 24200>>, <<1, "blight-busters", 30, 25000>> >>

\* DEMO_MINIMUM_QUORUM, the voting period, DEMO_KYC_VALIDITY_BLOCKS.
DEMO_MINIMUM_QUORUM == 150
DEMO_VOTING_BLOCKS == 14400
DEMO_KYC_VALIDITY_BLOCKS == 200000
-----------------------------------------------------------------------------
\* A seed's index in its table is the id of what is built from it.
Ids(seeds) == 0 .. Len(seeds) - 1
Built(seeds, f(_)) == [id \in Ids(seeds) |-> f(seeds[id + 1])]

createDemoProposals ==
    Built(ProposalSeeds, LAMBDA s :
        [proposer |-> CITIZEN, vendor |-> s[1], amount |-> s[2], status |-> s[3],
         ayes |-> s[4], nays |-> s[5], createdAt |-> s[6], votingEnd |-> s[7],
         ward |-> s[8], rfpId |-> s[9]])

FundedSeeds == {id \in Ids(ProposalSeeds) : createDemoProposals[id].status = "Funded"}
SeedAmount(S) == SumFunction([id \in S |-> createDemoProposals[id].amount])

createDemoVendors ==
    [a \in {VendorSeeds[i].key : i \in DOMAIN VendorSeeds} |->
        LET seed == CHOOSE s \in {VendorSeeds[i] : i \in DOMAIN VendorSeeds} : s.key = a
            funded == {id \in FundedSeeds : createDemoProposals[id].vendor = a}
        IN  [category |-> seed.category, registeredAt |-> seed.registeredAt,
             totalReceived |-> SeedAmount(funded),
             proposalsFunded |-> Cardinality(funded)]]

createDemoRfps == Built(RfpSeeds, LAMBDA s : s)
createDemoGrants == Built(GrantSeeds, LAMBDA s : s)
createDemoTreasuryContributions ==
    Built(ContributionSeeds, LAMBDA s :
        [amount |-> s.amount, block |-> s.block, from |-> ADMIN])

createDemoDonors ==
    [a \in {DonorSeeds[i].key : i \in DOMAIN DonorSeeds} |->
        LET seed == CHOOSE s \in {DonorSeeds[i] : i \in DOMAIN DonorSeeds} : s.key = a
            given == {id \in Ids(GrantSeeds) : GrantSeeds[id + 1].donor = a}
        IN  [registeredAt |-> seed.registeredAt,
             totalContributed |-> SumFunction([id \in given |-> GrantSeeds[id + 1].amount]),
             grantsMade |-> Cardinality(given)]]

createDemoTreasury ==
    LET stillInPot == 438 IN
    [potBalance |-> stillInPot, totalDisbursed |-> SeedAmount(FundedSeeds),
     totalReceived |-> SeedAmount(FundedSeeds) + stillInPot]

createDemoVendorUpdates ==
    Built(VendorUpdateSeeds, LAMBDA s :
        [vendor |-> s[1], proposalId |-> s[2], postedAt |-> s[3]])

\* Unlike the chain's, the ids of the seeded receipts do not start over for
\* every proposal.
createDemoSpendingReceipts ==
    [k \in {<<SpendingReceiptSeeds[id + 1][1], id>> : id \in Ids(SpendingReceiptSeeds)} |->
        LET s == SpendingReceiptSeeds[k[2] + 1]
        IN  [proposalId |-> s[1], vendor |-> s[2], amount |-> s[3], postedAt |-> s[4]]]
=============================================================================
