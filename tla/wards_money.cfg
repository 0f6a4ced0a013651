\* Wards: one resident, two districts, two proposals, and two approvals of its requests.
\* Money: a pot that starts empty, an existential deposit of 2 and amounts around it, a
\* vendor whose account does not exist yet, gifts and mints besides contributions, and a
\* receipt for what was paid.
SPECIFICATION EitherSpec

CONSTANTS
    ann = ann
    ben = ben
    citywide = citywide
    d1 = d1
    d2 = d2
    none = none
    pot = pot
    profile = profile
    Account = {ann, ben}
    Pot = pot
    None = none
    ExistentialDeposit = 2
    MaxMinted = 2
    Contributions = {2, 3}
    Transfers = {2}
    Mints = {2}
    MaxGrants = 2
    District = {d1, d2}
    Citywide = citywide
    KycValidityPeriod = 1
    MaxBlock = 2
    MaxReviews = 2
    Profile = {profile}
    VotingPeriod = 1
    MinimumQuorum = 1
    MaxProposalAmount = 2
    Amounts = {1, 2}
    MaxProposals = 2
    MaxRfps = 0
    ReceiptAmounts = {1}
    MaxReceipts = 1
    MaxUpdates = 0
    Contributor = {ben}
    Resident = {ben}
    Candidate = {ann}
    Proposer = {ann}
    Voter = {ben}
    Genesis <- NewVendor

INVARIANTS
    OneWardPerApproval
    PotAccounted
    PayoutsBooked
    DonorBooksBalance

PROPERTIES
    WardFixedByApproval

CHECK_DEADLOCK FALSE
