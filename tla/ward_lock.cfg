\* One resident who is approved and submits again.
SPECIFICATION Spec

CONSTANTS
    ann = ann
    ben = ben
    citywide = citywide
    d1 = d1
    d2 = d2
    none = none
    pot = pot
    profile = profile
    Account = {ann, ben}
    Pot = pot
    None = none
    ExistentialDeposit = 1
    MaxMinted = 0
    Contributions = {}
    Transfers = {}
    Mints = {}
    MaxGrants = 0
    District = {d1, d2}
    Citywide = citywide
    KycValidityPeriod = 1
    MaxBlock = 3
    MaxReviews = 1
    Profile = {profile}
    VotingPeriod = 1
    MinimumQuorum = 2
    MaxProposalAmount = 2
    Amounts = {2}
    MaxProposals = 1
    MaxRfps = 0
    ReceiptAmounts = {}
    MaxReceipts = 0
    MaxUpdates = 0
    Contributor = {}
    Resident = {ben}
    Candidate = {ann}
    Proposer = {ann}
    Voter = {}
    Genesis <- RichPot

PROPERTIES
    WardLockedUntilExpiry

CHECK_DEADLOCK FALSE
