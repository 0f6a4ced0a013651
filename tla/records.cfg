\* Two proposals, two profiles that a vendor changes between, and lists of both that are
\* read at any moments; a grant besides contributions, two receipts and an update; or an
\* RFP and two responses.
SPECIFICATION ScopedSpec

CONSTANTS
    ann = ann
    ben = ben
    citywide = citywide
    d1 = d1
    none = none
    pot = pot
    profile = profile
    garden = garden
    Account = {ann, ben}
    Pot = pot
    None = none
    ExistentialDeposit = 1
    MaxMinted = 0
    Contributions = {2}
    Transfers = {}
    Mints = {}
    MaxGrants = 1
    District = {d1}
    Citywide = citywide
    KycValidityPeriod = 1
    MaxBlock = 1
    MaxReviews = 1
    Profile = {profile, garden}
    VotingPeriod = 0
    MinimumQuorum = 1
    MaxProposalAmount = 2
    Amounts = {1, 2}
    MaxProposals = 2
    MaxRfps = 1
    ReceiptAmounts = {1, 2}
    MaxReceipts = 2
    MaxUpdates = 1
    Contributor = {ben}
    Resident = {}
    Candidate = {ann}
    Proposer = {ann}
    Voter = {ben}
    Genesis <- PoorPot

INVARIANTS
    ViewsAddUp
    RfpTermsHold
    ReceiptsCovered
PROPERTIES
    AppendOnly

CHECK_DEADLOCK FALSE
