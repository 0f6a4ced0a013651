\* Two proposals compete for a pot that is filled bit by bit; the deadline is the
\* block of vetting; a receipt may follow.
SPECIFICATION KeeperSpec

CONSTANTS
    ann = ann
    ben = ben
    cho = cho
    citywide = citywide
    none = none
    pot = pot
    profile = profile
    Account = {ann, ben, cho}
    Pot = pot
    None = none
    ExistentialDeposit = 1
    MaxMinted = 0
    Contributions = {2}
    Transfers = {}
    Mints = {}
    MaxGrants = 0
    District = {}
    Citywide = citywide
    KycValidityPeriod = 1
    MaxBlock = 1
    MaxReviews = 1
    Profile = {profile}
    VotingPeriod = 0
    MinimumQuorum = 1
    MaxProposalAmount = 2
    Amounts = {1, 2}
    MaxProposals = 2
    MaxRfps = 0
    ReceiptAmounts = {1}
    MaxReceipts = 1
    MaxUpdates = 0
    Contributor = {cho}
    Resident = {}
    Candidate = {ann}
    Proposer = {ann}
    Voter = {ann, ben}
    Genesis <- PoorPot

PROPERTIES
    ImplementsMandate
    PollsEnd
    ApprovedGetPaid

CHECK_DEADLOCK FALSE
