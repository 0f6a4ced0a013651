\* Three voters, two of them residents of the only district, one proposal: votes
\* at every block around the deadline, records that expire in between.
SPECIFICATION Spec

CONSTANTS
    ann = ann
    ben = ben
    cho = cho
    citywide = citywide
    d1 = d1
    none = none
    pot = pot
    profile = profile
    Account = {ann, ben, cho}
    Pot = pot
    None = none
    ExistentialDeposit = 1
    MaxMinted = 0
    Contributions = {3}
    Transfers = {}
    Mints = {}
    MaxGrants = 0
    District = {d1}
    Citywide = citywide
    KycValidityPeriod = 1
    MaxBlock = 3
    MaxReviews = 1
    Profile = {profile}
    VotingPeriod = 1
    MinimumQuorum = 2
    MaxProposalAmount = 2
    Amounts = {2}
    MaxProposals = 1
    MaxRfps = 0
    ReceiptAmounts = {}
    MaxReceipts = 0
    MaxUpdates = 0
    Contributor = {ann}
    Resident = {ben, cho}
    Candidate = {ann}
    Proposer = {ann}
    Voter = {ann, ben, cho}
    Genesis <- PoorPot

SYMMETRY Citizens

INVARIANTS
    TypeOK
    TallyIsRecount
    DecisionMatchesRecount

PROPERTIES
    PollsStayClosed

CHECK_DEADLOCK FALSE
