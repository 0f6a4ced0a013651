\* Three visits.  Money: three proposals that the pot cannot all pay, closed and
\* retried with either timing of React's updaters, among contributions, grants and
\* stakes.  Votes: a ward's proposal and a new one, a visitor that becomes a
\* resident and a vendor.  Forms: an RFP, a response, an update, receipts.
SPECIFICATION VisitSpec
CONSTANTS
    Account = {"citizen", "admin", "motor-city", "eastern-market", "blight-busters",
               "corktown", "belle-isle", "north-end", "riverwalk", "kresge", "chamber"}
    None = None
    DemoWards = {"District3", "District4"}
    Categories = {"Housing"}
    DemoAmounts = {100}
    DemoReceipts = {4}
    Opened = {1, 2, 3, 4, 6, 10}
    OpenedRfps = {0, 3}
    Visited = {"citizen", "admin", "blight-busters"}
    NewProposals = 1
    NewRfps = 1
    NewUpdates = 1
    NewReceipts = 3
    NewContributions = 1
    NewGrants = 1
    MaxStaked = 100
INVARIANTS
    DemoTypeOK
    DemoBooksBalance
    VendorsMatchFunded
    DemoViewsAddUp
    VotesDecide
CHECK_DEADLOCK FALSE
