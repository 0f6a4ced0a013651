\* The shell: three clicks on the switch and two reloads around a connection and two
\* requests to the wallet.  A proposal's page: two accounts, three events (clicks,
\* changes of mode or account, failed reads, extrinsics the pool forgets), and two
\* reads of its effects at a time.  An address: three codes, two edits, one lost
\* request, two expired tokens, with mail and without.  The map: two redrawings and two
\* visits.  Amounts: two decimals, and texts of up to one more.
SPECIFICATION PagesSpec
CONSTANTS
    None = None
    MaxToggles = 3
    MaxReloads = 2
    MaxConnects = 2
    Nil = Nil
    Accounts = {admin, bob}
    Admin = admin
    MaxEvents = 3
    MaxReads = 2
    Absent = Absent
    Emails = {own, typo}
    Owned = {own}
    MaxEdits = 2
    MaxCodes = 3
    MaxLosses = 1
    MaxExpired = 2
    v1 = v1
    v2 = v2
    p1 = p1
    r1 = r1
    c1 = c1
    c2 = c2
    w1 = w1
    Vendors = {v1, v2}
    Projects = {p1}
    Rfps = {r1}
    Categories = {c1, c2}
    Wards = {w1}
    CategoryOf <- TwoCategories
    VendorOf <- OneProject
    WardOf <- OneWard
    DemoCoords = {v1}
    Addressed = {v1, v2}
    ApiKey = TRUE
    MaxRuns = 2
    MaxMounts = 2
    Decimals = 2
    MaxWhole = 2
    MaxFrac = 3
    Digits = {0, 1, 9}
INVARIANTS
    DemoOffline
    ChoiceSurvives
    GreyedOnlyAfterVote
    ConfirmedByItsCode
    PinsAsFiltered
    AmountsKept
PROPERTIES
    ActionShown
    BusyEnds
    ReaderIsVerified
    MapOrList
CHECK_DEADLOCK FALSE
