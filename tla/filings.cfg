\* Requests: two of two accounts of one wallet and two decisions of them, two reads of
\* records at a time in any order, and a failed read; or as many of one account through
\* three blocks after a validity of one.  Receipts: up to two, with an image and a
\* document of allowed size, and an image over the limit.
SPECIFICATION FilingsSpec
CONSTANTS
    Account = {ann, ben}
    Applicants = {ann, ben}
    None = None
    District = {d1}
    Citywide = citywide
    KycValidityPeriod = 1
    MaxBlock = 3
    MaxReviews = 2
    MaxSubmits = 2
    MaxDecisions = 2
    MaxFailures = 1
    MaxReads = 2
    NoFile = NoFile
    Files = {image, scan, huge}
    Images = {image, huge}
    Large = {huge}
    Disbursed = 2
    MaxAmount = 2
INVARIANTS
    OneDecisionPerRequest
    ExpiryAgrees
    KeptBeforePosted
PROPERTIES
    SubmissionShown
    PostedAsClicked
CHECK_DEADLOCK FALSE
