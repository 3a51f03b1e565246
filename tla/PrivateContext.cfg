\* Four repositories, three of them recently pushed, two ceilings that can each be
\* met, one listing page that may fail and one recheck.
SPECIFICATION PrivateSpec
CONSTANTS
    Repos = {1, 2, 3, 4}
    Blobs <- MCBlobs
    MaxSampled = 2
    MaxImplementation = 2
    MaxTests = 1
    MaxFiles = 4
    MaxTotalBytes = 5
    MaxRequests = 22
    MaxPerRepository = 8
    Listing <- MCListing
    PageSize = 1
    MaxPages = 2
    MaxConsidered = 3
    Maintained = {1, 2}
    Pushed = {1, 2, 3}
    MaxRechecks = 1
    PublicCaps <- MCPublicCaps
    PrivateCaps <- MCPrivateCaps
CHECK_DEADLOCK FALSE
INVARIANTS WithinCeilings LossIsTold FairSample ReadyMeansRead TokenGone
