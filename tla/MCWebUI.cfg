\* Two users of one browser, all pages and all requests, a few together: two
\* requests in flight and a window of two.  Where the home page shows both
\* public histories the chain has two blocks, elsewhere up to four.
SPECIFICATION Spec
CONSTANTS
    u1 = u1
    u2 = u2
    NoUser = NoUser
    Users <- TwoUsers
    BlockRange = 2
    RecentRange = 2
    RigPeriod = 1
    Edge <- Sizes
    PoolFound <- Found
    Worked <- Shared
    Visits <- AllVisits
    MaxTip = 4
    MaxCalls = 2
INVARIANTS TypeOK SessionKept FormerUserData OnePayout SpinnersEnd
SYMMETRY Symmetry
PROPERTIES PublicFeeds MinerFeed
