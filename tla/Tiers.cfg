\* Routing: tier 2 is not configured; two attempts decide, below one half; the fetches'
\* attempts overlap, though each fetch has one uncommitted attempt at most.
\* Every setting and source; two calls at one robots.txt; one Crawl4AI job.
SPECIFICATION MCSpec
CONSTANTS
    Fetch = {f1, f2}
    Configured <- Tiers13
    Override <- Overrides
    MinAttempts = 2
    LowNum = 1
    LowDen = 2
    Window = 1
    MaxPending = 1
    MaxLog = 2
    None = None
    ApiVersions = {"v1", "v2"}
    IgnoreRobots = {TRUE, FALSE}
    AbortAfter = 5
    PollBudget = 4
    PollPause = 2
    Check = {k1, k2}
    RobotsTtl = 3
    RobotsErrorTtl = 1
    NoRobots = NoRobots
INVARIANT SkipsOnEvidence
INVARIANT CountsItsWindow
PROPERTY SkippedTierComesBack
INVARIANT OutageIsTold
INVARIANT UnavailableIsNotEmpty
INVARIANT PollingEnds
PROPERTY VerdictsAreCurrent
