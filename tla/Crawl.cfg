\* Cascade: two crawls of one site; chunks of two, three pages asked for; every
\* duration is the shortest that lets its end fall inside a crawl. Sitemaps: three
\* of them, nested two deep. Breadth first: every site of four pages.
CONSTANTS
    c1 = c1
    c2 = c2
    a = a
    b = b
    d = d
    Crawl = {c1, c2}
    Url = {a, b, d}
    Lists <- SomeLists
    Allowed = {a, b}
    Configs <- SomeConfigs
    maxPages = 3
    concurrency = 2
    MaxWait = 2
    Interval = 1
    PollTimeout = 1
    ManifestTtl = 1
    Outages = TRUE
    None = None
    top = top
    index = index
    sub = sub
    home = home
    docs = docs
    blog = blog
    shop = shop
    Map = {top, index, sub}
    Page = {home, docs}
    Sites <- SomeSitemaps
    Named <- SomeNames
    WellKnown <- TwoPlaces
    SitemapDepth = 2
    BfsUrl <- WebPages
    startUrl = home
    Robots <- OneDisallowed
    Filters <- OneExcluded
    MaxPages = {2, 5}
    MaxDepth = {1, 2}
SPECIFICATION MCSpec
INVARIANT OneOutcomeBooked
INVARIANT PollingIsBounded
PROPERTY EveryCrawlEnds
INVARIANT Discovers
INVARIANT FetchesWithinBounds
INVARIANT Complete
