\* Two concurrent requests; lengths in units of which the default is two. Two
\* lookups of two origins whose documents fill L1 one at a time. Documents of up
\* to three pages.
CONSTANTS
    r1 = r1
    r2 = r2
    page = page
    repo = repo
    Req = {r1, r2}
    Url = {page, repo}
    Github = {repo}
    Fast <- FastPaths
    Sizes = {0, 4}
    Want = {1, 4}
    DefaultChars = 2
    Ceiling = 3
    WaybackEnabled = TRUE
    FirecrawlV2 = FALSE
    None = None
    Focus = {"fetch", "github", "llms", "section"}
    c1 = c1
    c2 = c2
    o1 = o1
    o2 = o2
    Lookup = {c1, c2}
    Origin = {o1, o2}
    DocSize = {0, 1, 2, 3}
    MinSize = 1
    MaxSize = 2
    PresentTtl = 1
    AbsentTtl = 1
    BodyTtl = 1
    NoLlms = NoLlms
    guide = guide
    api = api
    docs = docs
    Layouts <- SomeLayouts
    Paths <- SomePaths

SPECIFICATION MCSpec
SYMMETRY Alike
VIEW Seen

INVARIANT SolverOnlyForOwnChallenge
INVARIANT NoKnownInterstitialIsServed
INVARIANT GivesUpLast
PROPERTY FetchedInFull
INVARIANT BytesAddUp
INVARIANT FreshEnough
INVARIANT ServesOneWholePage
