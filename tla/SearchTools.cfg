\* Three results, one of which is no URL; pools of up to three.
SPECIFICATION SearchSpec
CONSTANTS
    a = a
    b = b
    x = x
    en = en
    de = de
    Result = {a, b, x}
    Unparsable = {x}
    Language = {en}
    Wanted = {1, 2}
    OverFetch = 2
    MaxPool = 3
    PoolForFetch = 2
    PoolExtra = 1
    Floors = {0, 2}
    relevance_score <- Scores
    Recent = {b}
    DomainConfigs <- OneProfile
    NoEntry = NoEntry
INVARIANT ExpansionStaysOut
PROPERTY FilteredAsConfigured
PROPERTY BestOrUnranked
