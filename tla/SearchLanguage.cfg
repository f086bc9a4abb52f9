\* Two languages.
SPECIFICATION SearchSpec
CONSTANTS
    a = a
    b = b
    x = x
    en = en
    de = de
    Result = {a, b, x}
    Unparsable = {x}
    Language = {en, de}
    Wanted = {1, 2}
    OverFetch = 2
    MaxPool = 3
    PoolForFetch = 2
    PoolExtra = 1
    Floors = {0}
    relevance_score <- Scores
    Recent = {b}
    DomainConfigs <- OneProfile
    NoEntry = NoEntry
INVARIANT LanguageHonoured
