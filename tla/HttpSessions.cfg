\* Three sessions over a cap of one, two requests, a timeout of one tick; no
\* symmetry, for the liveness property.
CONSTANTS
    s1 = s1
    s2 = s2
    s3 = s3
    r1 = r1
    r2 = r2
    Sid = {s1, s2, s3}
    Req = {r1, r2}
    MaxSessions = 1
    IdleTimeout = 1
    None = None

SPECIFICATION FairSpec

INVARIANT BookkeepingFollowsMap
PROPERTY EvictionSparesHandlers
PROPERTY SweepsOnlyTheQuiet
PROPERTY GrowsOnlyWhenBusy
PROPERTY AbandonedSessionCloses
