\* Two replicas, two calls; the budget is good for two full attempts.
CONSTANTS
    i1 = i1
    i2 = i2
    c1 = c1
    c2 = c2
    Call = {c1, c2}
    Instances <- Two
    TotalTimeout = 2
    AttemptTimeout = 1
    UnhealthyTtl = 1

SPECIFICATION FairSpec

INVARIANT OneBudget
INVARIANT FailsOnlyWhenExhausted
PROPERTY EveryCallEnds
