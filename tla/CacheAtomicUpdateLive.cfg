\* One process, two calls chained on one key, under fairness.
CONSTANTS
    p1 = p1
    p2 = p2
    u3 = u3
    u1 = u1
    u2 = u2
    Proc = {p1}
    Upd = {u1, u2}
    Owner <- TwoAlone
    MaxRetries = 3
    NoValue = NoValue
    NoUpd = NoUpd

SPECIFICATION FairSpec

PROPERTY EveryCallEnds

\* every call may have ended
CHECK_DEADLOCK FALSE
