\* Two processes, three calls, the retry budget of two.
CONSTANTS
    p1 = p1
    p2 = p2
    u1 = u1
    u2 = u2
    u3 = u3
    Proc = {p1, p2}
    Upd = {u1, u2, u3}
    Owner <- TwoAndOne
    MaxRetries = 2
    NoValue = NoValue
    NoUpd = NoUpd

SPECIFICATION Spec

INVARIANT EntryIsTail
INVARIANT RecordInCallOrder
INVARIANT NoSilentDrop
PROPERTY ImplementsAtomicRecord

\* every call may have ended
CHECK_DEADLOCK FALSE
