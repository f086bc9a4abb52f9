\* Two hostnames, scans that can be truncated, a retention below its floor.
CONSTANTS
    d1 = d1
    d2 = d2
    Domain = {d1, d2}
    MaxTime = 1
    MaxKeys = {1, 2}
    Retention = 0
    Batch = 1
    NoRec = NoRec

SPECIFICATION Spec
SYMMETRY Hosts

INVARIANT RestorePointWhole
INVARIANT NoFalseEmptySnapshot
PROPERTY ReapSparesTheConfirmed
PROPERTY RestoreSparesTheRead
