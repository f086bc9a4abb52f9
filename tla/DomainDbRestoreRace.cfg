\* A violation run: one property, one hostname is enough.
CONSTANTS
    d2 = d2
    d1 = d1
    Domain = {d1}
    MaxTime = 1
    MaxKeys = {1}
    Retention = 0
    Batch = 1
    NoRec = NoRec

SPECIFICATION Spec

PROPERTY RestoreNeverClobbers
