CONSTANTS
    k1 = k1
    k2 = k2
    k3 = k3
    k4 = k4
    Keys <- MCKeys
    Vals = {u, v}
    Hash <- MCHash
    Buckets = 2
    NULL = NULL
    TOMBSTONE = TOMBSTONE
    None = None
SPECIFICATION Spec
INVARIANTS
    KeysUnique
    Faithful
