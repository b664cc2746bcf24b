SPECIFICATION Spec
CONSTANTS
    Requests = {r1, r2, r3}
    KeyIds = {k1, k2}
    Owners = {alice, bob}
    ScopeSets <- ReadOrAdmin
    None = None
    MaxTime = 1
SYMMETRY Symmetry
INVARIANTS TypeOK RevokeIsFinal ExpiryIsFinal AnsweredKeysAreStored OwnerIsInherited
PROPERTIES RowsOnlyAge KeepsKeyLedger
CHECK_DEADLOCK FALSE
