\* Three objects, up to two rows, offsets of two bits.
CONSTANTS
    Qs = {q1, q2, q3}
    Results = {r1, r2, r3}
    NULL = NULL
    MaxRows = 2
    ULONG_MAX = 3
SPECIFICATION Spec
INVARIANTS
    RowAtCursor
    RowsKnown
PROPERTIES
    EndAfterLastRow
    ResultOwnership
