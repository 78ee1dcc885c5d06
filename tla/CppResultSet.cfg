\* Three objects, up to two rows of two columns, cursors of three bits.
CONSTANTS
    Rs = {r1, r2, r3}
    Tables = {t1, t2}
    NULL = NULL
    MaxRows = 2
    NCols = 2
    ULONG_MAX = 7
SPECIFICATION Spec
INVARIANTS
    CursorInRange
    ReadsOwnRow

    
