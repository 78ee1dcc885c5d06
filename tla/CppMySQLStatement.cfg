\* Two statement objects of up to two parameters, one string, two values.
CONSTANTS
    Ss = {s1, s2}
    Stmts = {h1, h2}
    NULL = NULL
    Strings = {"buf"}
    Values = {0, 1}
    Zero = 0
    MaxParams = 2
    MaxPos = 1
    Careful = TRUE
SPECIFICATION Spec
INVARIANTS
    MembersAgree
    SendsWhatWasBound
PROPERTY
    StatementOwnership
