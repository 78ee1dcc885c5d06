\* The program binds two integers, as a statement with two may ask for.
CONSTANTS
    Ss = {s1, s2}
    Stmts = {h1, h2}
    NULL = NULL
    Strings = {}
    Values = {0, 1}
    Zero = 0
    MaxParams = 2
    MaxPos = 1
    Careful = FALSE
SPECIFICATION Spec
INVARIANT
    SendsWhatWasBound
