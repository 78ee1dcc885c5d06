\* No statement objects: every query comes from CppSQLite3DB::execQuery.
CONSTANTS
    Conns = {c1, c2}
    Stmts = {h1, h2, h3}
    Dbs = {d1}
    Qs = {q1, q2, q3}
    Ss = {}
    NULL = NULL
    Wild = Wild
SPECIFICATION Spec
SYMMETRY HandleSymmetry
INVARIANTS
    RowUnlessEof
    StatementsOwned
