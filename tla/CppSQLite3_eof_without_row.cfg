\* Queries from CppSQLite3Statement::execQuery.
CONSTANTS
    Conns = {c1, c2}
    Stmts = {h1, h2}
    Dbs = {d1, d2}
    Qs = {q1, q2}
    Ss = {s1, s2}
    NULL = NULL
    Wild = Wild
SPECIFICATION Spec
INVARIANT
    RowUnlessEof
