\* One database object, two queries, two statement objects.  No symmetry:
\* the run checks a liveness property.
CONSTANTS
    Conns = {c1, c2}
    Stmts = {h1, h2}
    Dbs = {d1}
    Qs = {q1, q2}
    Ss = {s1, s2}
    NULL = NULL
    Wild = Wild
SPECIFICATION FairClientSpec
INVARIANT
    NothingLost
PROPERTIES
    StatementOwnership
    ConnectionOwnership
    LeavingReleasesAll
