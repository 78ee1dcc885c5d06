--------------------------- MODULE CppMySQLQuery ---------------------------
(* Class CppMySQLQuery, src/src/CppMySQL.cpp: a query owns a result of the *)
(* client library, MYSQL_RES, which holds all rows and a cursor, and keeps *)
(* in m_Row a pointer into that result: the current row, NULL at the end.  *)
(* Copies, assignments, clear() and seekRow() must keep pointer and cursor *)
(* together.                                                               *)
(*                                                                         *)
(* The program does not use an object that is the source of a copy or an   *)
(* assignment, or that was cleared, before it holds something new (notes   *)
(* at the declarations of copy constructor, operator= and clear()).        *)
EXTENDS Naturals

CONSTANTS
    Qs,        \* objects of class CppMySQLQuery
    Results,   \* the addresses a MYSQL_RES may have
    NULL,      \* the null pointer
    MaxRows,   \* bound on the rows of a result
    ULONG_MAX  \* the largest unsigned long

ASSUME QueryAssumption ==
    /\ MaxRows \in Nat /\ ULONG_MAX \in Nat /\ MaxRows <= ULONG_MAX
    /\ NULL \notin Results
    /\ NULL \notin [rows : 0 .. MaxRows, cursor : 0 .. MaxRows]
    /\ NULL \notin [res : Results, row : 0 .. MaxRows]

VARIABLES
    result,    \* Results -> the rows and the cursor of a result, NULL if free
    m_pRES,    \* the result an object owns
    m_Row,     \* the current row: a result and a row number, or NULL
    m_numRows,
    usable     \* the objects the program may use

vars == <<result, m_pRES, m_Row, m_numRows, usable>>

Live == {r \in Results : result[r] # NULL}

Init ==
    /\ result = [r \in Results |-> NULL]
    /\ m_pRES = [q \in Qs |-> NULL]
    /\ m_Row = [q \in Qs |-> NULL]
    /\ m_numRows = [q \in Qs |-> 0]
    /\ usable = Qs

-----------------------------------------------------------------------------
(* The client library.  cursor is the row mysql_fetch_row returns next.    *)

(* What mysql_data_seek(r, i) and mysql_fetch_row(r) return, and leave, of *)
(* a result r with n rows.                                                 *)
FetchedRow(r, n, i) == IF i < n THEN [res |-> r, row |-> i] ELSE NULL
Fetched(n, i) == [rows |-> n, cursor |-> IF i < n THEN i + 1 ELSE n]

(* mysql_free_result(p), if p is a result.                                 *)
Freed(p) == [r \in Results |-> IF r = p THEN NULL ELSE result[r]]

-----------------------------------------------------------------------------
(* execQuery() builds its result in place, from a stored result or, for a  *)
(* statement that is not a SELECT, from NULL.                              *)
ExecQuery(q) ==
    /\ m_pRES[q] = NULL
    /\ \E r \in Results, n \in 0 .. MaxRows :
          /\ result[r] = NULL
          /\ result' = [result EXCEPT ![r] = Fetched(n, 0)]
          /\ m_pRES' = [m_pRES EXCEPT ![q] = r]
          /\ m_Row' = [m_Row EXCEPT ![q] = FetchedRow(r, n, 0)]
          /\ m_numRows' = [m_numRows EXCEPT ![q] = n]
    /\ usable' = usable \union {q}

ExecNoResult(q) ==
    /\ m_pRES[q] = NULL
    /\ m_Row' = [m_Row EXCEPT ![q] = NULL]
    /\ m_numRows' = [m_numRows EXCEPT ![q] = 0]
    /\ usable' = usable \union {q}
    /\ UNCHANGED <<result, m_pRES>>

(* Mutant: the copy shares the result.                                     *)
CopyShares(q, src) ==
    /\ q # src /\ src \in usable /\ m_pRES[q] = NULL
    /\ m_pRES' = [m_pRES EXCEPT ![q] = m_pRES[src]]
    /\ m_Row' = [m_Row EXCEPT ![q] = m_Row[src]]
    /\ m_numRows' = [m_numRows EXCEPT ![q] = m_numRows[src]]
    /\ usable' = (usable \ {src}) \union {q}
    /\ UNCHANGED result

(* Mutant: the copy does not know the number of rows.                      *)
CopyWithoutCount(q, src) ==
    /\ q # src /\ src \in usable /\ m_pRES[q] = NULL
    /\ m_pRES' = [m_pRES EXCEPT ![q] = m_pRES[src], ![src] = NULL]
    /\ m_Row' = [m_Row EXCEPT ![q] = m_Row[src]]
    /\ usable' = (usable \ {src}) \union {q}
    /\ UNCHANGED <<result, m_numRows>>

(* The copy constructor takes the result and with it the current row.      *)
Copy(q, src) ==
    /\ q # src /\ src \in usable /\ m_pRES[q] = NULL
    /\ m_pRES' = [m_pRES EXCEPT ![q] = m_pRES[src], ![src] = NULL]
    /\ m_Row' = [m_Row EXCEPT ![q] = m_Row[src]]
    /\ m_numRows' = [m_numRows EXCEPT ![q] = m_numRows[src]]
    /\ usable' = (usable \ {src}) \union {q}
    /\ UNCHANGED result

(* Mutant: the cursor goes back to the first row and m_Row does not.       *)
AssignKeepsRow(q, src) ==
    LET r == m_pRES[src]
    IN  /\ q # src /\ src \in usable
        /\ m_pRES' = [m_pRES EXCEPT ![q] = r, ![src] = NULL]
        /\ m_Row' = [m_Row EXCEPT ![q] = m_Row[src]]
        /\ m_numRows' = [m_numRows EXCEPT ![q] = m_numRows[src]]
        /\ result' = IF r = NULL THEN Freed(m_pRES[q])
                     ELSE [Freed(m_pRES[q]) EXCEPT ![r].cursor = 0]
        /\ usable' = (usable \ {src}) \union {q}

(* operator= frees the result it held, takes the other and goes to its     *)
(* first row; when there is no other, m_Row and m_numRows stay.            *)
Assign(q, src) ==
    LET r == m_pRES[src]
        n == result[r].rows
    IN  /\ q # src /\ src \in usable
        /\ m_pRES' = [m_pRES EXCEPT ![q] = r, ![src] = NULL]
        /\ usable' = (usable \ {src}) \union {q}
        /\ \/ /\ r = NULL
              /\ result' = Freed(m_pRES[q])
              /\ UNCHANGED <<m_Row, m_numRows>>
           \/ /\ r # NULL
              /\ result' = [Freed(m_pRES[q]) EXCEPT ![r] = Fetched(n, 0)]
              /\ m_Row' = [m_Row EXCEPT ![q] = FetchedRow(r, n, 0)]
              /\ m_numRows' = [m_numRows EXCEPT ![q] = n]

eof(q) == m_Row[q] = NULL

(* Go to row i and fetch it.                                               *)
FetchAt(q, i) ==
    LET r == m_pRES[q]
        n == result[r].rows
    IN  /\ q \in usable /\ r # NULL
        /\ result' = [result EXCEPT ![r] = Fetched(n, i)]
        /\ m_Row' = [m_Row EXCEPT ![q] = FetchedRow(r, n, i)]
        /\ UNCHANGED <<m_pRES, m_numRows, usable>>

(* nextRow() may be called at the end: the library returns NULL again.     *)
NextRow(q) == m_pRES[q] # NULL /\ FetchAt(q, result[m_pRES[q]].cursor)

(* m_numRows - 1 as an unsigned long.                                      *)
LastRow(q) == (m_numRows[q] + ULONG_MAX) % (ULONG_MAX + 1)

(* Mutant: the row just past the end is not brought back.                  *)
SeekRowOffByOne(q, offerset) ==
    FetchAt(q, IF offerset > m_numRows[q] THEN LastRow(q) ELSE offerset)

(* seekRow() brings an offset past the end back to the last row.           *)
SeekRow(q, offerset) ==
    FetchAt(q, IF offerset >= m_numRows[q] THEN LastRow(q) ELSE offerset)

(* nextRow(), seekRow() and the getters of names and types on an object    *)
(* without result throw from checkRES(), and change nothing.               *)

Clear(q) ==
    /\ result' = Freed(m_pRES[q])
    /\ m_pRES' = [m_pRES EXCEPT ![q] = NULL]
    /\ usable' = usable \ {q}
    /\ UNCHANGED <<m_Row, m_numRows>>

(* The destructor; the scope may be entered again.                         *)
Destroy(q) ==
    /\ result' = Freed(m_pRES[q])
    /\ m_pRES' = [m_pRES EXCEPT ![q] = NULL]
    /\ m_Row' = [m_Row EXCEPT ![q] = NULL]
    /\ m_numRows' = [m_numRows EXCEPT ![q] = 0]
    /\ usable' = usable \union {q}

Step(q) ==
    \/ ExecQuery(q) \/ ExecNoResult(q) \/ Clear(q) \/ Destroy(q)
    \/ NextRow(q)
    \/ \E offerset \in 0 .. ULONG_MAX : SeekRow(q, offerset)
    \/ \E src \in Qs : Copy(q, src) \/ Assign(q, src)

Next == \E q \in Qs : Step(q)

Spec == Init /\ [][Next]_vars

-----------------------------------------------------------------------------
TypeOK ==
    /\ result \in [Results ->
          [rows : 0 .. MaxRows, cursor : 0 .. MaxRows] \union {NULL}]
    /\ m_pRES \in [Qs -> Results \union {NULL}]
    /\ m_Row \in [Qs -> [res : Results, row : 0 .. MaxRows] \union {NULL}]
    /\ m_numRows \in [Qs -> 0 .. MaxRows]
    /\ usable \subseteq Qs

(* An object that owns a result knows its number of rows, which seekRow()  *)
(* relies on.                                                              *)
RowsKnown ==
    \A q \in Qs : m_pRES[q] # NULL =>
        m_pRES[q] \in Live /\ m_numRows[q] = result[m_pRES[q]].rows

(* While an object owns a result, its current row is in that result, right *)
(* before the library's cursor, so that nextRow() skips no row and repeats *)
(* none, after copies, assignments and seeks; and eof() is true only       *)
(* behind the last row.                                                    *)
RowAtCursor ==
    \A q \in Qs : m_pRES[q] # NULL =>
        LET r == result[m_pRES[q]]
        IN  IF eof(q) THEN r.cursor = r.rows
            ELSE m_Row[q].res = m_pRES[q] /\ r.cursor = m_Row[q].row + 1

(* A query comes to its end only by leaving its last row: no seekRow() and *)
(* no offset loses a row that is there ("out of range is forced into       *)
(* range", header of seekRow).                                             *)
EndAfterLastRow ==
    [][\A q \in Qs :
          m_pRES[q] # NULL /\ m_pRES'[q] = m_pRES[q] /\ ~eof(q) /\ eof(q)'
            => m_Row[q].row + 1 = m_numRows[q]]_vars

(* A query the program may use, without a result, is at its end: the test  *)
(* testCppDBQuery assigns the query of an INSERT and asserts eof().        *)
EofWithoutResult ==
    \A q \in usable : m_pRES[q] = NULL => eof(q)

(* "Only one object can own the result handle" (copy constructor and       *)
(* operator=): results are never shared, lost or freed twice.              *)
ResultHandles ==
    INSTANCE HandleOwnership
        WITH Holders <- Qs, Handles <- Results, None <- NULL,
             holds <- m_pRES, live <- Live

ResultOwnership == ResultHandles!Spec
=============================================================================
