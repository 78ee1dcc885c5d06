---------------------------- MODULE CppResultSet ----------------------------
(* The result sets of both backends: CppSQLite3ResultSet and               *)
(* CppMySQLResultSet hold all rows of a query in memory and walk over them *)
(* with a cursor.  A macro chooses the backend when the program is built.  *)
(*                                                                         *)
(* The program is the one of src/Demos/CppDBDemo.cpp: it calls nextRow()   *)
(* and reads a row only while eof() is false, reads the columns 0 to       *)
(* numFields() - 1, and otherwise copies, assigns, seeks and clears as it  *)
(* likes.  seeksEmpty is whether it also seeks in results without rows.    *)
EXTENDS Naturals

CONSTANTS
    Rs,        \* objects of class CppDBResultSet
    Tables,    \* the addresses a table of rows may have
    NULL,      \* the null pointer
    MaxRows,   \* bound on the rows of a table
    NCols,     \* the columns of a query
    ULONG_MAX  \* the largest value of the cursor, an unsigned integer

ASSUME ResultSetAssumption ==
    /\ NULL \notin Tables \union {0, NCols}
    /\ MaxRows \in Nat /\ NCols \in Nat \ {0}
    /\ ULONG_MAX \in Nat /\ (MaxRows + 1) * NCols <= ULONG_MAX

VARIABLES
    backend,       \* "SQLite3" or "MySQL"
    seeksEmpty,    \* may the program call seekRow() when there are no rows?
    table,         \* Tables -> the table allocated there, NoTable if none
    m_pResults,    \* m_paszResults, or m_pResultSet with its m_pFieldMap
    m_nRows,
    m_nCols,
    m_nCurrentRow,
    read           \* of the last read of a value: what it has reached, and
                   \* the number of rows of the result

program == <<backend, seeksEmpty>>
members == <<m_pResults, m_nRows, m_nCols, m_nCurrentRow>>
vars == <<program, table, members, read>>

NoTable == [rows |-> 0, cols |-> NULL]
Live == {t \in Tables : table[t] # NoTable}

(* Members of a default-constructed object, and of one that went out of    *)
(* scope and may come into scope again.                                    *)
Init ==
    /\ backend \in {"SQLite3", "MySQL"} /\ seeksEmpty \in BOOLEAN
    /\ table = [t \in Tables |-> NoTable]
    /\ m_pResults = [o \in Rs |-> NULL]
    /\ m_nRows = [o \in Rs |-> 0]
    /\ m_nCols = [o \in Rs |-> 0]
    /\ m_nCurrentRow = [o \in Rs |-> 0]
    /\ read = [value |-> "none", rows |-> 0]

Wrap(n) == n % (ULONG_MAX + 1)

-----------------------------------------------------------------------------
(* CppDB::getResultSet() builds its result in place.                       *)
Build(o, p, rows, cols) ==
    /\ m_pResults' = [m_pResults EXCEPT ![o] = p]
    /\ m_nRows' = [m_nRows EXCEPT ![o] = rows]
    /\ m_nCols' = [m_nCols EXCEPT ![o] = cols]
    /\ m_nCurrentRow' = [m_nCurrentRow EXCEPT ![o] = 0]

(* The number of columns of a table: SQLite reports none for a statement   *)
(* without result, and may report none when no row was found.              *)
ColsOf(rows) == IF backend = "SQLite3" /\ rows = 0 THEN {0, NCols} ELSE {NCols}

GetResultSet(o) ==
    /\ m_pResults[o] = NULL
    /\ \E t \in Tables, rows \in 0 .. MaxRows : \E cols \in ColsOf(rows) :
          /\ table[t] = NoTable
          /\ table' = [table EXCEPT ![t] = [rows |-> rows, cols |-> cols]]
          /\ Build(o, t, rows, cols)
    /\ UNCHANGED <<program, read>>

(* mysql_store_result returns NULL for a statement without result.         *)
GetNoResult(o) ==
    /\ backend = "MySQL"
    /\ m_pResults[o] = NULL
    /\ Build(o, NULL, 0, 0)
    /\ UNCHANGED <<program, table, read>>

Take(o, src, row) ==
    /\ m_pResults' = [m_pResults EXCEPT ![o] = m_pResults[src], ![src] = NULL]
    /\ m_nRows' = [m_nRows EXCEPT ![o] = m_nRows[src]]
    /\ m_nCols' = [m_nCols EXCEPT ![o] = m_nCols[src]]
    /\ m_nCurrentRow' = [m_nCurrentRow EXCEPT ![o] = row]

(* Mutant: a copy that shares the table.                                   *)
CopyShares(o, src) ==
    /\ o # src /\ m_pResults[o] = NULL
    /\ m_pResults' = [m_pResults EXCEPT ![o] = m_pResults[src]]
    /\ m_nRows' = [m_nRows EXCEPT ![o] = m_nRows[src]]
    /\ m_nCols' = [m_nCols EXCEPT ![o] = m_nCols[src]]
    /\ m_nCurrentRow' = [m_nCurrentRow EXCEPT ![o] = m_nCurrentRow[src]]
    /\ UNCHANGED <<program, table, read>>

(* The copy constructor takes the table; the MySQL class starts again at   *)
(* the first row.                                                          *)
Copy(o, src) ==
    /\ o # src /\ m_pResults[o] = NULL
    /\ Take(o, src, IF backend = "MySQL" THEN 0 ELSE m_nCurrentRow[src])
    /\ UNCHANGED <<program, table, read>>

Freed(p) == [t \in Tables |-> IF t = p THEN NoTable ELSE table[t]]

(* operator= frees the table it held and takes the other.                  *)
Assign(o, src) ==
    /\ o # src
    /\ table' = Freed(m_pResults[o])
    /\ Take(o, src, m_nCurrentRow[src])
    /\ UNCHANGED <<program, read>>

Clear(o) ==
    /\ table' = Freed(m_pResults[o])
    /\ m_pResults' = [m_pResults EXCEPT ![o] = NULL]
    /\ UNCHANGED <<program, m_nRows, m_nCols, m_nCurrentRow, read>>

Destroy(o) ==
    /\ table' = Freed(m_pResults[o])
    /\ Build(o, NULL, 0, 0)
    /\ UNCHANGED <<program, read>>

-----------------------------------------------------------------------------
(* The cursor                                                              *)

eof(o) == m_nCurrentRow[o] = m_nRows[o]

NextRow(o) ==
    /\ ~eof(o)
    /\ m_nCurrentRow' = [m_nCurrentRow EXCEPT ![o] = Wrap(@ + 1)]
    /\ UNCHANGED <<program, table, m_pResults, m_nRows, m_nCols, read>>

(* Mutant: no clamp.                                                       *)
SeekRowUnclamped(o, nRow) ==
    /\ m_nRows[o] > 0 \/ seeksEmpty
    /\ m_nCurrentRow' = [m_nCurrentRow EXCEPT ![o] = nRow]
    /\ UNCHANGED <<program, table, m_pResults, m_nRows, m_nCols, read>>

(* A row past the end becomes the last row, m_nRows - 1, in unsigned       *)
(* arithmetic.  The cursor of the SQLite class is an int: it is the same   *)
(* number modulo ULONG_MAX + 1, with -1 for ULONG_MAX.                     *)
SeekRow(o, nRow) ==
    /\ m_nRows[o] > 0 \/ seeksEmpty
    /\ m_nCurrentRow' = [m_nCurrentRow EXCEPT ![o] =
                            IF nRow >= m_nRows[o]
                            THEN Wrap(m_nRows[o] + ULONG_MAX) ELSE nRow]
    /\ UNCHANGED <<program, table, m_pResults, m_nRows, m_nCols, read>>

(* Mutant: the column names in front of the rows are forgotten.            *)
FieldRealIndexWithoutNames(o, nField) ==
    Wrap(m_nCurrentRow[o] * m_nCols[o] + nField)

(* SQLite returns the names of the columns and the rows in one array.      *)
FieldRealIndex(o, nField) ==
    Wrap(m_nCurrentRow[o] * m_nCols[o] + m_nCols[o] + nField)

(* What m_paszResults[i] is: the value asked for, the name of a column,    *)
(* a value of another cell, or memory outside of the array.                *)
SQLiteValue(o, nField) ==
    LET i == FieldRealIndex(o, nField)
        t == table[m_pResults[o]]
    IN  CASE i < t.cols -> "name"
          [] i >= (t.rows + 1) * t.cols -> "outside"
          [] i = (m_nCurrentRow[o] + 1) * t.cols + nField -> "own"
          [] OTHER -> "other"

(* The MySQL class keeps vectors and indexes them unchecked.               *)
MySQLValue(o, nField) ==
    LET t == table[m_pResults[o]]
    IN  IF m_nCurrentRow[o] < t.rows /\ nField < t.cols THEN "own" ELSE "outside"

Value(o, nField) ==
    IF backend = "SQLite3" THEN SQLiteValue(o, nField) ELSE MySQLValue(o, nField)

(* fieldValue() on an object without results throws.                       *)
FieldValue(o, nField) ==
    /\ ~eof(o) /\ nField < m_nCols[o]
    /\ read' = [value |-> IF m_pResults[o] = NULL THEN "throws" ELSE Value(o, nField),
                rows  |-> m_nRows[o]]
    /\ UNCHANGED <<program, table, members>>

-----------------------------------------------------------------------------
Step(o) ==
    \/ GetResultSet(o) \/ GetNoResult(o) \/ Clear(o) \/ Destroy(o)
    \/ NextRow(o)
    \/ \E nRow \in 0 .. ULONG_MAX : SeekRow(o, nRow)
    \/ \E nField \in 0 .. NCols - 1 : FieldValue(o, nField)
    \/ \E src \in Rs : Copy(o, src) \/ Assign(o, src)

Next == \E o \in Rs : Step(o)

Spec == Init /\ [][Next]_vars

-----------------------------------------------------------------------------
TypeOK ==
    /\ backend \in {"SQLite3", "MySQL"} /\ seeksEmpty \in BOOLEAN
    /\ table \in [Tables -> [rows : 0 .. MaxRows, cols : {0, NCols, NULL}]]
    /\ m_pResults \in [Rs -> Tables \union {NULL}]
    /\ m_nRows \in [Rs -> 0 .. MaxRows]
    /\ m_nCols \in [Rs -> {0, NCols}]
    /\ m_nCurrentRow \in [Rs -> 0 .. ULONG_MAX]
    /\ read \in [value : {"none", "throws", "own", "name", "other", "outside"},
                 rows : 0 .. MaxRows]

(* The table behind an object has the size the object believes, through    *)
(* copies and assignments.                                                 *)
SizeKnown ==
    \A o \in Rs : m_pResults[o] # NULL =>
        /\ m_pResults[o] \in Live
        /\ table[m_pResults[o]] = [rows |-> m_nRows[o], cols |-> m_nCols[o]]

(* The cursor is on a row or just behind the last one, so that eof(),      *)
(* which compares with ==, becomes true after finitely many nextRow().     *)
(* Only seekRow() in a result without rows can break that, and only for    *)
(* objects without rows, whatever is copied and assigned afterwards.       *)
CursorInRange ==
    \A o \in Rs : (seeksEmpty /\ m_nRows[o] = 0) \/ m_nCurrentRow[o] <= m_nRows[o]

(* A read in a loop over eof() and nextRow() reaches the asked column of   *)
(* the current row of the object's own table (header of fieldValue), or    *)
(* throws; never a column name, another cell or memory outside.  Again     *)
(* the exception is a result without rows in which the program seeks.      *)
ReadsOwnRow ==
    (seeksEmpty /\ read.rows = 0) \/ read.value \in {"none", "throws", "own"}

(* "Only one object can own the results" (copy constructors and operator=):*)
(* tables are never shared, lost or freed twice.                           *)
TableHandles ==
    INSTANCE HandleOwnership
        WITH Holders <- Rs, Handles <- Tables, None <- NULL,
             holds <- m_pResults, live <- Live

TableOwnership == TableHandles!Spec
=============================================================================
