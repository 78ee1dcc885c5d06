------------------------- MODULE CppResultSetProofs -------------------------
(* Proofs about CppResultSet, for any number of objects, tables, rows and  *)
(* columns.                                                                *)
EXTENDS CppResultSet, TLAPS

(* The inductive invariant.  A read reaches its own cell because the size  *)
(* an object believes is the size of its table; a step of another object   *)
(* cannot change that because tables are not shared.  An object that has   *)
(* rows has its cursor in range, whatever else the program seeks in: a     *)
(* cursor is moved, copied and assigned only together with the size.       *)
IInv ==
    /\ TypeOK
    /\ TableHandles!Exclusive
    /\ SizeKnown
    /\ CursorInRange
    /\ ReadsOwnRow

THEOREM InitIInv == Init => IInv
BY ResultSetAssumption
   DEF Init, IInv, TypeOK, TableHandles!Exclusive, SizeKnown, CursorInRange,
       ReadsOwnRow, Live, NoTable

-----------------------------------------------------------------------------
(* Steps of the abstract specification.                                    *)
OwnStep == [TableHandles!Next]_(TableHandles!vars)

(* Numbers that fit are not wrapped, and the clamp is the last row.        *)
LEMMA WrapSmall == \A n \in 0 .. ULONG_MAX : Wrap(n) = n
BY ResultSetAssumption DEF Wrap

LEMMA WrapType == \A n \in Nat : Wrap(n) \in 0 .. ULONG_MAX
BY ResultSetAssumption DEF Wrap

LEMMA RowsFit == MaxRows <= ULONG_MAX
PROOF
<1>1. \A r, c \in Nat : c # 0 => r + 1 <= (r + 1) * c
  OBVIOUS
<1> QED BY <1>1, ResultSetAssumption

LEMMA LastRow == \A n \in 1 .. MaxRows : Wrap(n + ULONG_MAX) = n - 1
PROOF
<1>1. \A n, u \in Nat : n # 0 /\ n <= u => (n + u) % (u + 1) = n - 1
  OBVIOUS
<1> QED BY <1>1, RowsFit, ResultSetAssumption DEF Wrap

(* In an array of column names and rows, the value of column f in row r is *)
(* behind the names, before the end, and the index does not wrap.          *)
LEMMA IndexInTable ==
    ASSUME NEW rows \in 0 .. MaxRows, NEW r \in 0 .. rows - 1,
           NEW f \in 0 .. NCols - 1
    PROVE  /\ r * NCols + NCols + f \in 0 .. ULONG_MAX
           /\ r * NCols + NCols + f >= NCols
           /\ r * NCols + NCols + f < (rows + 1) * NCols
           /\ r * NCols + NCols + f = (r + 1) * NCols + f
PROOF
<1> DEFINE p == r * NCols
           e == (rows + 1) * NCols
<1>1. p \in Nat /\ e \in Nat /\ NCols \in Nat
  BY ResultSetAssumption
<1>2. (r + 1) * NCols = p + NCols
  BY ResultSetAssumption
<1>3. p + NCols + NCols <= e
  <2>1. \A a, b, c \in Nat : a <= b => a * c <= b * c
    OBVIOUS
  <2>2. (r + 2) * NCols <= (rows + 1) * NCols
    BY <2>1, ResultSetAssumption
  <2>3. (r + 2) * NCols = p + NCols + NCols
    BY ResultSetAssumption
  <2> QED BY <2>2, <2>3
<1>4. e <= ULONG_MAX
  <2>1. \A a, b, c \in Nat : a <= b => a * c <= b * c
    OBVIOUS
  <2>2. (rows + 1) * NCols <= (MaxRows + 1) * NCols
    BY <2>1, ResultSetAssumption
  <2> QED BY <2>2, <1>1, ResultSetAssumption
<1> HIDE DEF p, e
<1>5. /\ p + NCols + f \in 0 .. ULONG_MAX
      /\ p + NCols + f >= NCols
      /\ p + NCols + f < e
  BY <1>1, <1>3, <1>4, ResultSetAssumption
<1> QED BY <1>2, <1>5 DEF p, e

-----------------------------------------------------------------------------
(* Every step obtains, releases or moves at most one table.                *)
LEMMA StepOwns ==
    ASSUME IInv, [Next]_vars
    PROVE  OwnStep
PROOF
<1>1. ASSUME NEW o \in Rs, GetResultSet(o) PROVE OwnStep
  <2>1. PICK t \in Tables, rows \in 0 .. MaxRows : \E cols \in ColsOf(rows) :
          /\ table[t] = NoTable
          /\ table' = [table EXCEPT ![t] = [rows |-> rows, cols |-> cols]]
          /\ Build(o, t, rows, cols)
    BY <1>1 DEF GetResultSet
  <2>2. PICK cols \in {0, NCols} :
          /\ table[t] = NoTable
          /\ table' = [table EXCEPT ![t] = [rows |-> rows, cols |-> cols]]
          /\ Build(o, t, rows, cols)
    BY <2>1 DEF ColsOf
  <2>3. Live' = Live \union {t}
    BY <2>2, ResultSetAssumption DEF Live, NoTable, IInv, TypeOK
  <2>4. t \notin Live /\ m_pResults[o] = NULL
    BY <1>1, <2>2 DEF Live, GetResultSet
  <2>5. m_pResults' = [m_pResults EXCEPT ![o] = t]
    BY <2>2 DEF Build
  <2> QED BY <2>3, <2>4, <2>5 DEF OwnStep, TableHandles!Next, TableHandles!Obtain
<1>2. ASSUME NEW o \in Rs, Clear(o) \/ Destroy(o) PROVE OwnStep
  <2>1. /\ table' = Freed(m_pResults[o])
        /\ m_pResults' = [m_pResults EXCEPT ![o] = NULL]
    BY <1>2 DEF Clear, Destroy, Build
  <2>2. Live' = Live \ {m_pResults[o]}
    BY <2>1 DEF Live, Freed, NoTable
  <2>3. CASE m_pResults[o] = NULL
    BY <2>1, <2>2, <2>3, ResultSetAssumption
       DEF OwnStep, TableHandles!vars, IInv, TypeOK, Live
  <2>4. CASE m_pResults[o] # NULL
    BY <2>1, <2>2, <2>4 DEF OwnStep, TableHandles!Next, TableHandles!Release
  <2> QED BY <2>3, <2>4
<1>3. ASSUME NEW o \in Rs, NEW src \in Rs, Copy(o, src) \/ Assign(o, src)
      PROVE  OwnStep
  <2>1. /\ o # src
        /\ m_pResults' = [m_pResults EXCEPT ![o] = m_pResults[src], ![src] = NULL]
    BY <1>3 DEF Copy, Assign, Take
  <2>2. CASE Copy(o, src)
    <3>1. Live' = Live \ {m_pResults[o]}
      BY <2>2, ResultSetAssumption DEF Copy, Live
    <3> QED BY <2>1, <3>1 DEF OwnStep, TableHandles!Next, TableHandles!Move
  <2>3. CASE Assign(o, src)
    <3>1. Live' = Live \ {m_pResults[o]}
      BY <2>3 DEF Assign, Live, Freed, NoTable
    <3> QED BY <2>1, <3>1 DEF OwnStep, TableHandles!Next, TableHandles!Move
  <2> QED BY <1>3, <2>2, <2>3
<1>4. ASSUME NEW o \in Rs, GetNoResult(o) PROVE OwnStep
  <2>1. m_pResults' = m_pResults /\ UNCHANGED table
    BY <1>4 DEF GetNoResult, Build, IInv, TypeOK
  <2> QED BY <2>1 DEF OwnStep, TableHandles!vars, Live, NoTable
<1>5. ASSUME NEW o \in Rs,
             \/ NextRow(o)
             \/ \E nRow \in 0 .. ULONG_MAX : SeekRow(o, nRow)
             \/ \E nField \in 0 .. NCols - 1 : FieldValue(o, nField)
      PROVE  OwnStep
  <2>1. UNCHANGED <<table, m_pResults>>
    BY <1>5 DEF NextRow, SeekRow, FieldValue, members
  <2> QED BY <2>1 DEF OwnStep, TableHandles!vars, Live, NoTable
<1>6. CASE UNCHANGED vars
  BY <1>6 DEF vars, members, program, OwnStep, TableHandles!vars, Live, NoTable
<1> QED BY <1>1, <1>2, <1>3, <1>4, <1>5, <1>6 DEF Next, Step

-----------------------------------------------------------------------------
(* The rest of the invariant, action by action.                            *)
RowInv == TypeOK /\ SizeKnown /\ CursorInRange /\ ReadsOwnRow

(* A new table is nobody else's, and its object knows its size.            *)
LEMMA GetResultSetRows ==
    ASSUME IInv, NEW o \in Rs, GetResultSet(o)
    PROVE  RowInv'
PROOF
<1>1. PICK t \in Tables, rows \in 0 .. MaxRows : \E cols \in ColsOf(rows) :
        /\ table[t] = NoTable
        /\ table' = [table EXCEPT ![t] = [rows |-> rows, cols |-> cols]]
        /\ Build(o, t, rows, cols)
  BY DEF GetResultSet
<1>2. PICK cols \in {0, NCols} :
        /\ table[t] = NoTable
        /\ table' = [table EXCEPT ![t] = [rows |-> rows, cols |-> cols]]
        /\ Build(o, t, rows, cols)
  BY <1>1 DEF ColsOf
<1>3. UNCHANGED <<program, read>>
  BY DEF GetResultSet
<1> USE <1>2, <1>3, ResultSetAssumption DEF IInv, TypeOK, Build, program
<1>4. TypeOK' OBVIOUS
<1>5. SizeKnown' BY DEF SizeKnown, Live, NoTable
<1>6. CursorInRange' /\ ReadsOwnRow'
  BY DEF CursorInRange, ReadsOwnRow
<1> QED BY <1>4, <1>5, <1>6 DEF RowInv

LEMMA GetNoResultRows ==
    ASSUME IInv, NEW o \in Rs, GetNoResult(o)
    PROVE  RowInv'
BY ResultSetAssumption
   DEF GetNoResult, Build, IInv, RowInv, TypeOK, SizeKnown, Live, NoTable,
       CursorInRange, ReadsOwnRow, program

(* A table that is freed is no other object's.                             *)
LEMMA ReleaseRows ==
    ASSUME IInv, NEW o \in Rs, Clear(o) \/ Destroy(o)
    PROVE  RowInv'
PROOF
<1>1. \A p \in Rs \ {o} : m_pResults[p] # NULL => m_pResults[p] # m_pResults[o]
  BY DEF IInv, TableHandles!Exclusive
<1> USE <1>1, ResultSetAssumption DEF IInv, TypeOK, Freed, Clear, Destroy, Build, program
<1>2. TypeOK' BY DEF NoTable
<1>3. SizeKnown' BY DEF SizeKnown, Live
<1>4. CursorInRange' /\ ReadsOwnRow'
  BY DEF CursorInRange, ReadsOwnRow
<1> QED BY <1>2, <1>3, <1>4 DEF RowInv

(* Copies and assignments move sizes and cursor with the table.            *)
LEMMA TakeRows ==
    ASSUME IInv, NEW o \in Rs, NEW src \in Rs, Copy(o, src) \/ Assign(o, src)
    PROVE  RowInv'
PROOF
<1>1. \A p \in Rs \ {o} : m_pResults[p] # NULL => m_pResults[p] # m_pResults[o]
  BY DEF IInv, TableHandles!Exclusive
<1>2. PICK row \in {0, m_nCurrentRow[src]} : o # src /\ Take(o, src, row)
  BY DEF Copy, Assign
<1>3. UNCHANGED <<program, read>>
  BY DEF Copy, Assign
<1>4. (table' = table /\ m_pResults[o] = NULL) \/ table' = Freed(m_pResults[o])
  BY DEF Copy, Assign
<1> USE <1>1, <1>2, <1>3, <1>4, ResultSetAssumption DEF IInv, TypeOK, Take, Freed, program
<1>5. TypeOK' BY DEF NoTable
<1>6. SizeKnown' BY DEF SizeKnown, Live, NoTable
<1>7. CursorInRange' /\ ReadsOwnRow'
  BY DEF CursorInRange, ReadsOwnRow
<1> QED BY <1>5, <1>6, <1>7 DEF RowInv

(* nextRow() and seekRow() move the cursor, within the result.             *)
LEMMA CursorRows ==
    ASSUME IInv, NEW o \in Rs,
           NextRow(o) \/ \E nRow \in 0 .. ULONG_MAX : SeekRow(o, nRow)
    PROVE  RowInv'
PROOF
<1> DEFINE Strays == seeksEmpty /\ m_nRows[o] = 0
<1>1. PICK row \in 0 .. ULONG_MAX :
        /\ m_nCurrentRow' = [m_nCurrentRow EXCEPT ![o] = row]
        /\ Strays \/ row <= m_nRows[o]
  <2>1. CASE NextRow(o)
    <3>1. m_nCurrentRow[o] + 1 \in Nat
      BY ResultSetAssumption DEF IInv, TypeOK
    <3>2. Wrap(m_nCurrentRow[o] + 1) \in 0 .. ULONG_MAX
      BY <3>1, WrapType
    <3>3. ASSUME ~Strays
          PROVE  Wrap(m_nCurrentRow[o] + 1) <= m_nRows[o]
      <4>1. m_nRows[o] \in 0 .. MaxRows /\ m_nCurrentRow[o] \in Nat
        BY ResultSetAssumption DEF IInv, TypeOK
      <4>2. m_nCurrentRow[o] + 1 <= m_nRows[o]
        BY <2>1, <3>3, <4>1 DEF NextRow, eof, CursorInRange, IInv
      <4>3. m_nCurrentRow[o] + 1 \in 0 .. ULONG_MAX
        BY <4>1, <4>2, RowsFit, ResultSetAssumption
      <4> QED BY <4>2, <4>3, WrapSmall
    <3> QED BY <2>1, <3>2, <3>3 DEF NextRow
  <2>2. ASSUME NEW nRow \in 0 .. ULONG_MAX, SeekRow(o, nRow)
        PROVE  \E row \in 0 .. ULONG_MAX :
                 /\ m_nCurrentRow' = [m_nCurrentRow EXCEPT ![o] = row]
                 /\ Strays \/ row <= m_nRows[o]
    <3>1. m_nRows[o] \in 0 .. MaxRows
      BY DEF IInv, TypeOK
    <3>2. Wrap(m_nRows[o] + ULONG_MAX) \in 0 .. ULONG_MAX
      BY <3>1, WrapType, ResultSetAssumption
    <3>3. Strays \/ Wrap(m_nRows[o] + ULONG_MAX) <= m_nRows[o]
      <4>1. m_nRows[o] = 0 \/ m_nRows[o] \in 1 .. MaxRows
        BY <3>1, ResultSetAssumption
      <4>2. m_nRows[o] = 0 => seeksEmpty
        BY <2>2 DEF SeekRow
      <4>3. m_nRows[o] \in 1 .. MaxRows => Wrap(m_nRows[o] + ULONG_MAX) <= m_nRows[o]
        BY LastRow
      <4> QED BY <4>1, <4>2, <4>3
    <3>4. CASE nRow >= m_nRows[o]
      BY <2>2, <3>2, <3>3, <3>4 DEF SeekRow
    <3>5. CASE ~(nRow >= m_nRows[o])
      <4>1. nRow <= m_nRows[o]
        BY <3>1, <3>5, ResultSetAssumption
      <4> QED BY <2>2, <3>5, <4>1 DEF SeekRow
    <3> QED BY <3>4, <3>5
  <2> QED BY <2>1, <2>2
<1>2. UNCHANGED <<program, table, m_pResults, m_nRows, m_nCols, read>>
  BY DEF NextRow, SeekRow
<1> USE <1>1, <1>2 DEF IInv, TypeOK, program
<1>3. TypeOK' OBVIOUS
<1>4. SizeKnown' BY DEF SizeKnown, Live, NoTable
<1>5. CursorInRange' BY DEF CursorInRange
<1>6. ReadsOwnRow' BY DEF ReadsOwnRow
<1> QED BY <1>3, <1>4, <1>5, <1>6 DEF RowInv

(* A read in range reaches its own cell.                                   *)
LEMMA ValueIsOwn ==
    ASSUME TypeOK, SizeKnown,
           NEW o \in Rs, NEW nField \in 0 .. NCols - 1,
           m_nCurrentRow[o] <= m_nRows[o], ~eof(o), nField < m_nCols[o], m_pResults[o] # NULL
    PROVE  Value(o, nField) = "own"
PROOF
<1> DEFINE rows == m_nRows[o]
           r == m_nCurrentRow[o]
           t == table[m_pResults[o]]
<1>1. rows \in 0 .. MaxRows /\ r \in 0 .. rows - 1 /\ m_nCols[o] = NCols
  <2>1. rows \in 0 .. MaxRows /\ r \in 0 .. ULONG_MAX /\ m_nCols[o] \in {0, NCols}
    BY DEF TypeOK
  <2>2. r <= rows /\ r # rows
    BY DEF eof
  <2>3. m_nCols[o] # 0
    OBVIOUS
  <2> QED BY <2>1, <2>2, <2>3, ResultSetAssumption
<1>2. t = [rows |-> rows, cols |-> NCols]
  BY <1>1 DEF SizeKnown
<1>3. MySQLValue(o, nField) = "own"
  BY <1>1, <1>2, ResultSetAssumption DEF MySQLValue
<1>4. SQLiteValue(o, nField) = "own"
  <2> DEFINE i == r * NCols + NCols + nField
  <2>1. /\ i \in 0 .. ULONG_MAX /\ i >= NCols
        /\ i < (rows + 1) * NCols /\ i = (r + 1) * NCols + nField
    BY <1>1, IndexInTable
  <2>2. FieldRealIndex(o, nField) = i
    BY <1>1, <2>1, WrapSmall DEF FieldRealIndex
  <2>3. (rows + 1) * NCols \in Nat /\ NCols \in Nat
    BY <1>1, ResultSetAssumption
  <2> HIDE DEF i
  <2>4. ~(i < NCols) /\ ~(i >= (rows + 1) * NCols)
    BY <2>1, <2>3
  <2>5. t.rows = rows /\ t.cols = NCols
    BY <1>2
  <2> QED BY <2>1, <2>2, <2>4, <2>5 DEF SQLiteValue
<1> QED BY <1>3, <1>4 DEF Value

LEMMA FieldValueRows ==
    ASSUME IInv, NEW o \in Rs, NEW nField \in 0 .. NCols - 1,
           FieldValue(o, nField)
    PROVE  RowInv'
PROOF
<1>1. /\ read' \in [value : {"throws", "own", "name", "other", "outside"}, rows : 0 .. MaxRows]
      /\ read'.rows = m_nRows[o]
  BY DEF FieldValue, Value, SQLiteValue, MySQLValue, IInv, TypeOK
<1>2. UNCHANGED <<program, table, m_pResults, m_nRows, m_nCols, m_nCurrentRow>>
  BY DEF FieldValue, members
<1>3. m_nCurrentRow[o] <= m_nRows[o] => read'.value \in {"throws", "own"}
  BY ValueIsOwn DEF FieldValue, IInv
<1>4. TypeOK' /\ SizeKnown'
  BY <1>1, <1>2 DEF IInv, TypeOK, SizeKnown, Live, NoTable, program
<1>5. CursorInRange'
  BY <1>2 DEF IInv, CursorInRange, program
<1>6. ReadsOwnRow'
  BY <1>1, <1>2, <1>3 DEF IInv, CursorInRange, ReadsOwnRow, program
<1> QED BY <1>4, <1>5, <1>6 DEF RowInv

(* Every step preserves the inductive invariant.                           *)
LEMMA StepIInv ==
    ASSUME IInv, [Next]_vars
    PROVE  IInv'
PROOF
<1>1. TableHandles!Exclusive'
  <2>1. OwnStep BY StepOwns
  <2> QED BY <2>1, ResultSetAssumption, TableHandles!StepExclusive
          DEF IInv, OwnStep
<1>2. RowInv'
  <2>1. ASSUME NEW o \in Rs, Step(o) PROVE RowInv'
    BY <2>1, GetResultSetRows, GetNoResultRows, ReleaseRows, TakeRows,
       CursorRows, FieldValueRows DEF Step
  <2>2. CASE UNCHANGED vars
    BY <2>2 DEF vars, members, program, IInv, RowInv, TypeOK, SizeKnown, Live, NoTable,
                CursorInRange, ReadsOwnRow
  <2> QED BY <2>1, <2>2 DEF Next
<1> QED BY <1>1, <1>2 DEF IInv, RowInv

THEOREM Invariance == Spec => []IInv
BY InitIInv, StepIInv, PTL DEF Spec

(* The members of every object and the tables stay within their types.     *)
THEOREM TypeCorrectness == Spec => []TypeOK
BY Invariance, PTL DEF IInv

(* No cursor leaves its result, but for the cursors of results without     *)
(* rows in a program that seeks in them.                                   *)
THEOREM CursorStaysInRange == Spec => []CursorInRange
BY Invariance, PTL DEF IInv

(* With the same exception every read reaches the asked column of its      *)
(* current row: a program that seeks in empty results still reads the rows *)
(* of the others right.                                                    *)
THEOREM ReadsStayOwn == Spec => []ReadsOwnRow
BY Invariance, PTL DEF IInv

(* Result sets implement the ownership the headers promise.                *)
THEOREM ImplementsOwnership == Spec => TableOwnership
PROOF
<1>1. Init => TableHandles!Init
  BY DEF Init, TableHandles!Init, Live, NoTable
<1>2. IInv /\ [Next]_vars => OwnStep
  BY StepOwns
<1> QED BY <1>1, <1>2, Invariance, PTL
        DEF Spec, TableOwnership, TableHandles!Spec, OwnStep
=============================================================================
