------------------------ MODULE CppMySQLQueryProofs ------------------------
(* Proofs about CppMySQLQuery, for any number of objects, results and rows.*)
EXTENDS CppMySQLQuery, TLAPS

(* The library's cursor never leaves a result.                             *)
CursorWithin == \A r \in Live : result[r].cursor <= result[r].rows

(* The inductive invariant.  RowAtCursor relates an object to the cursor   *)
(* of its result, which a step of another object could move: so it needs   *)
(* that results are not shared, which is part of Exclusive.  CursorWithin  *)
(* is what makes the row before the end the last one.                      *)
IInv ==
    /\ TypeOK
    /\ ResultHandles!Exclusive
    /\ CursorWithin
    /\ RowsKnown
    /\ RowAtCursor

THEOREM InitIInv == Init => IInv
BY QueryAssumption
   DEF Init, IInv, TypeOK, ResultHandles!Exclusive, RowsKnown, RowAtCursor,
       Live, CursorWithin

-----------------------------------------------------------------------------
(* The outcome of a fetch has its type: the row and the cursor stay within *)
(* the result.                                                             *)
LEMMA FetchType ==
    ASSUME NEW r \in Results, NEW n \in 0 .. MaxRows, NEW i \in Nat
    PROVE  /\ Fetched(n, i) \in [rows : 0 .. MaxRows, cursor : 0 .. MaxRows]
           /\ Fetched(n, i) # NULL
           /\ FetchedRow(r, n, i) \in [res : Results, row : 0 .. MaxRows] \union {NULL}
           /\ IF FetchedRow(r, n, i) = NULL THEN Fetched(n, i).cursor = n
              ELSE /\ FetchedRow(r, n, i).res = r
                   /\ Fetched(n, i).cursor = FetchedRow(r, n, i).row + 1
           /\ Fetched(n, i).rows = n /\ Fetched(n, i).cursor <= n
PROOF
<1>1. CASE i < n
  BY <1>1, QueryAssumption DEF Fetched, FetchedRow
<1>2. CASE ~(i < n)
  BY <1>2, QueryAssumption DEF Fetched, FetchedRow
<1> QED BY <1>1, <1>2

(* Steps of the abstract specification.                                    *)
OwnStep == [ResultHandles!Next]_(ResultHandles!vars)

LEMMA ExecQueryOwns ==
    ASSUME IInv, NEW q \in Qs, ExecQuery(q)
    PROVE  OwnStep
PROOF
<1>1. PICK r \in Results, n \in 0 .. MaxRows :
         /\ result[r] = NULL
         /\ result' = [result EXCEPT ![r] = Fetched(n, 0)]
         /\ m_pRES' = [m_pRES EXCEPT ![q] = r]
  BY DEF ExecQuery
<1>2. Fetched(n, 0) # NULL
  BY FetchType
<1>3. Live' = Live \union {r}
  BY <1>1, <1>2 DEF Live, IInv, TypeOK
<1> QED BY <1>1, <1>3
        DEF ExecQuery, Live, OwnStep, ResultHandles!Next, ResultHandles!Obtain

LEMMA MoveOwns ==
    ASSUME IInv, NEW q \in Qs, NEW src \in Qs, Copy(q, src) \/ Assign(q, src)
    PROVE  OwnStep
PROOF
<1>1. Live' = Live \ {m_pRES[q]}
  <2>1. CASE Copy(q, src)
    BY <2>1, QueryAssumption DEF Copy, Live
  <2>2. CASE Assign(q, src) /\ m_pRES[src] = NULL
    BY <2>2 DEF Assign, Live, Freed, IInv, TypeOK
  <2>3. CASE Assign(q, src) /\ m_pRES[src] # NULL
    <3> DEFINE r == m_pRES[src]
    <3>1. r \in Live /\ r # m_pRES[q] /\ result[r].rows \in 0 .. MaxRows
      BY <2>3 DEF Assign, IInv, RowsKnown, TypeOK, ResultHandles!Exclusive, Live
    <3>2. result' = [Freed(m_pRES[q]) EXCEPT ![r] = Fetched(result[r].rows, 0)]
      BY <2>3 DEF Assign
    <3>3. Fetched(result[r].rows, 0) # NULL
      BY <3>1, FetchType DEF Live
    <3> QED BY <3>1, <3>2, <3>3 DEF Live, Freed, IInv, TypeOK
  <2> QED BY <2>1, <2>2, <2>3
<1>2. q # src /\ m_pRES' = [m_pRES EXCEPT ![q] = m_pRES[src], ![src] = NULL]
  BY DEF Copy, Assign
<1> QED BY <1>1, <1>2 DEF OwnStep, ResultHandles!Next, ResultHandles!Move

LEMMA ReleaseOwns ==
    ASSUME IInv, NEW q \in Qs, Clear(q) \/ Destroy(q)
    PROVE  OwnStep
PROOF
<1>1. /\ result' = Freed(m_pRES[q])
      /\ m_pRES' = [m_pRES EXCEPT ![q] = NULL]
  BY DEF Clear, Destroy
<1>2. Live' = Live \ {m_pRES[q]}
  BY <1>1 DEF Live, Freed, IInv, TypeOK
<1>3. CASE m_pRES[q] = NULL
  BY <1>1, <1>2, <1>3, QueryAssumption
     DEF OwnStep, ResultHandles!vars, IInv, TypeOK, Live
<1>4. CASE m_pRES[q] # NULL
  BY <1>1, <1>2, <1>4 DEF OwnStep, ResultHandles!Next, ResultHandles!Release
<1> QED BY <1>3, <1>4

(* A fetch leaves every result allocated.                                  *)
LEMMA FetchOwns ==
    ASSUME IInv, NEW q \in Qs, NEW i \in Nat, FetchAt(q, i)
    PROVE  OwnStep
PROOF
<1> DEFINE r == m_pRES[q]
<1>1. r \in Live /\ result[r].rows \in 0 .. MaxRows
  BY DEF FetchAt, IInv, RowsKnown, TypeOK, Live
<1>2. Fetched(result[r].rows, i) # NULL
  BY <1>1, FetchType DEF Live
<1>3. Live' = Live
  BY <1>1, <1>2 DEF FetchAt, Live, IInv, TypeOK
<1> QED BY <1>3 DEF FetchAt, OwnStep, ResultHandles!vars

(* nextRow() and seekRow() go to a row number.                             *)
LEMMA FetchActions ==
    ASSUME IInv, NEW q \in Qs,
           NextRow(q) \/ \E offerset \in 0 .. ULONG_MAX : SeekRow(q, offerset)
    PROVE  \E i \in Nat : FetchAt(q, i)
PROOF
<1>1. CASE NextRow(q)
  <2>1. m_pRES[q] \in Results /\ result[m_pRES[q]] # NULL
    BY <1>1 DEF NextRow, IInv, RowsKnown, Live
  <2>2. result[m_pRES[q]].cursor \in Nat
    BY <2>1, QueryAssumption DEF IInv, TypeOK
  <2> QED BY <1>1, <2>2 DEF NextRow
<1>2. ASSUME NEW offerset \in 0 .. ULONG_MAX, SeekRow(q, offerset)
      PROVE  \E i \in Nat : FetchAt(q, i)
  <2>1. LastRow(q) \in Nat
    <3>1. m_numRows[q] + ULONG_MAX \in Nat /\ ULONG_MAX + 1 \in Nat \ {0}
      BY QueryAssumption DEF IInv, TypeOK
    <3> QED BY <3>1 DEF LastRow
  <2> QED BY <1>2, <2>1 DEF SeekRow
<1> QED BY <1>1, <1>2

(* Every step of a query object obtains, releases or moves at most one     *)
(* result.                                                                 *)
LEMMA StepOwns ==
    ASSUME IInv, [Next]_vars
    PROVE  OwnStep
PROOF
<1>1. ASSUME NEW q \in Qs, Step(q) PROVE OwnStep
  <2>1. CASE ExecQuery(q) BY <2>1, ExecQueryOwns
  <2>2. CASE ExecNoResult(q)
    BY <2>2 DEF ExecNoResult, OwnStep, ResultHandles!vars, Live
  <2>3. CASE Clear(q) \/ Destroy(q) BY <2>3, ReleaseOwns
  <2>4. CASE NextRow(q) \/ \E offerset \in 0 .. ULONG_MAX : SeekRow(q, offerset)
    BY <2>4, FetchActions, FetchOwns
  <2>5. ASSUME NEW src \in Qs, Copy(q, src) \/ Assign(q, src) PROVE OwnStep
    BY <2>5, MoveOwns
  <2> QED BY <1>1, <2>1, <2>2, <2>3, <2>4, <2>5 DEF Step
<1>2. CASE UNCHANGED vars
  BY <1>2 DEF vars, OwnStep, ResultHandles!vars, Live
<1> QED BY <1>1, <1>2 DEF Next

-----------------------------------------------------------------------------
(* The rest of the invariant, action by action.                            *)
RowInv == TypeOK /\ CursorWithin /\ RowsKnown /\ RowAtCursor

(* A new result belongs to no other object.                                *)
LEMMA ExecQueryRows ==
    ASSUME IInv, NEW q \in Qs, ExecQuery(q)
    PROVE  RowInv'
PROOF
<1>1. PICK r \in Results, n \in 0 .. MaxRows :
         /\ result[r] = NULL
         /\ result' = [result EXCEPT ![r] = Fetched(n, 0)]
         /\ m_pRES' = [m_pRES EXCEPT ![q] = r]
         /\ m_Row' = [m_Row EXCEPT ![q] = FetchedRow(r, n, 0)]
         /\ m_numRows' = [m_numRows EXCEPT ![q] = n]
         /\ usable' = usable \union {q}
  BY DEF ExecQuery
<1> DEFINE f == Fetched(n, 0)
           w == FetchedRow(r, n, 0)
<1>2. /\ f \in [rows : 0 .. MaxRows, cursor : 0 .. MaxRows]
      /\ f # NULL /\ f.rows = n /\ f.cursor <= n
      /\ w \in [res : Results, row : 0 .. MaxRows] \union {NULL}
      /\ IF w = NULL THEN f.cursor = n ELSE w.res = r /\ f.cursor = w.row + 1
  BY FetchType
<1>3. /\ result' = [result EXCEPT ![r] = f]
      /\ m_Row' = [m_Row EXCEPT ![q] = w]
  BY <1>1
<1> HIDE DEF f, w
<1> USE <1>1, <1>2, <1>3 DEF IInv, TypeOK
<1>4. TypeOK' OBVIOUS
<1>5. CursorWithin' BY DEF CursorWithin, Live
<1>6. RowsKnown' BY QueryAssumption DEF RowsKnown, Live
<1>7. RowAtCursor'
  BY QueryAssumption DEF RowsKnown, Live, RowAtCursor, eof
<1> QED BY <1>4, <1>5, <1>6, <1>7 DEF RowInv

(* A fetch moves the row of the one object that owns the result.           *)
LEMMA FetchRows ==
    ASSUME IInv, NEW q \in Qs, NEW i \in Nat, FetchAt(q, i)
    PROVE  RowInv'
PROOF
<1> DEFINE r == m_pRES[q]
           n == result[r].rows
           f == Fetched(n, i)
           w == FetchedRow(r, n, i)
<1>1. r \in Live /\ r \in Results /\ n \in 0 .. MaxRows
  BY DEF FetchAt, IInv, RowsKnown, TypeOK, Live
<1>2. /\ f \in [rows : 0 .. MaxRows, cursor : 0 .. MaxRows]
      /\ f # NULL /\ f.rows = n /\ f.cursor <= n
      /\ w \in [res : Results, row : 0 .. MaxRows] \union {NULL}
      /\ IF w = NULL THEN f.cursor = n ELSE w.res = r /\ f.cursor = w.row + 1
  BY <1>1, FetchType
<1>3. /\ result' = [result EXCEPT ![r] = f]
      /\ m_Row' = [m_Row EXCEPT ![q] = w]
      /\ UNCHANGED <<m_pRES, m_numRows, usable>>
      /\ r # NULL
  BY DEF FetchAt
<1> HIDE DEF f, w
<1>4. \A p \in Qs : p # q => m_pRES[p] # r
  BY <1>3 DEF IInv, ResultHandles!Exclusive
<1> USE <1>1, <1>2, <1>3, <1>4 DEF IInv, TypeOK
<1>5. TypeOK' OBVIOUS
<1>6. CursorWithin' BY DEF CursorWithin, Live
<1>7. RowsKnown' BY DEF RowsKnown, Live
<1>8. RowAtCursor'
  BY DEF RowsKnown, Live, RowAtCursor, eof
<1> QED BY <1>5, <1>6, <1>7, <1>8 DEF RowInv

(* The copy constructor moves the row together with the result.            *)
LEMMA CopyRows ==
    ASSUME IInv, NEW q \in Qs, NEW src \in Qs, Copy(q, src)
    PROVE  RowInv'
PROOF
<1> USE DEF Copy, IInv, TypeOK
<1>1. TypeOK' OBVIOUS
<1>2. CursorWithin' BY DEF CursorWithin, Live
<1>3. RowsKnown' BY DEF RowsKnown, Live
<1>4. RowAtCursor' BY DEF RowAtCursor, eof
<1> QED BY <1>1, <1>2, <1>3, <1>4 DEF RowInv

(* operator= takes a result and fetches its first row; the result it held  *)
(* is freed, and is no other object's.                                     *)
LEMMA AssignRows ==
    ASSUME IInv, NEW q \in Qs, NEW src \in Qs, Assign(q, src)
    PROVE  RowInv'
PROOF
<1> DEFINE r == m_pRES[src]
           n == result[r].rows
           f == Fetched(n, 0)
           w == FetchedRow(r, n, 0)
<1>1. /\ q # src
      /\ m_pRES' = [m_pRES EXCEPT ![q] = r, ![src] = NULL]
      /\ usable' = (usable \ {src}) \union {q}
  BY DEF Assign
<1>2. \A p \in Qs \ {q} : m_pRES[p] # NULL => m_pRES[p] # m_pRES[q]
  BY DEF IInv, ResultHandles!Exclusive
<1>3. \A p \in Qs \ {src} : m_pRES[p] # NULL => m_pRES[p] # r
  BY DEF IInv, ResultHandles!Exclusive
<1>4. CASE r = NULL
  <2>1. result' = Freed(m_pRES[q]) /\ UNCHANGED <<m_Row, m_numRows>>
    BY <1>4 DEF Assign
  <2> USE <1>1, <1>2, <1>3, <1>4, <2>1 DEF IInv, TypeOK, Freed
  <2>2. TypeOK' OBVIOUS
  <2>3. CursorWithin' BY DEF CursorWithin, Live
  <2>4. RowsKnown' BY DEF RowsKnown, Live
  <2>5. RowAtCursor' BY DEF RowAtCursor, eof
  <2> QED BY <2>2, <2>3, <2>4, <2>5 DEF RowInv
<1>5. CASE r # NULL
  <2>1. r \in Results /\ result[r] # NULL /\ n \in 0 .. MaxRows
    BY <1>5 DEF IInv, TypeOK, RowsKnown, Live
  <2>2. /\ f \in [rows : 0 .. MaxRows, cursor : 0 .. MaxRows]
        /\ f # NULL /\ f.rows = n /\ f.cursor <= n
        /\ w \in [res : Results, row : 0 .. MaxRows] \union {NULL}
        /\ IF w = NULL THEN f.cursor = n ELSE w.res = r /\ f.cursor = w.row + 1
    BY <2>1, FetchType
  <2>3. /\ result' = [Freed(m_pRES[q]) EXCEPT ![r] = f]
        /\ m_Row' = [m_Row EXCEPT ![q] = w]
        /\ m_numRows' = [m_numRows EXCEPT ![q] = n]
    BY <1>5 DEF Assign
  <2> HIDE DEF f, w
  <2> USE <1>1, <1>2, <1>3, <1>5, <2>1, <2>2, <2>3 DEF IInv, TypeOK, Freed
  <2>4. TypeOK' OBVIOUS
  <2>5. CursorWithin' BY DEF CursorWithin, Live
  <2>6. RowsKnown' BY QueryAssumption DEF RowsKnown, Live
  <2>7. RowAtCursor' BY QueryAssumption DEF RowAtCursor, RowsKnown, Live, eof
  <2> QED BY <2>4, <2>5, <2>6, <2>7 DEF RowInv
<1> QED BY <1>4, <1>5

(* clear() and the destructor free a result that is no other object's.     *)
LEMMA ReleaseRows ==
    ASSUME IInv, NEW q \in Qs, Clear(q) \/ Destroy(q)
    PROVE  RowInv'
PROOF
<1>1. \A p \in Qs \ {q} : m_pRES[p] # NULL => m_pRES[p] # m_pRES[q]
  BY DEF IInv, ResultHandles!Exclusive
<1> USE <1>1 DEF IInv, TypeOK, Freed, Clear, Destroy
<1>2. TypeOK' BY QueryAssumption
<1>3. CursorWithin' BY DEF CursorWithin, Live
<1>4. RowsKnown' BY DEF RowsKnown, Live
<1>5. RowAtCursor' BY DEF RowAtCursor, eof
<1> QED BY <1>2, <1>3, <1>4, <1>5 DEF RowInv

(* Every step preserves the inductive invariant.                           *)
LEMMA StepIInv ==
    ASSUME IInv, [Next]_vars
    PROVE  IInv'
PROOF
<1>1. ResultHandles!Exclusive'
  <2>1. OwnStep BY StepOwns
  <2> QED BY <2>1, QueryAssumption, ResultHandles!StepExclusive
          DEF IInv, OwnStep
<1>2. RowInv'
  <2>1. ASSUME NEW q \in Qs, Step(q) PROVE RowInv'
    <3>1. CASE ExecQuery(q) BY <3>1, ExecQueryRows
    <3>2. CASE ExecNoResult(q)
      BY <3>2, QueryAssumption
         DEF ExecNoResult, IInv, RowInv, TypeOK, CursorWithin, RowsKnown,
             RowAtCursor, Live, eof
    <3>3. CASE Clear(q) \/ Destroy(q) BY <3>3, ReleaseRows
    <3>4. CASE NextRow(q) \/ \E offerset \in 0 .. ULONG_MAX : SeekRow(q, offerset)
      BY <3>4, FetchActions, FetchRows
    <3>5. ASSUME NEW src \in Qs, Copy(q, src) \/ Assign(q, src) PROVE RowInv'
      BY <3>5, CopyRows, AssignRows
    <3> QED BY <2>1, <3>1, <3>2, <3>3, <3>4, <3>5 DEF Step
  <2>2. CASE UNCHANGED vars
    BY <2>2 DEF vars, IInv, RowInv, TypeOK, CursorWithin, RowsKnown,
                RowAtCursor, Live, eof
  <2> QED BY <2>1, <2>2 DEF Next
<1> QED BY <1>1, <1>2 DEF IInv, RowInv

THEOREM Invariance == Spec => []IInv
BY InitIInv, StepIInv, PTL DEF Spec

(* The members of every object and the results stay within their types.    *)
THEOREM TypeCorrectness == Spec => []TypeOK
BY Invariance, PTL DEF IInv

(* An object that owns a result knows its number of rows.                  *)
THEOREM RowsAlwaysKnown == Spec => []RowsKnown
BY Invariance, PTL DEF IInv

(* m_Row is the row before the library's cursor, whatever was copied,      *)
(* assigned and sought: nextRow() skips no row and repeats none.           *)
THEOREM RowsInStep == Spec => []RowAtCursor
BY Invariance, PTL DEF IInv

-----------------------------------------------------------------------------
(* LastRow is the last row of a result that has rows.                      *)
LEMMA LastRowIsLast ==
    ASSUME TypeOK, NEW q \in Qs, m_numRows[q] # 0
    PROVE  LastRow(q) = m_numRows[q] - 1
PROOF
<1>1. \A n, u \in Nat : n # 0 /\ n <= u => (n + u) % (u + 1) = n - 1
  OBVIOUS
<1>2. m_numRows[q] \in Nat /\ m_numRows[q] <= ULONG_MAX /\ ULONG_MAX \in Nat
  BY QueryAssumption DEF TypeOK
<1> QED BY <1>1, <1>2 DEF LastRow

(* The rows end only behind the last one.                                  *)
LEMMA StepEnds ==
    ASSUME IInv, [Next]_vars, NEW q \in Qs,
           m_pRES[q] # NULL, m_pRES'[q] = m_pRES[q], ~eof(q), eof(q)'
    PROVE  m_Row[q].row + 1 = m_numRows[q]
PROOF
<1> DEFINE r == m_pRES[q]
<1>1. /\ r \in Live /\ r \in Results /\ m_numRows[q] = result[r].rows
      /\ m_Row[q].res = r /\ result[r].cursor = m_Row[q].row + 1
      /\ result[r].cursor <= result[r].rows
      /\ result[r].rows \in Nat /\ m_Row[q].row \in Nat
  BY DEF IInv, RowsKnown, RowAtCursor, CursorWithin, Live, TypeOK, eof
<1>2. PICK p \in Qs : Step(p)
  BY DEF Next, vars, eof
<1>3. ASSUME NEW i \in Nat, FetchAt(q, i)
      PROVE  i >= result[r].rows
  <2>1. FetchedRow(r, result[r].rows, i) = NULL
    BY <1>3 DEF FetchAt, eof, IInv, TypeOK
  <2>2. result[r].rows \in 0 .. MaxRows
    BY <1>1 DEF IInv, TypeOK, Live
  <2>3. i < result[r].rows =>
          [res |-> r, row |-> i] \in [res : Results, row : 0 .. MaxRows]
    BY <1>1, <2>2, QueryAssumption
  <2> QED BY <2>1, <2>2, <2>3, QueryAssumption DEF FetchedRow
<1>4. CASE NextRow(q)
  BY <1>1, <1>3, <1>4 DEF NextRow
<1>5. ASSUME NEW offerset \in 0 .. ULONG_MAX, SeekRow(q, offerset)
      PROVE  FALSE
  <2>1. LastRow(q) = m_numRows[q] - 1
    BY <1>1, LastRowIsLast DEF IInv
  <2> QED BY <1>1, <1>3, <1>5, <2>1, QueryAssumption DEF SeekRow
<1>6. CASE p = q
  <2>1. ~(\E src \in Qs : Copy(q, src) \/ Assign(q, src))
    BY <1>1 DEF Copy, Assign, IInv, ResultHandles!Exclusive
  <2>2. ~(ExecQuery(q) \/ ExecNoResult(q) \/ Clear(q) \/ Destroy(q))
    BY DEF ExecQuery, ExecNoResult, Clear, Destroy, IInv, TypeOK
  <2> QED BY <1>2, <1>4, <1>5, <1>6, <2>1, <2>2 DEF Step
<1>7. CASE p # q
  <2>1. m_Row'[q] = m_Row[q]
    BY <1>2, <1>7
       DEF Step, ExecQuery, ExecNoResult, Copy, Assign, FetchAt, NextRow,
           SeekRow, Clear, Destroy, IInv, TypeOK
  <2> QED BY <2>1 DEF eof
<1> QED BY <1>6, <1>7

(* No seek loses a row: a query ends only behind its last row.             *)
THEOREM EndsAfterLastRow == Spec => EndAfterLastRow
PROOF
<1>1. IInv /\ [Next]_vars =>
        [\A q \in Qs :
          m_pRES[q] # NULL /\ m_pRES'[q] = m_pRES[q] /\ ~eof(q) /\ eof(q)'
            => m_Row[q].row + 1 = m_numRows[q]]_vars
  BY StepEnds
<1> QED BY <1>1, Invariance, PTL DEF Spec, EndAfterLastRow

(* The assignment of a query without result to one that is not at its end. *)
AssignsNoResult(q, src) == Assign(q, src) /\ m_pRES[src] = NULL /\ ~eof(q)

LEMMA StepEof ==
    ASSUME IInv, EofWithoutResult, NEW q \in Qs, Step(q)
    PROVE  EofWithoutResult' \/ \E src \in Qs : AssignsNoResult(q, src)
PROOF
<1> USE QueryAssumption DEF IInv, TypeOK, EofWithoutResult, eof
<1>1. CASE ExecQuery(q)
  BY <1>1 DEF ExecQuery
<1>2. CASE ExecNoResult(q)
  BY <1>2 DEF ExecNoResult
<1>3. CASE Clear(q) \/ Destroy(q)
  BY <1>3 DEF Clear, Destroy
<1>4. CASE NextRow(q) \/ \E offerset \in 0 .. ULONG_MAX : SeekRow(q, offerset)
  <2>1. /\ UNCHANGED <<m_pRES, usable>> /\ m_pRES[q] # NULL
        /\ \E row : m_Row' = [m_Row EXCEPT ![q] = row]
    BY <1>4 DEF NextRow, SeekRow, FetchAt
  <2> QED BY <2>1
<1>5. ASSUME NEW src \in Qs, Copy(q, src) PROVE EofWithoutResult'
  BY <1>5 DEF Copy
<1>6. ASSUME NEW src \in Qs, Assign(q, src)
      PROVE  EofWithoutResult' \/ AssignsNoResult(q, src)
  <2>1. /\ q # src /\ usable' = (usable \ {src}) \union {q}
        /\ m_pRES' = [m_pRES EXCEPT ![q] = m_pRES[src], ![src] = NULL]
    BY <1>6 DEF Assign
  <2>2. CASE m_pRES[src] = NULL /\ UNCHANGED m_Row
    BY <1>6, <2>1, <2>2 DEF AssignsNoResult
  <2>3. CASE m_pRES[src] # NULL /\ \E row : m_Row' = [m_Row EXCEPT ![q] = row]
    BY <2>1, <2>3
  <2> QED BY <1>6, <2>2, <2>3 DEF Assign
<1> QED BY <1>1, <1>2, <1>3, <1>4, <1>5, <1>6 DEF Step

(* In any program, the one call after which a query without result may     *)
(* show a row is that assignment.                                          *)
THEOREM OnlyAssignLeavesRow ==
    Spec => [][EofWithoutResult /\ ~EofWithoutResult'
                 => \E q \in Qs, src \in Qs : AssignsNoResult(q, src)]_vars
PROOF
<1>1. IInv /\ [Next]_vars
        => [EofWithoutResult /\ ~EofWithoutResult'
              => \E q \in Qs, src \in Qs : AssignsNoResult(q, src)]_vars
  BY StepEof DEF Next
<1> QED BY <1>1, Invariance, PTL DEF Spec

(* Query objects implement the ownership the headers promise.              *)
THEOREM ImplementsOwnership == Spec => ResultOwnership
PROOF
<1>1. Init => ResultHandles!Init
  BY DEF Init, ResultHandles!Init, Live
<1>2. IInv /\ [Next]_vars => OwnStep
  BY StepOwns
<1> QED BY <1>1, <1>2, Invariance, PTL
        DEF Spec, ResultOwnership, ResultHandles!Spec, OwnStep
=============================================================================
