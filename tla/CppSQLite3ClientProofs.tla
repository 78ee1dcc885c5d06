----------------------- MODULE CppSQLite3ClientProofs -----------------------
(* Theorems about CppSQLite3Client: a careful program loses no handle, and *)
(* the wrapper then implements exclusive ownership.                        *)
EXTENDS CppSQLite3Client, CppSQLite3Proofs, FiniteSets, FiniteSetTheorems

-----------------------------------------------------------------------------
(* A step of the program is a step of the classes, or changes nothing of   *)
(* them: the ownership invariants carry over.                              *)
LEMMA ClientStepIsStep == [ClientNext]_clientVars => [Next]_vars
PROOF
<1>1. ASSUME Call PROVE Next
  BY <1>1 DEF Call, ClientDBStep, ClientStatementStep, Next, DBStep,
              QueryStep, StatementStep
<1>2. ASSUME Unwind PROVE Next
  BY <1>2 DEF Unwind, Next, DBStep, QueryStep, StatementStep
<1> QED BY <1>1, <1>2 DEF ClientNext, Leave, Reenter, clientVars

THEOREM ClientInvariance == ClientSpec => []IInv
PROOF
<1>1. ClientInit => IInv
  BY InitIInv DEF ClientInit
<1>2. IInv /\ [ClientNext]_clientVars => IInv'
  BY NextIInv, ClientStepIsStep
<1> QED BY <1>1, <1>2, PTL DEF ClientSpec

-----------------------------------------------------------------------------
(* What the calls of the library do to the set of live statements.         *)
LEMMA PrepareLive ==
    ASSUME IInv, NEW c \in Conns, NEW h \in Stmts, NEW res,
           Prepare(c, h, res)
    PROVE  h \notin LiveStmts /\ LiveStmts' = LiveStmts \union {h}
BY LibAssumption DEF Prepare, LiveStmts, IInv, DataTypeOK, LibTypeOK

LEMMA FinalizeLive ==
    ASSUME NEW h, sqlite3_finalize(h)
    PROVE  LiveStmts' = LiveStmts \ {h}
BY DEF sqlite3_finalize, LiveStmts

LEMMA SameLive == UNCHANGED stmtDb => UNCHANGED LiveStmts
BY DEF LiveStmts

(* Steps of the abstract specification for statements.                     *)
OwnStep == [StatementHandles!Next]_(StatementHandles!vars)

LEMMA OwnSame == UNCHANGED <<stmtDb, m_pStmt>> => OwnStep
BY SameLive DEF OwnStep, StatementHandles!vars

LEMMA OwnObtain ==
    ASSUME IInv, NEW o \in Objs, NEW c \in Conns, NEW h \in Stmts,
           NEW res, Prepare(c, h, res), m_pStmt[o] = NULL,
           m_pStmt' = [m_pStmt EXCEPT ![o] = h]
    PROVE  OwnStep
BY PrepareLive DEF OwnStep, StatementHandles!Next, StatementHandles!Obtain

LEMMA OwnRelease ==
    ASSUME IInv, NEW o \in Objs, sqlite3_finalize(m_pStmt[o]),
           m_pStmt' = [m_pStmt EXCEPT ![o] = NULL]
    PROVE  OwnStep
PROOF
<1>1. CASE m_pStmt[o] = NULL
  <2>1. UNCHANGED <<m_pStmt, LiveStmts>>
    BY <1>1, FinalizeLive, LibAssumption DEF IInv, DataTypeOK, LiveStmts
  <2> QED BY <2>1 DEF OwnStep, StatementHandles!vars
<1>2. CASE m_pStmt[o] # NULL
  BY <1>2, FinalizeLive
     DEF OwnStep, StatementHandles!Next, StatementHandles!Release
<1> QED BY <1>1, <1>2

LEMMA OwnMove ==
    ASSUME NEW o \in Objs, NEW src \in Objs, o # src,
           \/ sqlite3_finalize(m_pStmt[o])
           \/ UNCHANGED stmtDb /\ m_pStmt[o] = NULL,
           m_pStmt' = [m_pStmt EXCEPT ![o] = m_pStmt[src], ![src] = NULL]
    PROVE  OwnStep
PROOF
<1>1. LiveStmts' = LiveStmts \ {m_pStmt[o]}
  BY FinalizeLive, SameLive, LibAssumption DEF LiveStmts
<1> QED BY <1>1 DEF OwnStep, StatementHandles!Next, StatementHandles!Move

-----------------------------------------------------------------------------
(* Every step of the careful program obtains, releases or moves at most    *)
(* one statement.  The call that would do otherwise, assigning to a        *)
(* statement object that holds a handle, is the one the program avoids.    *)
LEMMA StatementsRefine ==
    ASSUME IInv, [ClientNext]_clientVars
    PROVE  OwnStep
PROOF
<1> USE DEF Objs
<1>1. ASSUME NEW d \in Dbs, ClientDBStep(d) \/ DBDestroy(d)
      PROVE  OwnStep
  <2>1. CASE DBOpen(d) \/ DBClose(d) \/ DBDestroy(d) \/ DBExec(d)
               \/ DBExecQueryThrows(d) \/ DBExecScalar(d)
    BY <2>1, OwnSame
       DEF DBOpen, DBClose, DBDestroy, DBExec, DBExecQueryThrows,
           DBExecScalar, sqlite3_open, sqlite3_close, libVars, objVars
  <2>2. ASSUME Usable(d) PROVE m_pDB[d] \in Conns
    BY <2>2 DEF Usable, IInv, DbHandleSound, LiveConns
  <2>3. ASSUME NEW q \in Qs, DBExecQuery(d, q) PROVE OwnStep
    BY <2>2, <2>3, OwnObtain DEF DBExecQuery
  <2>4. ASSUME NEW s \in Ss, DBCompileStatement(d, s) PROVE OwnStep
    BY <2>2, <2>4, OwnObtain, OwnSame DEF DBCompileStatement, libVars, objVars
  <2> QED BY <1>1, <2>1, <2>3, <2>4 DEF ClientDBStep
<1>2. ASSUME NEW q \in Qs, QueryStep(q) PROVE OwnStep
  <2>1. CASE QueryCheckStmtThrows(q)
    BY <2>1, OwnSame DEF QueryCheckStmtThrows, libVars, objVars
  <2>2. CASE QueryNextRow(q)
    BY <2>2, OwnSame, OwnRelease DEF QueryNextRow, StepTo
  <2>3. CASE QueryClear(q) \/ QueryDestroy(q)
    BY <2>3, OwnRelease DEF QueryClear, QueryDestroy
  <2>4. ASSUME NEW src \in Qs, QueryCopy(q, src) \/ QueryAssign(q, src)
        PROVE  OwnStep
    BY <2>4, OwnMove DEF QueryCopy, QueryAssign, libVars
  <2> QED BY <1>2, <2>1, <2>2, <2>3, <2>4 DEF QueryStep
<1>3. ASSUME NEW s \in Ss, ClientStatementStep(s) PROVE OwnStep
  <2>1. CASE StatementExecDML(s) \/ StatementExecQueryThrows(s)
               \/ StatementBind(s) \/ StatementCheckThrows(s)
               \/ StatementReset(s)
    BY <2>1, OwnSame
       DEF StatementExecDML, StatementExecQueryThrows, StatementBind,
           StatementCheckThrows, StatementReset, StepTo, libVars, objVars
  <2>2. CASE StatementClear(s) \/ StatementDestroy(s)
    BY <2>2, OwnRelease DEF StatementClear, StatementDestroy
  <2>3. ASSUME NEW src \in Ss, m_pStmt[s] = NULL,
               StatementCopy(s, src) \/ StatementAssign(s, src)
        PROVE  OwnStep
    BY <2>3, OwnMove DEF StatementCopy, StatementAssign, libVars
  <2>4. ASSUME NEW q \in Qs, StatementExecQuery(s, q) PROVE OwnStep
    BY <2>4, OwnMove, ObjectAssumption DEF StatementExecQuery, StepTo
  <2> QED BY <1>3, <2>1, <2>2, <2>3, <2>4
          DEF ClientStatementStep, StatementCopy
<1>4. CASE Call BY <1>1, <1>2, <1>3, <1>4 DEF Call
<1>5. CASE Unwind
  BY <1>1, <1>2, <1>3, <1>5 DEF Unwind, QueryStep, ClientStatementStep
<1>6. CASE Leave \/ Reenter \/ UNCHANGED clientVars
  BY <1>6, OwnSame DEF Leave, Reenter, clientVars, vars, libVars, objVars
<1> QED BY <1>4, <1>5, <1>6 DEF ClientNext

(* Under a careful program the classes implement exclusive ownership of    *)
(* the statements by the query and statement objects.                      *)
THEOREM StatementsImplementOwnership == ClientSpec => StatementOwnership
PROOF
<1>1. ClientInit => StatementHandles!Init
  BY DEF ClientInit, Init, LibInit, StatementHandles!Init, LiveStmts
<1> QED BY <1>1, ClientInvariance, StatementsRefine, PTL
        DEF ClientSpec, StatementOwnership, StatementHandles!Spec, OwnStep

-----------------------------------------------------------------------------
(* No live statement is without owner.                                     *)
THEOREM StatementsNotLost == ClientSpec => []StatementsOwned
PROOF
<1>1. StatementHandles!Spec => []StatementHandles!Exclusive
  BY StatementHandles!AlwaysExclusive, LibAssumption
<1>2. StatementHandles!Exclusive => StatementsOwned
  BY DEF StatementHandles!Exclusive, StatementsOwned
<1> QED BY <1>1, <1>2, StatementsImplementOwnership, PTL DEF StatementOwnership

-----------------------------------------------------------------------------
(* The same for connections and database objects.                          *)
dbHolds == [d \in Dbs |-> m_pDB[d]]

ConnStep == [ConnectionHandles!Next]_(ConnectionHandles!vars)

LEMMA ConnSame ==
    ASSUME UNCHANGED conn, \A d \in Dbs : m_pDB'[d] = m_pDB[d]
    PROVE  ConnStep
PROOF
<1>1. UNCHANGED <<dbHolds, LiveConns>>
  BY DEF dbHolds, LiveConns
<1> QED BY <1>1 DEF ConnStep, ConnectionHandles!vars, dbHolds

LEMMA ConnObtain ==
    ASSUME IInv, NEW d \in Dbs, m_pDB[d] = NULL, DBOpen(d)
    PROVE  ConnStep
PROOF
<1>1. CASE UNCHANGED conn /\ m_pDB' = [m_pDB EXCEPT ![d] = NULL]
  <2>1. \A e \in Dbs : m_pDB'[e] = m_pDB[e]
    BY <1>1 DEF IInv, DataTypeOK
  <2> QED BY <1>1, <2>1, ConnSame
<1>2. ASSUME NEW c \in Conns, NEW res \in {"open", "sick"},
             sqlite3_open(c, res), m_pDB' = [m_pDB EXCEPT ![d] = c]
      PROVE  ConnStep
  <2>1. c \notin LiveConns /\ LiveConns' = LiveConns \union {c}
    BY <1>2 DEF sqlite3_open, LiveConns, IInv, DataTypeOK, LibTypeOK
  <2>2. dbHolds[d] = NULL /\ dbHolds' = [dbHolds EXCEPT ![d] = c]
    BY <1>2 DEF dbHolds, IInv, DataTypeOK
  <2> QED BY <2>1, <2>2
          DEF ConnStep, ConnectionHandles!Next, ConnectionHandles!Obtain, dbHolds
<1> QED BY <1>1, <1>2 DEF DBOpen, libVars

LEMMA ConnRelease ==
    ASSUME IInv, NEW d \in Dbs, m_pDB[d] # NULL, sqlite3_close(m_pDB[d]),
           StmtsOn(m_pDB[d]) = {}, m_pDB' = [m_pDB EXCEPT ![d] = NULL]
    PROVE  ConnStep
PROOF
<1>1. LiveConns' = LiveConns \ {m_pDB[d]}
  BY DEF sqlite3_close, LiveConns, IInv, DataTypeOK, LibTypeOK, DbHandleSound
<1>2. dbHolds[d] = m_pDB[d] /\ dbHolds' = [dbHolds EXCEPT ![d] = NULL]
  BY DEF dbHolds, IInv, DataTypeOK
<1> QED BY <1>1, <1>2
        DEF ConnStep, ConnectionHandles!Next, ConnectionHandles!Release, dbHolds

(* Every step opens or closes at most one connection, through an object    *)
(* that had none or the one that held it.  The destructors of the          *)
(* databases find no statement left that would keep a connection busy.     *)
LEMMA ConnectionsRefine ==
    ASSUME IInv, StatementsOwned, [ClientNext]_clientVars
    PROVE  ConnStep
PROOF
<1> USE ObjectAssumption DEF Objs
<1>1. ASSUME NEW d \in Dbs, DBClose(d) PROVE ConnStep
  <2>1. CASE StmtsOn(m_pDB[d]) = {}
    BY <1>1, <2>1, ConnRelease DEF DBClose
  <2>2. CASE StmtsOn(m_pDB[d]) # {}
    BY <1>1, <2>2, ConnSame DEF DBClose, sqlite3_close
  <2> QED BY <2>1, <2>2
<1>2. ASSUME NEW d \in Dbs, AllReleased(Objs), DBDestroy(d) PROVE ConnStep
  <2>1. m_pDB[d] \in Conns
    BY <1>2 DEF DBDestroy, IInv, DbHandleSound, LiveConns
  <2>2. \A h \in Stmts : stmtDb[h] = NULL
    BY <1>2, LibAssumption DEF AllReleased, StatementsOwned, LiveStmts
  <2>3. StmtsOn(m_pDB[d]) = {}
    BY <2>1, <2>2, LibAssumption DEF StmtsOn
  <2> QED BY <1>2, <2>3, ConnRelease DEF DBDestroy
<1>3. ASSUME NEW d \in Dbs, ClientDBStep(d) PROVE ConnStep
  <2>1. CASE m_pDB[d] = NULL /\ DBOpen(d) BY <2>1, ConnObtain
  <2>2. CASE DBExec(d) \/ DBExecQueryThrows(d) \/ DBExecScalar(d)
    BY <2>2, ConnSame
       DEF DBExec, DBExecQueryThrows, DBExecScalar, libVars, objVars
  <2>3. ASSUME NEW q \in Qs, DBExecQuery(d, q) PROVE ConnStep
    BY <2>3, ConnSame DEF DBExecQuery, Prepare, IInv, DataTypeOK
  <2>4. ASSUME NEW s \in Ss, DBCompileStatement(d, s) PROVE ConnStep
    BY <2>4, ConnSame
       DEF DBCompileStatement, Prepare, libVars, objVars, IInv, DataTypeOK
  <2> QED BY <1>1, <1>3, <2>1, <2>2, <2>3, <2>4 DEF ClientDBStep
<1>4. ASSUME NEW q \in Qs, QueryStep(q) PROVE ConnStep
  BY <1>4, ConnSame
     DEF QueryStep, QueryNextRow, QueryCheckStmtThrows, QueryClear,
         QueryDestroy, QueryCopy, QueryAssign, StepTo, sqlite3_finalize,
         libVars, objVars, IInv, DataTypeOK
<1>5. ASSUME NEW s \in Ss, ClientStatementStep(s) PROVE ConnStep
  BY <1>5, ConnSame
     DEF ClientStatementStep, StatementExecDML, StatementExecQueryThrows,
         StatementBind, StatementCheckThrows, StatementReset, StatementClear,
         StatementDestroy, StatementCopy, StatementAssign, StatementExecQuery,
         StepTo, sqlite3_finalize, libVars, objVars, IInv, DataTypeOK
<1>6. CASE Call BY <1>3, <1>4, <1>5, <1>6 DEF Call
<1>7. CASE Unwind
  BY <1>2, <1>4, <1>5, <1>7 DEF Unwind, QueryStep, ClientStatementStep
<1>8. CASE Leave \/ Reenter \/ UNCHANGED clientVars
  BY <1>8, ConnSame DEF Leave, Reenter, clientVars, vars, libVars, objVars
<1> QED BY <1>6, <1>7, <1>8 DEF ClientNext

(* Under a careful program the classes implement exclusive ownership of    *)
(* the connections by the database objects.                                *)
THEOREM ConnectionsImplementOwnership == ClientSpec => ConnectionOwnership
PROOF
<1>1. ClientInit => ConnectionHandles!Init
  BY ObjectAssumption
     DEF ClientInit, Init, LibInit, ConnectionHandles!Init, LiveConns, Objs
<1> QED BY <1>1, ClientInvariance, StatementsNotLost, ConnectionsRefine, PTL
        DEF ClientSpec, ConnectionOwnership, ConnectionHandles!Spec, ConnStep

(* No live statement and no open connection is ever without its object, in *)
(* spite of failing calls and of exceptions that destructors drop.         *)
THEOREM LosesNothing == ClientSpec => []NothingLost
PROOF
<1>1. ConnectionHandles!Spec => []ConnectionHandles!Exclusive
  BY ConnectionHandles!AlwaysExclusive, LibAssumption
<1>2. ConnectionHandles!Exclusive => ConnectionsOwned
  BY DEF ConnectionHandles!Exclusive, ConnectionsOwned
<1>3. StatementsOwned /\ ConnectionsOwned => NothingLost
  BY DEF NothingLost
<1> QED BY <1>1, <1>2, <1>3, ConnectionsImplementOwnership, StatementsNotLost, PTL
        DEF ConnectionOwnership

-----------------------------------------------------------------------------
(* Leaving the scope.  What is live is freed handle by handle.             *)
Frees ==
    \/ /\ \E h \in LiveStmts : LiveStmts' = LiveStmts \ {h}
       /\ UNCHANGED LiveConns
    \/ /\ LiveStmts = {} /\ UNCHANGED LiveStmts
       /\ \E c \in LiveConns : LiveConns' = LiveConns \ {c}

LeavingStep ==
    leaving => \/ leaving' /\ Frees
               \/ ~leaving' /\ LiveStmts = {} /\ LiveConns = {}

LEMMA UnwindFrees ==
    ASSUME IInv, NothingLost, Unwind
    PROVE  Frees
PROOF
<1>1. ASSUME NEW o \in Objs, m_pStmt[o] # NULL, sqlite3_finalize(m_pStmt[o])
      PROVE  Frees
  <2>1. m_pStmt[o] \in LiveStmts /\ LiveStmts' = LiveStmts \ {m_pStmt[o]}
    BY <1>1, FinalizeLive DEF IInv, HeldIsLive
  <2>2. UNCHANGED LiveConns
    BY <1>1 DEF sqlite3_finalize, LiveConns
  <2> QED BY <2>1, <2>2 DEF Frees
<1>2. ASSUME NEW d \in Dbs, AllReleased(Objs), DBDestroy(d) PROVE Frees
  <2>1. m_pDB[d] \in LiveConns
    BY <1>2 DEF DBDestroy, IInv, DbHandleSound
  <2>2. LiveStmts = {}
    BY <1>2, LibAssumption DEF AllReleased, NothingLost, StatementsOwned, LiveStmts
  <2>3. StmtsOn(m_pDB[d]) = {}
    BY <2>1, <2>2, LibAssumption DEF StmtsOn, LiveStmts, LiveConns
  <2>4. LiveConns' = LiveConns \ {m_pDB[d]}
    BY <1>2, <2>1, <2>3
       DEF DBDestroy, sqlite3_close, LiveConns, IInv, DataTypeOK, LibTypeOK
  <2>5. UNCHANGED LiveStmts
    BY <1>2, SameLive DEF DBDestroy, sqlite3_close
  <2> QED BY <2>1, <2>2, <2>4, <2>5 DEF Frees
<1> QED BY <1>1, <1>2 DEF Unwind, QueryDestroy, StatementDestroy, Objs

(* The safety part of LeavingReleasesAll: while the scope is being left    *)
(* every step frees a handle, a connection only after all statements, and  *)
(* it has been left only when nothing is live.                             *)
THEOREM LeavingFrees ==
    ClientSpec => [][LeavingStep]_clientVars
PROOF
<1>1. IInv /\ NothingLost /\ [ClientNext]_clientVars => [LeavingStep]_clientVars
  <2> SUFFICES ASSUME IInv, NothingLost, ClientNext, leaving PROVE LeavingStep
    BY DEF LeavingStep
  <2>1. CASE Unwind
    BY <2>1, UnwindFrees DEF Unwind, LeavingStep
  <2>2. CASE Reenter
    <3>1. LiveStmts = {}
      BY <2>2, LibAssumption
         DEF Reenter, AllReleased, NothingLost, StatementsOwned, LiveStmts
    <3>2. LiveConns = {}
      BY <2>2, LibAssumption DEF Reenter, NothingLost, ConnectionsOwned, LiveConns
    <3> QED BY <2>2, <3>1, <3>2 DEF Reenter, LeavingStep
  <2> QED BY <2>1, <2>2 DEF ClientNext, Call, Leave
<1> QED BY <1>1, ClientInvariance, LosesNothing, PTL DEF ClientSpec

(* Counting.  Every live handle has an object of its own.                  *)
LEMMA OnePerHolder ==
    ASSUME NEW H, NEW O, IsFiniteSet(O), NEW held,
           \A h \in H : \E o \in O : held[o] = h
    PROVE  IsFiniteSet(H) /\ Cardinality(H) \in 0..Cardinality(O)
PROOF
<1> DEFINE holder == [h \in H |-> CHOOSE o \in O : held[o] = h]
<1>1. \A h \in H : holder[h] \in O /\ held[holder[h]] = h
  OBVIOUS
<1>2. holder \in Injection(H, O)
  <2>1. holder \in [H -> O]
    BY <1>1
  <2> QED BY <1>1, <2>1 DEF Injection, IsInjective
<1> HIDE DEF holder
<1>3. IsFiniteSet(H) /\ Cardinality(H) <= Cardinality(O)
  BY <1>2, FS_Injection
<1> QED BY <1>3, FS_CardinalityType

Remaining == Cardinality(LiveStmts) + Cardinality(LiveConns)

(* A program with finitely many objects has never more handles live than   *)
(* objects, and while it leaves its scope each step brings the end nearer: *)
(* as many destructors as there were handles, and the scope is left.       *)
THEOREM LeavingIsBounded ==
    ASSUME IsFiniteSet(Objs), IsFiniteSet(Dbs)
    PROVE  /\ ClientSpec => [](Remaining \in 0..(Cardinality(Objs) + Cardinality(Dbs)))
           /\ ClientSpec => [][leaving /\ leaving' => Remaining' = Remaining - 1]_clientVars
PROOF
<1>1. ASSUME NothingLost
      PROVE  /\ IsFiniteSet(LiveStmts) /\ Cardinality(LiveStmts) \in 0..Cardinality(Objs)
             /\ IsFiniteSet(LiveConns) /\ Cardinality(LiveConns) \in 0..Cardinality(Dbs)
  <2>1. /\ \A h \in LiveStmts : \E o \in Objs : m_pStmt[o] = h
        /\ \A c \in LiveConns : \E d \in Dbs : m_pDB[d] = c
    BY <1>1 DEF NothingLost, StatementsOwned, ConnectionsOwned
  <2>2. IsFiniteSet(LiveStmts) /\ Cardinality(LiveStmts) \in 0..Cardinality(Objs)
    BY <2>1, OnePerHolder, Zenon
  <2>3. IsFiniteSet(LiveConns) /\ Cardinality(LiveConns) \in 0..Cardinality(Dbs)
    BY <2>1, OnePerHolder, Zenon
  <2> QED BY <2>2, <2>3
<1>2. Cardinality(Objs) \in Nat /\ Cardinality(Dbs) \in Nat
  BY FS_CardinalityType
<1>3. NothingLost => Remaining \in 0..(Cardinality(Objs) + Cardinality(Dbs))
  BY <1>1, <1>2 DEF Remaining
<1>4. ASSUME NothingLost, Frees PROVE Remaining' = Remaining - 1
  <2>1. CASE (\E h \in LiveStmts : LiveStmts' = LiveStmts \ {h}) /\ UNCHANGED LiveConns
    <3>1. Cardinality(LiveStmts') = Cardinality(LiveStmts) - 1
      BY <1>1, <1>4, <2>1, FS_RemoveElement
    <3> QED BY <1>1, <1>2, <1>4, <2>1, <3>1 DEF Remaining
  <2>2. CASE UNCHANGED LiveStmts /\ \E c \in LiveConns : LiveConns' = LiveConns \ {c}
    <3>1. Cardinality(LiveConns') = Cardinality(LiveConns) - 1
      BY <1>1, <1>4, <2>2, FS_RemoveElement
    <3> QED BY <1>1, <1>2, <1>4, <2>2, <3>1 DEF Remaining
  <2> QED BY <1>4, <2>1, <2>2 DEF Frees
<1>5. NothingLost /\ [LeavingStep]_clientVars
        => [leaving /\ leaving' => Remaining' = Remaining - 1]_clientVars
  BY <1>4 DEF LeavingStep
<1> QED BY <1>3, <1>5, LeavingFrees, LosesNothing, PTL
=============================================================================
