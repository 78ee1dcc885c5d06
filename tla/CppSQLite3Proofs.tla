-------------------------- MODULE CppSQLite3Proofs --------------------------
(* Theorems about CppSQLite3, for any number of objects, connections and   *)
(* statements.                                                             *)
EXTENDS CppSQLite3, TLAPS

-----------------------------------------------------------------------------
(* What the exception constructor builds from a code, a message of known   *)
(* origin and its third argument is an exception record.                   *)
LEMMA ExceptionType ==
    ASSUME NEW code \in {"OK", "error", "wrapper"}, NEW text \in Texts,
           NEW free \in BOOLEAN
    PROVE  Exception(code, text, free) \in Exceptions
BY DEF Exception, Exceptions

(* sqlite3_errmsg, through whatever pointer, is one of the known origins.  *)
LEMMA ErrmsgType == \A p, c : Errmsg(p, c) \in Texts
BY DEF Errmsg, Texts

LEMMA LiteralTypes == {"none", "literal", "malloc"} \subseteq Texts
BY DEF Texts

LEMMA FixedThrows == NoThrow \in Exceptions /\ WrapperError \in Exceptions
BY DEF NoThrow, WrapperError, Exception, Exceptions, Texts

LEMMA CompileErrorsType == \A d : CompileErrors(d) \subseteq Exceptions
BY ExceptionType, ErrmsgType, FixedThrows DEF CompileErrors, NotUsable

LEMMA ExecQueryErrorsType ==
    ASSUME NEW d, DBExecQueryThrows(d)
    PROVE  thrown' \in Exceptions
BY ExceptionType, ErrmsgType, CompileErrorsType DEF DBExecQueryThrows

(* No call throws anything but an exception record.                        *)
LEMMA ThrownType ==
    ASSUME TypeOK, Next
    PROVE  thrown' \in Exceptions
PROOF
<1> USE FixedThrows, LiteralTypes, ErrmsgType, ExceptionType
<1>1. ASSUME NEW d \in Dbs, DBStep(d) PROVE thrown' \in Exceptions
  <2>1. CASE DBOpen(d) BY <2>1 DEF DBOpen
  <2>2. CASE DBClose(d) BY <2>2 DEF DBClose
  <2>3. CASE DBDestroy(d) BY <2>3 DEF DBDestroy
  <2>4. CASE DBExec(d) BY <2>4 DEF DBExec, NotUsable
  <2>5. CASE DBExecQueryThrows(d) BY <2>5, ExecQueryErrorsType
  <2>6. CASE DBExecScalar(d) BY <2>6, ExecQueryErrorsType DEF DBExecScalar
  <2>7. ASSUME NEW q \in Qs, DBExecQuery(d, q) PROVE thrown' \in Exceptions
    BY <2>7 DEF DBExecQuery
  <2>8. ASSUME NEW s \in Ss, DBCompileStatement(d, s)
        PROVE  thrown' \in Exceptions
    BY <2>8, CompileErrorsType DEF DBCompileStatement
  <2> QED BY <1>1, <2>1, <2>2, <2>3, <2>4, <2>5, <2>6, <2>7, <2>8 DEF DBStep
<1>2. ASSUME NEW q \in Qs, QueryStep(q) PROVE thrown' \in Exceptions
  BY <1>2 DEF QueryStep, QueryNextRow, QueryCheckStmtThrows, QueryClear,
              QueryDestroy, QueryCopy, QueryAssign
<1>3. ASSUME NEW s \in Ss, StatementStep(s) PROVE thrown' \in Exceptions
  BY <1>3 DEF StatementStep, StatementExecDML, StatementExecQueryThrows,
              StatementBind, StatementCheckThrows, StatementReset,
              StatementClear, StatementDestroy, StatementCopy,
              StatementAssign, StatementExecQuery, StatementError
<1> QED BY <1>1, <1>2, <1>3 DEF Next

-----------------------------------------------------------------------------
(* The data part of the type invariant.                                    *)
DataTypeOK ==
    /\ LibTypeOK
    /\ m_pDB \in [Dbs \union Objs -> Conns \union {NULL, Wild}]
    /\ m_pStmt \in [Objs -> Stmts \union {NULL}]
    /\ m_bEof \in [Qs -> BOOLEAN]

(* The inductive invariant: the ownership invariants need each other.  A   *)
(* statement freed by its owner leaves no other pointer behind only if it  *)
(* had one owner; a new statement has one owner only if every owned one    *)
(* was alive; a closed connection has no statements, and no second object  *)
(* that would close it again.                                              *)
IInv ==
    /\ DataTypeOK
    /\ SingleOwner
    /\ HeldIsLive
    /\ ConnAlive
    /\ DbHandleSound
    /\ StatementOnItsConnection
    /\ PhaseByOwner

THEOREM InitIInv == Init => IInv
BY ObjectAssumption, LibAssumption
   DEF Init, LibInit, IInv, DataTypeOK, LibTypeOK, SingleOwner, HeldIsLive,
       ConnAlive, DbHandleSound, StatementOnItsConnection, PhaseByOwner,
       LiveStmts, LiveConns, Objs

-----------------------------------------------------------------------------
(* The steps of CppSQLite3DB.                                              *)

(* open(): the new handle is no other object's, because the handles of     *)
(* database objects are allocated and this one was not.                    *)
LEMMA DBOpenStep ==
    ASSUME IInv, NEW d \in Dbs, DBOpen(d)
    PROVE  IInv'
PROOF
<1>1. ASSUME NEW c \in Conns, NEW res \in {"open", "sick"},
             sqlite3_open(c, res),
             m_pDB' = [m_pDB EXCEPT ![d] = c],
             UNCHANGED <<m_pStmt, m_bEof>>
      PROVE  IInv'
  <2> USE <1>1, ObjectAssumption, LibAssumption
          DEF IInv, DataTypeOK, LibTypeOK, LiveStmts, LiveConns, Objs, sqlite3_open
  <2>1. DataTypeOK'
    OBVIOUS
  <2>2. SingleOwner' /\ HeldIsLive' /\ PhaseByOwner'
    BY DEF SingleOwner, HeldIsLive, PhaseByOwner
  <2>3. ConnAlive'
    BY DEF ConnAlive
  <2>4. DbHandleSound'
    BY DEF DbHandleSound
  <2>5. StatementOnItsConnection'
    BY DEF StatementOnItsConnection
  <2> QED BY <2>1, <2>2, <2>3, <2>4, <2>5
<1>2. ASSUME m_pDB' = [m_pDB EXCEPT ![d] = NULL],
             UNCHANGED <<libVars, m_pStmt, m_bEof>>
      PROVE  IInv'
  <2> USE <1>2, ObjectAssumption, LibAssumption
          DEF IInv, DataTypeOK, LibTypeOK, LiveStmts, LiveConns, Objs, libVars
  <2>1. DataTypeOK'
    OBVIOUS
  <2>2. SingleOwner' /\ HeldIsLive' /\ PhaseByOwner' /\ ConnAlive'
    BY DEF SingleOwner, HeldIsLive, PhaseByOwner, ConnAlive
  <2>3. DbHandleSound' /\ StatementOnItsConnection'
    BY DEF DbHandleSound, StatementOnItsConnection
  <2> QED BY <2>1, <2>2, <2>3
<1> QED BY <1>1, <1>2 DEF DBOpen

(* close() and the destructor: a connection goes only when no statement is *)
(* on it, and its holder forgets it in the same call.                      *)
LEMMA DBCloseStep ==
    ASSUME IInv, NEW d \in Dbs, DBClose(d) \/ DBDestroy(d)
    PROVE  IInv'
PROOF
<1> USE ObjectAssumption, LibAssumption
        DEF IInv, DataTypeOK, LibTypeOK, LiveStmts, LiveConns, Objs, StmtsOn
<1>1. /\ m_pDB[d] # NULL /\ sqlite3_close(m_pDB[d])
      /\ \/ m_pDB' = [m_pDB EXCEPT ![d] = NULL]
         \/ m_pDB' = m_pDB /\ StmtsOn(m_pDB[d]) # {}
      /\ UNCHANGED <<stmtDb, phase, m_pStmt, m_bEof>>
  BY DEF DBClose, DBDestroy, sqlite3_close
<1> USE <1>1 DEF sqlite3_close
<1>2. m_pDB[d] \in Conns
  BY DEF DbHandleSound
<1>3. DataTypeOK'
  BY <1>2
<1>4. SingleOwner' /\ HeldIsLive' /\ PhaseByOwner'
  BY DEF SingleOwner, HeldIsLive, PhaseByOwner
<1>5. ConnAlive'
  BY <1>2 DEF ConnAlive
<1>6. DbHandleSound'
  BY <1>2 DEF DbHandleSound
<1>7. StatementOnItsConnection'
  BY DEF StatementOnItsConnection
<1> QED BY <1>3, <1>4, <1>5, <1>6, <1>7

(* execQuery() and compileStatement() put a new statement into an empty    *)
(* object: the handle was free, so no object pointed to it.                *)
LEMMA DBExecQueryStep ==
    ASSUME IInv, NEW d \in Dbs, NEW q \in Qs, DBExecQuery(d, q)
    PROVE  IInv'
BY ObjectAssumption, LibAssumption
   DEF DBExecQuery, Usable, Prepare, IInv, DataTypeOK, LibTypeOK,
       SingleOwner, HeldIsLive, ConnAlive, DbHandleSound,
       StatementOnItsConnection, PhaseByOwner, LiveStmts, LiveConns, Objs

LEMMA DBCompileStatementStep ==
    ASSUME IInv, NEW d \in Dbs, NEW s \in Ss, DBCompileStatement(d, s)
    PROVE  IInv'
BY ObjectAssumption, LibAssumption
   DEF DBCompileStatement, Usable, Prepare, IInv, DataTypeOK, LibTypeOK,
       SingleOwner, HeldIsLive, ConnAlive, DbHandleSound,
       StatementOnItsConnection, PhaseByOwner, LiveStmts, LiveConns, Objs,
       libVars, objVars

-----------------------------------------------------------------------------
(* The steps of CppSQLite3Query.                                           *)

(* The copy constructor moves the handle into an empty object.             *)
LEMMA QueryCopyStep ==
    ASSUME IInv, NEW q \in Qs, NEW src \in Qs,
           QueryCopy(q, src)
    PROVE  IInv'
BY ObjectAssumption, LibAssumption
   DEF QueryCopy, libVars,
       IInv, DataTypeOK, LibTypeOK, SingleOwner,
       HeldIsLive, ConnAlive, DbHandleSound, StatementOnItsConnection,
       PhaseByOwner, LiveStmts, LiveConns, Objs

(* operator= frees the handle it held; because that had one owner, no      *)
(* other object is left with it, the source included.                      *)
LEMMA QueryAssignStep ==
    ASSUME IInv, NEW q \in Qs, NEW src \in Qs,
           QueryAssign(q, src)
    PROVE  IInv'
BY ObjectAssumption, LibAssumption
   DEF QueryAssign, sqlite3_finalize,
       IInv, DataTypeOK, LibTypeOK, SingleOwner,
       HeldIsLive, ConnAlive, DbHandleSound, StatementOnItsConnection,
       PhaseByOwner, LiveStmts, LiveConns, Objs

(* nextRow(): the statement moves on to a row or to its end, or fails and  *)
(* is freed and forgotten.                                                 *)
LEMMA QueryNextRowStep ==
    ASSUME IInv, NEW q \in Qs, QueryNextRow(q)
    PROVE  IInv'
PROOF
<1> USE DEF libVars
<1>1. ASSUME NEW res \in {"row", "done"}, m_pStmt[q] # NULL,
             StepTo(m_pStmt[q], res),
             m_bEof' = [m_bEof EXCEPT ![q] = @ \/ res = "done"],
             UNCHANGED <<m_pDB, m_pStmt>>
      PROVE  IInv'
  <2> USE <1>1, ObjectAssumption, LibAssumption
          DEF IInv, DataTypeOK, LibTypeOK, LiveStmts, LiveConns, Objs, StepTo
  <2>1. m_bEof' \in [Qs -> BOOLEAN]
    OBVIOUS
  <2>2. DataTypeOK'
    BY <2>1
  <2>3. SingleOwner' /\ HeldIsLive' /\ ConnAlive' /\ DbHandleSound'
    BY DEF SingleOwner, HeldIsLive, ConnAlive, DbHandleSound
  <2>4. StatementOnItsConnection'
    BY DEF StatementOnItsConnection
  <2>5. PhaseByOwner'
    BY DEF PhaseByOwner, SingleOwner
  <2> QED BY <2>2, <2>3, <2>4, <2>5
<1>2. ASSUME m_pStmt[q] # NULL, sqlite3_finalize(m_pStmt[q]),
             m_pStmt' = [m_pStmt EXCEPT ![q] = NULL],
             UNCHANGED <<m_pDB, m_bEof>>
      PROVE  IInv'
  BY <1>2, ObjectAssumption, LibAssumption
     DEF sqlite3_finalize, IInv, DataTypeOK, LibTypeOK, SingleOwner,
         HeldIsLive, ConnAlive, DbHandleSound, StatementOnItsConnection,
         PhaseByOwner, LiveStmts, LiveConns, Objs
<1> QED BY <1>1, <1>2 DEF QueryNextRow

(* clear() and the destructor free what the object owns, if anything.      *)
LEMMA QueryReleaseStep ==
    ASSUME IInv, NEW q \in Qs, QueryClear(q) \/ QueryDestroy(q)
    PROVE  IInv'
PROOF
<1>1. CASE QueryClear(q)
  BY <1>1, ObjectAssumption, LibAssumption
     DEF QueryClear, sqlite3_finalize, IInv, DataTypeOK, LibTypeOK,
         SingleOwner, HeldIsLive, ConnAlive, DbHandleSound,
         StatementOnItsConnection, PhaseByOwner, LiveStmts, LiveConns, Objs
<1>2. CASE QueryDestroy(q)
  BY <1>2, ObjectAssumption, LibAssumption
     DEF QueryDestroy, sqlite3_finalize, IInv, DataTypeOK, LibTypeOK,
         SingleOwner, HeldIsLive, ConnAlive, DbHandleSound,
         StatementOnItsConnection, PhaseByOwner, LiveStmts, LiveConns, Objs
<1> QED BY <1>1, <1>2

-----------------------------------------------------------------------------
(* The steps of CppSQLite3Statement.                                       *)

(* Copying and assigning move the handle together with its connection; the *)
(* handle an assignment overwrites is nobody's any more, but still alive.  *)
LEMMA StatementMoveStep ==
    ASSUME IInv, NEW s \in Ss, NEW src \in Ss,
           StatementCopy(s, src) \/ StatementAssign(s, src)
    PROVE  IInv'
BY ObjectAssumption, LibAssumption
   DEF StatementCopy, StatementAssign, libVars,
       IInv, DataTypeOK, LibTypeOK, SingleOwner,
       HeldIsLive, ConnAlive, DbHandleSound, StatementOnItsConnection,
       PhaseByOwner, LiveStmts, LiveConns, Objs

(* execDML(), a failing execQuery() and reset() leave the statement reset. *)
LEMMA StatementResetStep ==
    ASSUME IInv, NEW s \in Ss,
           StatementExecDML(s) \/ StatementExecQueryThrows(s) \/ StatementReset(s)
    PROVE  IInv'
BY ObjectAssumption, LibAssumption
   DEF StatementExecDML, StatementExecQueryThrows, StatementReset,
       StepTo, objVars,
       IInv, DataTypeOK, LibTypeOK, SingleOwner,
       HeldIsLive, ConnAlive, DbHandleSound, StatementOnItsConnection,
       PhaseByOwner, LiveStmts, LiveConns, Objs

(* execQuery() hands a stepped statement over to a query.                  *)
LEMMA StatementExecQueryStep ==
    ASSUME IInv, NEW s \in Ss, NEW q \in Qs,
           StatementExecQuery(s, q)
    PROVE  IInv'
BY ObjectAssumption, LibAssumption
   DEF StatementExecQuery, StepTo,
       IInv, DataTypeOK, LibTypeOK, SingleOwner,
       HeldIsLive, ConnAlive, DbHandleSound, StatementOnItsConnection,
       PhaseByOwner, LiveStmts, LiveConns, Objs

(* clear() and the destructor free what the object owns, if anything.      *)
LEMMA StatementReleaseStep ==
    ASSUME IInv, NEW s \in Ss, StatementClear(s) \/ StatementDestroy(s)
    PROVE  IInv'
PROOF
<1>1. CASE StatementClear(s)
  BY <1>1, ObjectAssumption, LibAssumption
     DEF StatementClear, sqlite3_finalize, IInv, DataTypeOK, LibTypeOK,
         SingleOwner, HeldIsLive, ConnAlive, DbHandleSound,
         StatementOnItsConnection, PhaseByOwner, LiveStmts, LiveConns, Objs
<1>2. CASE StatementDestroy(s)
  BY <1>2, ObjectAssumption, LibAssumption
     DEF StatementDestroy, sqlite3_finalize, IInv, DataTypeOK, LibTypeOK,
         SingleOwner, HeldIsLive, ConnAlive, DbHandleSound,
         StatementOnItsConnection, PhaseByOwner, LiveStmts, LiveConns, Objs
<1> QED BY <1>1, <1>2

(* The calls that change neither the library nor an object, or do nothing. *)
LEMMA NoEffectStep ==
    ASSUME IInv, UNCHANGED <<libVars, objVars>>
    PROVE  IInv'
BY DEF libVars, objVars, IInv, DataTypeOK, LibTypeOK, SingleOwner, HeldIsLive,
       ConnAlive, DbHandleSound, StatementOnItsConnection, PhaseByOwner,
       LiveStmts, LiveConns

-----------------------------------------------------------------------------
THEOREM NextIInv == IInv /\ [Next]_vars => IInv'
PROOF
<1> SUFFICES ASSUME IInv, [Next]_vars PROVE IInv'
  OBVIOUS
<1>1. ASSUME NEW d \in Dbs, DBStep(d) PROVE IInv'
  <2>1. CASE DBOpen(d) BY <2>1, DBOpenStep
  <2>2. CASE DBClose(d) \/ DBDestroy(d) BY <2>2, DBCloseStep
  <2>3. CASE \E q \in Qs : DBExecQuery(d, q) BY <2>3, DBExecQueryStep
  <2>4. CASE \E s \in Ss : DBCompileStatement(d, s)
    BY <2>4, DBCompileStatementStep
  <2>5. CASE DBExec(d) \/ DBExecQueryThrows(d) \/ DBExecScalar(d)
    BY <2>5, NoEffectStep DEF DBExec, DBExecQueryThrows, DBExecScalar
  <2> QED BY <1>1, <2>1, <2>2, <2>3, <2>4, <2>5 DEF DBStep
<1>2. ASSUME NEW q \in Qs, QueryStep(q) PROVE IInv'
  <2>1. CASE QueryNextRow(q) BY <2>1, QueryNextRowStep
  <2>2. CASE QueryClear(q) \/ QueryDestroy(q) BY <2>2, QueryReleaseStep
  <2>3. CASE \E src \in Qs : QueryCopy(q, src) BY <2>3, QueryCopyStep
  <2>4. CASE \E src \in Qs : QueryAssign(q, src) BY <2>4, QueryAssignStep
  <2>5. CASE QueryCheckStmtThrows(q)
    BY <2>5, NoEffectStep DEF QueryCheckStmtThrows
  <2> QED BY <1>2, <2>1, <2>2, <2>3, <2>4, <2>5 DEF QueryStep
<1>3. ASSUME NEW s \in Ss, StatementStep(s) PROVE IInv'
  <2>1. CASE StatementExecDML(s) \/ StatementExecQueryThrows(s)
               \/ StatementReset(s)
    BY <2>1, StatementResetStep
  <2>2. CASE StatementClear(s) \/ StatementDestroy(s)
    BY <2>2, StatementReleaseStep
  <2>3. CASE \E src \in Ss : StatementCopy(s, src) \/ StatementAssign(s, src)
    BY <2>3, StatementMoveStep
  <2>4. CASE \E q \in Qs : StatementExecQuery(s, q)
    BY <2>4, StatementExecQueryStep
  <2>5. CASE StatementBind(s) \/ StatementCheckThrows(s)
    BY <2>5, NoEffectStep DEF StatementBind, StatementCheckThrows
  <2> QED BY <1>3, <2>1, <2>2, <2>3, <2>4, <2>5 DEF StatementStep
<1>4. CASE UNCHANGED vars BY <1>4, NoEffectStep DEF vars
<1> QED BY <1>1, <1>2, <1>3, <1>4 DEF Next

(* The invariant holds in every state the classes can reach, whatever the  *)
(* program calls.                                                          *)
THEOREM Invariance == Spec => []IInv
BY InitIInv, NextIInv, PTL DEF Spec

(* No statement has two owners, every owned statement is alive and on an   *)
(* open connection, no connection is closed twice, a statement object      *)
(* knows its connection, and no finalize fails.                            *)
THEOREM Ownership ==
    Spec => [](/\ SingleOwner /\ HeldIsLive /\ ConnAlive
               /\ DbHandleSound /\ StatementOnItsConnection
               /\ PhaseByOwner)
PROOF
<1>1. IInv => /\ SingleOwner /\ HeldIsLive /\ ConnAlive
              /\ DbHandleSound /\ StatementOnItsConnection
              /\ PhaseByOwner
  BY DEF IInv
<1> QED BY <1>1, Invariance, PTL

(* Type correctness of the state, the last exception included.             *)
THEOREM TypeCorrectness == Spec => []TypeOK
PROOF
<1>1. Init => TypeOK
  BY InitIInv, FixedThrows DEF Init, IInv, DataTypeOK, TypeOK
<1>2. IInv /\ TypeOK /\ [Next]_vars => TypeOK'
  <2> SUFFICES ASSUME IInv, TypeOK, [Next]_vars PROVE TypeOK'
    OBVIOUS
  <2>1. DataTypeOK'
    BY NextIInv DEF IInv
  <2>2. thrown' \in Exceptions
    BY ThrownType DEF vars, TypeOK
  <2> QED BY <2>1, <2>2 DEF DataTypeOK, TypeOK
<1> QED BY <1>1, <1>2, Invariance, PTL DEF Spec

-----------------------------------------------------------------------------
(* Exceptions: what keeps the statements, and the calls that do not throw.  *)
LEMMA UnchangedKeepsHandles ==
    ASSUME UNCHANGED <<stmtDb, m_pStmt>>
    PROVE  KeepsHandles
BY DEF KeepsHandles, LiveStmts

LEMMA NoThrowKeepsHandles ==
    ASSUME thrown' = NoThrow
    PROVE  KeepsHandles
BY DEF KeepsHandles, NoThrow

(* No sequence of failing calls leaks a statement or takes one away from a *)
(* statement object.                                                       *)
THEOREM ThrowsKeepHandles == Spec => ThrowKeepsHandles
PROOF
<1>1. ASSUME IInv, Next PROVE KeepsHandles
  <2>1. ASSUME NEW d \in Dbs, DBStep(d) PROVE KeepsHandles
    <3>1. CASE DBOpen(d)
      BY <3>1, UnchangedKeepsHandles DEF DBOpen, sqlite3_open, libVars
    <3>2. CASE DBClose(d) \/ DBDestroy(d)
      BY <3>2, UnchangedKeepsHandles DEF DBClose, DBDestroy, sqlite3_close
    <3>3. CASE DBExec(d) \/ DBExecQueryThrows(d) \/ DBExecScalar(d)
      BY <3>3, UnchangedKeepsHandles
         DEF DBExec, DBExecQueryThrows, DBExecScalar, libVars, objVars
    <3>4. CASE \E q \in Qs : DBExecQuery(d, q)
      BY <3>4, NoThrowKeepsHandles DEF DBExecQuery
    <3>5. CASE \E s \in Ss : DBCompileStatement(d, s)
      BY <3>5, NoThrowKeepsHandles, UnchangedKeepsHandles
         DEF DBCompileStatement, libVars, objVars
    <3> QED BY <2>1, <3>1, <3>2, <3>3, <3>4, <3>5 DEF DBStep
  <2>2. ASSUME NEW q \in Qs, QueryStep(q) PROVE KeepsHandles
    <3>1. CASE QueryNextRow(q) \/ QueryClear(q)
      BY <1>1, <3>1, ObjectAssumption
         DEF QueryNextRow, QueryClear, sqlite3_finalize, StepTo, IInv,
             DataTypeOK, KeepsHandles, LiveStmts, Objs
    <3>2. CASE QueryDestroy(q) \/ \E src \in Qs : \/ QueryCopy(q, src)
                                                 \/ QueryAssign(q, src)
      BY <3>2, NoThrowKeepsHandles DEF QueryDestroy, QueryCopy, QueryAssign
    <3>3. CASE QueryCheckStmtThrows(q)
      BY <3>3, UnchangedKeepsHandles DEF QueryCheckStmtThrows, libVars, objVars
    <3> QED BY <2>2, <3>1, <3>2, <3>3 DEF QueryStep
  <2>3. ASSUME NEW s \in Ss, StatementStep(s) PROVE KeepsHandles
    <3>1. CASE StatementExecDML(s) \/ StatementExecQueryThrows(s)
                 \/ StatementReset(s) \/ StatementBind(s)
                 \/ StatementCheckThrows(s)
      BY <3>1, UnchangedKeepsHandles
         DEF StatementExecDML, StatementExecQueryThrows, StatementReset,
             StatementBind, StatementCheckThrows, StepTo, libVars, objVars
    <3>2. CASE StatementClear(s) /\ ~FinalizeFails(m_pStmt[s])
      BY <3>2, NoThrowKeepsHandles DEF StatementClear
    <3>3. CASE StatementClear(s) /\ FinalizeFails(m_pStmt[s])
      BY <1>1, <3>3
         DEF StatementClear, sqlite3_finalize, IInv, DataTypeOK, KeepsHandles,
             LiveStmts, Objs
    <3>4. CASE \/ StatementDestroy(s)
               \/ \E src \in Ss : StatementCopy(s, src) \/ StatementAssign(s, src)
               \/ \E q \in Qs : StatementExecQuery(s, q)
      BY <3>4, NoThrowKeepsHandles
         DEF StatementDestroy, StatementCopy, StatementAssign, StatementExecQuery
    <3> QED BY <2>3, <3>1, <3>2, <3>3, <3>4 DEF StatementStep
  <2> QED BY <1>1, <2>1, <2>2, <2>3 DEF Next
<1>2. IInv /\ [Next]_vars => [KeepsHandles]_vars
  BY <1>1
<1> QED BY <1>2, Invariance, PTL DEF Spec, ThrowKeepsHandles

-----------------------------------------------------------------------------
(* The parts of Ownership, one by one.                                     *)

(* No destructor, clear() or nextRow() finalizes a statement that an       *)
(* object still points to.                                                 *)
THEOREM HeldStatementsLive == Spec => []HeldIsLive
BY Ownership, PTL

(* Whoever steps or finalizes a statement reaches an open connection, also *)
(* after the CppSQLite3DB object is gone.                                  *)
THEOREM ConnectionsAlive == Spec => []ConnAlive
BY Ownership, PTL

(* close() is never called on a handle that is closed or that another      *)
(* CppSQLite3DB object holds.                                              *)
THEOREM ConnectionsHeldOnce == Spec => []DbHandleSound
BY Ownership, PTL

(* execDML() of a statement object asks the connection on which its        *)
(* statement was prepared.                                                 *)
THEOREM StatementsKnowConnection == Spec => []StatementOnItsConnection
BY Ownership, PTL

(* bind() is never refused for a statement in use, and no finalize in a    *)
(* destructor or operator= has an error to report.                         *)
THEOREM PhasesByOwner == Spec => []PhaseByOwner
BY Ownership, PTL

-----------------------------------------------------------------------------
(* A current row behind every eof() that is false, and an owner for every  *)
(* live statement: each has one call that may end it, of a                 *)
(* CppSQLite3Statement.                                                    *)
KeepsRows == RowUnlessEof => RowUnlessEof'
KeepsOwners == StatementsOwned => StatementsOwned'

LEMMA SameKeeps ==
    ASSUME UNCHANGED <<stmtDb, phase, m_pStmt, m_bEof>>
    PROVE  KeepsRows /\ KeepsOwners
BY DEF KeepsRows, KeepsOwners, RowUnlessEof, StatementsOwned, LiveStmts

(* A statement is prepared for an object that has none.                    *)
LEMMA PrepareKeepsOwners ==
    ASSUME IInv, NEW o \in Objs, NEW h \in Stmts, NEW c,
           m_pStmt[o] = NULL, stmtDb' = [stmtDb EXCEPT ![h] = c],
           m_pStmt' = [m_pStmt EXCEPT ![o] = h]
    PROVE  KeepsOwners
PROOF
<1> SUFFICES ASSUME StatementsOwned, NEW g \in Stmts, stmtDb'[g] # NULL
             PROVE  \E p \in Objs : m_pStmt'[p] = g
  BY DEF KeepsOwners, StatementsOwned, LiveStmts
<1>1. CASE g = h
  BY <1>1 DEF IInv, DataTypeOK
<1>2. CASE g # h
  <2>1. PICK p \in Objs : m_pStmt[p] = g
    BY <1>2 DEF IInv, DataTypeOK, LibTypeOK, StatementsOwned, LiveStmts
  <2>2. p # o
    BY <2>1, LibAssumption
  <2> QED BY <2>1, <2>2 DEF IInv, DataTypeOK
<1> QED BY <1>1, <1>2

(* A statement no query holds gets a phase.                                *)
LEMMA OtherKeepsRows ==
    ASSUME IInv, NEW h \in Stmts, NEW res, \A q \in Qs : m_pStmt[q] # h,
           phase' = [phase EXCEPT ![h] = res],
           \A q \in Qs : m_pStmt'[q] = m_pStmt[q], UNCHANGED m_bEof
    PROVE  KeepsRows
BY DEF KeepsRows, RowUnlessEof, IInv, DataTypeOK, LibTypeOK, Objs

LEMMA DbStepKeeps ==
    ASSUME IInv, NEW d \in Dbs, DBStep(d)
    PROVE  KeepsRows /\ KeepsOwners
PROOF
<1>1. CASE \/ DBOpen(d) \/ DBClose(d) \/ DBDestroy(d)
           \/ DBExec(d) \/ DBExecQueryThrows(d) \/ DBExecScalar(d)
  BY <1>1, SameKeeps
     DEF DBOpen, DBClose, DBDestroy, DBExec, DBExecQueryThrows, DBExecScalar,
         sqlite3_open, sqlite3_close, libVars, objVars
<1>2. ASSUME NEW q \in Qs, DBExecQuery(d, q) PROVE KeepsRows /\ KeepsOwners
  <2>1. PICK h \in Stmts, res \in {"row", "done"} :
          /\ stmtDb[h] = NULL /\ stmtDb' = [stmtDb EXCEPT ![h] = m_pDB[d]]
          /\ phase' = [phase EXCEPT ![h] = res]
          /\ m_pStmt' = [m_pStmt EXCEPT ![q] = h]
          /\ m_bEof' = [m_bEof EXCEPT ![q] = (res = "done")]
    BY <1>2 DEF DBExecQuery, Prepare
  <2>2. ASSUME RowUnlessEof, NEW r \in Qs, m_pStmt'[r] # NULL, ~m_bEof'[r]
        PROVE  phase'[m_pStmt'[r]] = "row"
    <3>1. CASE r = q
      <4>1. m_pStmt'[r] = h /\ (m_bEof'[r] <=> res = "done")
        BY <2>1, <3>1 DEF IInv, DataTypeOK, Objs
      <4>2. phase'[h] = res
        BY <2>1 DEF IInv, DataTypeOK, LibTypeOK
      <4> QED BY <2>2, <4>1, <4>2
    <3>2. CASE r # q
      <4>1. m_pStmt'[r] = m_pStmt[r] /\ ~m_bEof[r] /\ m_pStmt[r] # NULL
        BY <2>1, <2>2, <3>2 DEF IInv, DataTypeOK, Objs
      <4>2. m_pStmt[r] \in LiveStmts
        BY <4>1 DEF IInv, HeldIsLive, Objs
      <4>3. phase[m_pStmt[r]] = "row" /\ m_pStmt[r] # h
        BY <2>1, <2>2, <4>1, <4>2 DEF RowUnlessEof, LiveStmts
      <4> QED BY <2>1, <4>1, <4>2, <4>3 DEF IInv, DataTypeOK, LibTypeOK, LiveStmts
    <3> QED BY <3>1, <3>2
  <2>3. KeepsRows
    BY <2>2 DEF KeepsRows, RowUnlessEof
  <2>4. KeepsOwners
    BY <1>2, <2>1, PrepareKeepsOwners DEF DBExecQuery, Objs
  <2> QED BY <2>3, <2>4
<1>3. ASSUME NEW s \in Ss, DBCompileStatement(d, s) PROVE KeepsRows /\ KeepsOwners
  <2>1. CASE UNCHANGED <<libVars, m_pStmt, m_bEof>>
    BY <2>1, SameKeeps DEF libVars
  <2>2. ASSUME NEW h \in Stmts, Prepare(m_pDB[d], h, "ready"),
               m_pStmt' = [m_pStmt EXCEPT ![s] = h], UNCHANGED m_bEof
        PROVE  KeepsRows /\ KeepsOwners
    <3>1. \A q \in Qs : m_pStmt[q] # h /\ m_pStmt'[q] = m_pStmt[q]
      BY <2>2, LibAssumption, ObjectAssumption
         DEF Prepare, IInv, DataTypeOK, HeldIsLive, LiveStmts, Objs
    <3> QED BY <1>3, <2>2, <3>1, OtherKeepsRows, PrepareKeepsOwners
            DEF DBCompileStatement, Prepare, Objs
  <2> QED BY <1>3, <2>1, <2>2 DEF DBCompileStatement, objVars
<1> QED BY <1>1, <1>2, <1>3 DEF DBStep

LEMMA QueryStepKeeps ==
    ASSUME IInv, NEW q \in Qs, QueryStep(q)
    PROVE  KeepsRows /\ KeepsOwners
PROOF
<1> USE ObjectAssumption, LibAssumption
        DEF IInv, DataTypeOK, LibTypeOK, SingleOwner, HeldIsLive, LiveStmts, Objs
<1>1. CASE QueryNextRow(q)
  <2>1. ASSUME NEW res \in {"row", "done"}, m_pStmt[q] # NULL, StepTo(m_pStmt[q], res),
               m_bEof' = [m_bEof EXCEPT ![q] = @ \/ res = "done"],
               UNCHANGED <<m_pDB, m_pStmt>>
        PROVE  KeepsRows /\ KeepsOwners
    <3>1. /\ phase' = [phase EXCEPT ![m_pStmt[q]] = res] /\ stmtDb' = stmtDb
          /\ m_pStmt[q] \in Stmts
      BY <2>1 DEF StepTo
    <3>2. KeepsRows
      <4> SUFFICES ASSUME RowUnlessEof, NEW r \in Qs, m_pStmt[r] # NULL, ~m_bEof'[r]
                   PROVE  phase'[m_pStmt[r]] = "row"
        BY <2>1 DEF KeepsRows, RowUnlessEof
      <4>1. CASE r = q
        <5>1. res # "done"
          BY <2>1, <4>1
        <5> QED BY <2>1, <3>1, <4>1, <5>1
      <4>2. CASE r # q
        <5>1. m_pStmt[r] # m_pStmt[q] /\ ~m_bEof[r]
          BY <2>1, <4>2
        <5>2. phase[m_pStmt[r]] = "row"
          BY <5>1 DEF RowUnlessEof
        <5> QED BY <3>1, <5>1, <5>2
      <4> QED BY <4>1, <4>2
    <3>3. KeepsOwners
      BY <2>1, <3>1 DEF KeepsOwners, StatementsOwned
    <3> QED BY <3>2, <3>3
  <2>2. CASE /\ sqlite3_finalize(m_pStmt[q])
             /\ m_pStmt' = [m_pStmt EXCEPT ![q] = NULL]
             /\ UNCHANGED <<m_pDB, m_bEof>>
    BY <2>2 DEF sqlite3_finalize, KeepsRows, KeepsOwners, RowUnlessEof, StatementsOwned
  <2> QED BY <1>1, <2>1, <2>2 DEF QueryNextRow
<1>2. CASE QueryClear(q) \/ QueryDestroy(q)
  <2>1. /\ sqlite3_finalize(m_pStmt[q]) /\ m_pStmt' = [m_pStmt EXCEPT ![q] = NULL]
        /\ m_bEof' = m_bEof \/ m_bEof' = [m_bEof EXCEPT ![q] = TRUE]
    BY <1>2 DEF QueryClear, QueryDestroy
  <2>2. KeepsRows
    BY <2>1 DEF sqlite3_finalize, KeepsRows, RowUnlessEof
  <2>3. KeepsOwners
    BY <2>1 DEF sqlite3_finalize, KeepsOwners, StatementsOwned
  <2> QED BY <2>2, <2>3
<1>3. ASSUME NEW src \in Qs, QueryCopy(q, src) PROVE KeepsRows /\ KeepsOwners
  BY <1>3 DEF QueryCopy, libVars, KeepsRows, KeepsOwners, RowUnlessEof, StatementsOwned
<1>4. ASSUME NEW src \in Qs, QueryAssign(q, src) PROVE KeepsRows /\ KeepsOwners
  <2>1. KeepsRows
    BY <1>4 DEF QueryAssign, sqlite3_finalize, KeepsRows, RowUnlessEof
  <2>2. KeepsOwners
    BY <1>4 DEF QueryAssign, sqlite3_finalize, KeepsOwners, StatementsOwned
  <2> QED BY <2>1, <2>2
<1>5. CASE QueryCheckStmtThrows(q)
  BY <1>5, SameKeeps DEF QueryCheckStmtThrows, libVars, objVars
<1> QED BY <1>1, <1>2, <1>3, <1>4, <1>5 DEF QueryStep

(* execQuery() of a statement that has no rows, and an assignment to a     *)
(* statement object that holds a statement.                                *)
ReturnsEmpty(s, q) == StatementExecQuery(s, q) /\ phase'[m_pStmt[s]] = "done"
Overwrites(s, src) == StatementAssign(s, src) /\ m_pStmt[s] # NULL

LEMMA StatementStepKeeps ==
    ASSUME IInv, NEW s \in Ss, StatementStep(s)
    PROVE  /\ KeepsRows \/ \E q \in Qs : ReturnsEmpty(s, q)
           /\ KeepsOwners \/ \E src \in Ss : Overwrites(s, src)
PROOF
<1> USE ObjectAssumption, LibAssumption
        DEF IInv, DataTypeOK, LibTypeOK, SingleOwner, HeldIsLive, LiveStmts, Objs
<1>1. CASE StatementExecDML(s) \/ StatementExecQueryThrows(s) \/ StatementReset(s)
  <2>1. /\ m_pStmt[s] \in Stmts /\ UNCHANGED <<stmtDb, m_pStmt, m_bEof>>
        /\ phase' = [phase EXCEPT ![m_pStmt[s]] = "ready"]
    BY <1>1 DEF StatementExecDML, StatementExecQueryThrows, StatementReset,
                StepTo, objVars
  <2>2. \A q \in Qs : m_pStmt[q] # m_pStmt[s]
    BY <2>1
  <2>3. KeepsOwners
    BY <2>1 DEF KeepsOwners, StatementsOwned
  <2> QED BY <2>1, <2>2, <2>3, OtherKeepsRows
<1>2. CASE StatementBind(s) \/ StatementCheckThrows(s)
  BY <1>2, SameKeeps DEF StatementBind, StatementCheckThrows, libVars, objVars
<1>3. CASE StatementClear(s) \/ StatementDestroy(s)
  <2>1. /\ sqlite3_finalize(m_pStmt[s]) /\ m_pStmt' = [m_pStmt EXCEPT ![s] = NULL]
        /\ UNCHANGED m_bEof
    BY <1>3 DEF StatementClear, StatementDestroy
  <2>2. KeepsRows
    BY <2>1 DEF sqlite3_finalize, KeepsRows, RowUnlessEof
  <2>3. KeepsOwners
    BY <2>1 DEF sqlite3_finalize, KeepsOwners, StatementsOwned
  <2> QED BY <2>2, <2>3
<1>4. ASSUME NEW src \in Ss, StatementCopy(s, src) \/ StatementAssign(s, src)
      PROVE  KeepsRows /\ (KeepsOwners \/ Overwrites(s, src))
  <2>1. /\ s # src /\ UNCHANGED <<stmtDb, phase, m_bEof>>
        /\ m_pStmt' = [m_pStmt EXCEPT ![s] = m_pStmt[src], ![src] = NULL]
        /\ m_pStmt[s] = NULL \/ Overwrites(s, src)
    BY <1>4 DEF StatementCopy, StatementAssign, Overwrites, libVars
  <2>2. KeepsRows
    BY <2>1 DEF KeepsRows, RowUnlessEof
  <2>3. KeepsOwners \/ m_pStmt[s] # NULL
    BY <2>1 DEF KeepsOwners, StatementsOwned
  <2> QED BY <2>1, <2>2, <2>3
<1>5. ASSUME NEW q \in Qs, StatementExecQuery(s, q)
      PROVE  (KeepsRows \/ ReturnsEmpty(s, q)) /\ KeepsOwners
  <2>1. PICK res \in {"row", "done"} : StepTo(m_pStmt[s], res)
    BY <1>5 DEF StatementExecQuery
  <2>2. /\ m_pStmt[s] # NULL /\ m_pStmt[q] = NULL /\ stmtDb' = stmtDb
        /\ phase' = [phase EXCEPT ![m_pStmt[s]] = res]
        /\ m_pStmt' = [m_pStmt EXCEPT ![q] = m_pStmt[s], ![s] = NULL]
        /\ m_bEof' = [m_bEof EXCEPT ![q] = FALSE]
    BY <1>5, <2>1 DEF StatementExecQuery, StepTo
  <2>3. KeepsOwners
    BY <2>2 DEF KeepsOwners, StatementsOwned
  <2>4. CASE res = "done"
    BY <1>5, <2>2, <2>3, <2>4 DEF ReturnsEmpty
  <2>5. CASE res = "row"
    BY <2>2, <2>3, <2>5 DEF KeepsRows, RowUnlessEof
  <2> QED BY <2>4, <2>5
<1> QED BY <1>1, <1>2, <1>3, <1>4, <1>5 DEF StatementStep

LEMMA StepKeeps ==
    ASSUME IInv, [Next]_vars
    PROVE  /\ KeepsRows \/ \E s \in Ss, q \in Qs : ReturnsEmpty(s, q)
           /\ KeepsOwners \/ \E s \in Ss, src \in Ss : Overwrites(s, src)
PROOF
<1>1. CASE UNCHANGED vars
  BY <1>1, SameKeeps DEF vars, libVars, objVars
<1> QED BY <1>1, DbStepKeeps, QueryStepKeeps, StatementStepKeeps DEF Next

(* In any program, the one call after which a query may have eof() false   *)
(* and no row is an execQuery() of a CppSQLite3Statement without rows.     *)
THEOREM OnlyEmptyExecQueryHidesEof ==
    Spec => [][RowUnlessEof /\ ~RowUnlessEof'
                 => \E s \in Ss, q \in Qs : ReturnsEmpty(s, q)]_vars
PROOF
<1>1. IInv /\ [Next]_vars
        => [RowUnlessEof /\ ~RowUnlessEof'
              => \E s \in Ss, q \in Qs : ReturnsEmpty(s, q)]_vars
  BY StepKeeps DEF KeepsRows
<1> QED BY <1>1, Invariance, PTL DEF Spec

(* The one call that loses a statement is the assignment to a              *)
(* CppSQLite3Statement that still holds one, in any program.               *)
THEOREM OnlyOverwritingLeaks ==
    Spec => [][StatementsOwned /\ ~StatementsOwned'
                 => \E s \in Ss, src \in Ss : Overwrites(s, src)]_vars
PROOF
<1>1. IInv /\ [Next]_vars
        => [StatementsOwned /\ ~StatementsOwned'
              => \E s \in Ss, src \in Ss : Overwrites(s, src)]_vars
  BY StepKeeps DEF KeepsOwners
<1> QED BY <1>1, Invariance, PTL DEF Spec

(* A program without CppSQLite3Statement objects: a query whose eof() is   *)
(* false has a row to read.                                                *)
THEOREM QueriesHaveRow == Ss = {} => (Spec => []RowUnlessEof)
PROOF
<1> SUFFICES ASSUME Ss = {} PROVE Spec => []RowUnlessEof
  OBVIOUS
<1>1. Init => RowUnlessEof
  BY DEF Init, RowUnlessEof, Objs
<1>2. IInv /\ RowUnlessEof /\ [Next]_vars => RowUnlessEof'
  BY StepKeeps DEF KeepsRows
<1> QED BY <1>1, <1>2, Invariance, PTL DEF Spec

(* In such a program no statement is ever leaked, whatever fails.          *)
THEOREM QueriesLeakNothing == Ss = {} => (Spec => []StatementsOwned)
PROOF
<1> SUFFICES ASSUME Ss = {} PROVE Spec => []StatementsOwned
  OBVIOUS
<1>1. Init => StatementsOwned
  BY DEF Init, LibInit, StatementsOwned, LiveStmts
<1>2. IInv /\ StatementsOwned /\ [Next]_vars => StatementsOwned'
  BY StepKeeps DEF KeepsOwners
<1> QED BY <1>1, <1>2, Invariance, PTL DEF Spec
=============================================================================
