----------------------------- MODULE CppSQLite3 -----------------------------
(* The SQLite half of the library, src/src/CppSQLite3.cpp: who holds which *)
(* connection and which prepared statement while a program calls the       *)
(* classes CppSQLite3DB, CppSQLite3Query and CppSQLite3Statement in any    *)
(* order, and what the exceptions of these calls carry.                    *)
(*                                                                         *)
(* An element of Dbs, Qs or Ss is a variable (or an unnamed temporary) of  *)
(* the program.  Leaving its scope runs the destructor; entering the scope *)
(* again finds a default-constructed object.  A constructor with arguments *)
(* runs on an object that holds nothing, whose destructor does nothing.    *)
EXTENDS SQLite3Lib

CONSTANTS
    Dbs,    \* objects of class CppSQLite3DB
    Qs,     \* objects of class CppSQLite3Query
    Ss,     \* objects of class CppSQLite3Statement
    Wild    \* an indeterminate pointer: a member no constructor has set

Objs == Qs \union Ss    \* the objects that may own a statement

ASSUME ObjectAssumption ==
    /\ Dbs \intersect Objs = {}
    /\ Qs \intersect Ss = {}
    /\ Wild \notin Conns \union Stmts \union {NULL}

VARIABLES
    m_pDB,   \* of every object: the connection it works on
    m_pStmt, \* of queries and statements: the statement they own
    m_bEof,  \* of queries: what eof() answers
    thrown   \* the exception the last call left with

objVars == <<m_pDB, m_pStmt, m_bEof>>
vars == <<libVars, objVars, thrown>>

-----------------------------------------------------------------------------
(* Exceptions.  code: SQLITE_OK, another code of the library, or a code of *)
(* the wrapper (5001 and up).  text: where the message came from -- a      *)
(* literal, malloc'd by the library for the caller, owned by the failing   *)
(* connection ("errmsg"), or asked of some other pointer ("stray").        *)
(* freed: the constructor has called sqlite3_free on it.                   *)
Texts == {"none", "literal", "malloc", "errmsg", "stray"}

Exceptions ==
    [code : {"none", "OK", "error", "wrapper"}, text : Texts, freed : BOOLEAN]

NoThrow == [code |-> "none", text |-> "none", freed |-> FALSE]

Exception(code, text, isSqlite3_free) ==
    [code |-> code, text |-> text,
     freed |-> isSqlite3_free /\ code # "wrapper" /\ text # "none"]

(* sqlite3_errmsg(p) after a failure on connection c.                      *)
Errmsg(p, c) == CASE p = c -> "errmsg"
                  [] p = NULL -> "literal"
                  [] OTHER -> "stray"

WrapperError == Exception("wrapper", "literal", FALSE)

Init ==
    /\ LibInit
    /\ m_pDB = [o \in Dbs \union Objs |-> IF o \in Qs THEN Wild ELSE NULL]
    /\ m_pStmt = [o \in Objs |-> NULL]
    /\ m_bEof = [q \in Qs |-> TRUE]
    /\ thrown = NoThrow

-----------------------------------------------------------------------------
(* CppSQLite3DB                                                            *)

(* open() overwrites m_pDB whatever it held, and keeps the handle of a     *)
(* failed sqlite3_open; with no memory left the library returns NULL.      *)
DBOpen(d) ==
    \/ \E c \in Conns, res \in {"open", "sick"} :
          /\ sqlite3_open(c, res)
          /\ m_pDB' = [m_pDB EXCEPT ![d] = c]
          /\ thrown' = IF res = "open" THEN NoThrow
                       ELSE Exception("error", Errmsg(c, c), TRUE)
          /\ UNCHANGED <<m_pStmt, m_bEof>>
    \/ /\ m_pDB' = [m_pDB EXCEPT ![d] = NULL]
       /\ thrown' = Exception("error", "literal", TRUE)
       /\ UNCHANGED <<libVars, m_pStmt, m_bEof>>

(* Mutant: a close() that does not forget the handle it has closed.        *)
DBCloseKeepsHandle(d) ==
    /\ m_pDB[d] # NULL
    /\ sqlite3_close(m_pDB[d])
    /\ thrown' = IF StmtsOn(m_pDB[d]) = {} THEN NoThrow ELSE WrapperError
    /\ UNCHANGED objVars

(* close() keeps the handle when the library refuses to close it.          *)
DBClose(d) ==
    LET c == m_pDB[d]
        closed == StmtsOn(c) = {}
    IN  /\ c # NULL
        /\ sqlite3_close(c)
        /\ m_pDB' = IF closed THEN [m_pDB EXCEPT ![d] = NULL] ELSE m_pDB
        /\ thrown' = IF closed THEN NoThrow ELSE WrapperError
        /\ UNCHANGED <<m_pStmt, m_bEof>>

(* Mutants: a destructor that frees a connection in use, one that forgets  *)
(* to close.                                                               *)
DBDestroyForced(d) ==
    /\ m_pDB[d] \in Conns
    /\ conn' = [conn EXCEPT ![m_pDB[d]] = "free"]
    /\ m_pDB' = [m_pDB EXCEPT ![d] = NULL]
    /\ thrown' = NoThrow
    /\ UNCHANGED <<stmtDb, phase, m_pStmt, m_bEof>>

DBDestroyWithoutClose(d) ==
    /\ m_pDB[d] # NULL
    /\ m_pDB' = [m_pDB EXCEPT ![d] = NULL]
    /\ thrown' = NoThrow
    /\ UNCHANGED <<libVars, m_pStmt, m_bEof>>

(* The destructor drops the exception, and with it the handle.             *)
DBDestroy(d) ==
    /\ m_pDB[d] # NULL
    /\ sqlite3_close(m_pDB[d])
    /\ m_pDB' = [m_pDB EXCEPT ![d] = NULL]
    /\ thrown' = NoThrow
    /\ UNCHANGED <<m_pStmt, m_bEof>>

Usable(d) == m_pDB[d] # NULL /\ conn[m_pDB[d]] = "open"

(* What a call that runs SQL may throw before it reaches the SQL: checkDB, *)
(* or SQLITE_MISUSE from a connection whose open failed.                   *)
NotUsable(d, misuse) == IF m_pDB[d] = NULL THEN {WrapperError} ELSE {misuse}

(* execDML (start, commit and rollback are calls of it) and getResultSet:  *)
(* the library prepares, steps and finalizes on its own, and returns a     *)
(* malloc'd message if that fails.                                         *)
DBExec(d) ==
    /\ thrown' \in IF Usable(d)
                   THEN {NoThrow, Exception("error", "malloc", TRUE)}
                   ELSE NotUsable(d, Exception("error", "none", TRUE))
    /\ UNCHANGED <<libVars, objVars>>

(* The failures of compile().                                              *)
CompileErrors(d) ==
    LET error == Exception("error", Errmsg(m_pDB[d], m_pDB[d]), FALSE)
    IN  IF Usable(d) THEN {error} ELSE NotUsable(d, error)

(* execQuery() compiles, steps once and gives the statement to the query   *)
(* it returns, which the compiler builds in place.                         *)
DBExecQuery(d, q) ==
    /\ Usable(d)
    /\ m_pStmt[q] = NULL
    /\ \E h \in Stmts, res \in {"row", "done"} :
          /\ Prepare(m_pDB[d], h, res)
          /\ m_pStmt' = [m_pStmt EXCEPT ![q] = h]
          /\ m_bEof' = [m_bEof EXCEPT ![q] = res = "done"]
    /\ m_pDB' = [m_pDB EXCEPT ![q] = m_pDB[d]]
    /\ thrown' = NoThrow

(* Mutant: the statement whose first step fails is not finalized.          *)
DBExecQueryThrowsUnfinalized(d) ==
    /\ Usable(d)
    /\ \E h \in Stmts : Prepare(m_pDB[d], h, "failed")
    /\ thrown' = Exception("error", "errmsg", TRUE)
    /\ UNCHANGED objVars

(* A failing execQuery: compile() threw, or the first step failed and the  *)
(* statement was finalized, whose result becomes the code -- SQLITE_OK     *)
(* when the SQL was blank and there was no statement.                      *)
DBExecQueryThrows(d) ==
    /\ thrown' \in CompileErrors(d) \union
          (IF Usable(d)
           THEN {Exception(code, Errmsg(m_pDB[d], m_pDB[d]), TRUE) :
                    code \in {"error", "OK"}}
           ELSE {})
    /\ UNCHANGED <<libVars, objVars>>

(* execScalar() holds its query in a local that dies with the call.        *)
DBExecScalar(d) ==
    \/ DBExecQueryThrows(d)
    \/ /\ Usable(d)
       /\ thrown' \in {NoThrow, WrapperError}
       /\ UNCHANGED <<libVars, objVars>>

(* Mutant: for blank SQL the uninitialized pVM of compile() is handed out. *)
DBCompileStatementWild(d, s) ==
    /\ Usable(d)
    /\ m_pStmt[s] = NULL
    /\ m_pStmt' = [m_pStmt EXCEPT ![s] = Wild]
    /\ m_pDB' = [m_pDB EXCEPT ![s] = m_pDB[d]]
    /\ thrown' = NoThrow
    /\ UNCHANGED <<libVars, m_bEof>>

(* compileStatement(); blank SQL yields a statement object without handle. *)
DBCompileStatement(d, s) ==
    /\ m_pStmt[s] = NULL
    /\ \/ /\ \E h \in Stmts :
                /\ Usable(d)
                /\ Prepare(m_pDB[d], h, "ready")
                /\ m_pStmt' = [m_pStmt EXCEPT ![s] = h]
          /\ m_pDB' = [m_pDB EXCEPT ![s] = m_pDB[d]]
          /\ thrown' = NoThrow
          /\ UNCHANGED m_bEof
       \/ /\ Usable(d)
          /\ m_pDB' = [m_pDB EXCEPT ![s] = m_pDB[d]]
          /\ thrown' = NoThrow
          /\ UNCHANGED <<libVars, m_pStmt, m_bEof>>
       \/ /\ thrown' \in CompileErrors(d)
          /\ UNCHANGED <<libVars, objVars>>

-----------------------------------------------------------------------------
(* CppSQLite3Query                                                         *)

(* Mutant: the source keeps its pointer.                                   *)
QueryCopyShares(q, src) ==
    /\ q # src /\ m_pStmt[q] = NULL
    /\ m_pStmt' = [m_pStmt EXCEPT ![q] = m_pStmt[src]]
    /\ m_bEof' = [m_bEof EXCEPT ![q] = m_bEof[src]]
    /\ m_pDB' = [m_pDB EXCEPT ![q] = Wild]
    /\ thrown' = NoThrow
    /\ UNCHANGED libVars

(* The copy constructor takes the handle from its (const) source and does  *)
(* not set m_pDB.                                                          *)
QueryCopy(q, src) ==
    /\ q # src /\ m_pStmt[q] = NULL
    /\ m_pStmt' = [m_pStmt EXCEPT ![q] = m_pStmt[src], ![src] = NULL]
    /\ m_bEof' = [m_bEof EXCEPT ![q] = m_bEof[src]]
    /\ m_pDB' = [m_pDB EXCEPT ![q] = Wild]
    /\ thrown' = NoThrow
    /\ UNCHANGED libVars

(* Mutant: operator= overwrites its handle, as CppSQLite3Statement's does. *)
QueryAssignOverwrites(q, src) ==
    /\ q # src
    /\ m_pStmt' = [m_pStmt EXCEPT ![q] = m_pStmt[src], ![src] = NULL]
    /\ m_bEof' = [m_bEof EXCEPT ![q] = m_bEof[src]]
    /\ thrown' = NoThrow
    /\ UNCHANGED <<libVars, m_pDB>>

(* operator= finalizes what it held (dropping an exception), then takes    *)
(* the handle; it leaves m_pDB as it was.                                  *)
QueryAssign(q, src) ==
    /\ q # src
    /\ sqlite3_finalize(m_pStmt[q])
    /\ m_pStmt' = [m_pStmt EXCEPT ![q] = m_pStmt[src], ![src] = NULL]
    /\ m_bEof' = [m_bEof EXCEPT ![q] = m_bEof[src]]
    /\ thrown' = NoThrow
    /\ UNCHANGED m_pDB

(* Mutant: nextRow() does not notice the end.                              *)
QueryNextRowWithoutEof(q) ==
    /\ m_pStmt[q] # NULL
    /\ \E res \in {"row", "done"} : StepTo(m_pStmt[q], res)
    /\ thrown' = NoThrow
    /\ UNCHANGED objVars

(* nextRow() steps; on an error it finalizes and lets go of the handle     *)
(* before it throws.  m_bEof never goes back to false.                     *)
QueryNextRow(q) ==
    LET h == m_pStmt[q]
    IN  /\ h # NULL
        /\ \/ \E res \in {"row", "done"} :
                 /\ StepTo(h, res)
                 /\ m_bEof' = [m_bEof EXCEPT ![q] = @ \/ res = "done"]
                 /\ thrown' = NoThrow
                 /\ UNCHANGED <<m_pDB, m_pStmt>>
           \/ /\ sqlite3_finalize(h)
              /\ m_pStmt' = [m_pStmt EXCEPT ![q] = NULL]
              /\ thrown' = Exception("error", Errmsg(m_pDB[q], stmtDb[h]), TRUE)
              /\ UNCHANGED <<m_pDB, m_bEof>>

(* nextRow(), eof() and the getters on a query without handle: checkStmt.  *)
QueryCheckStmtThrows(q) ==
    /\ m_pStmt[q] = NULL
    /\ thrown' = WrapperError
    /\ UNCHANGED <<libVars, objVars>>

(* Mutant: clear() does not forget the handle it has finalized.            *)
QueryClearKeepsHandle(q) ==
    /\ sqlite3_finalize(m_pStmt[q])
    /\ thrown' = NoThrow
    /\ UNCHANGED objVars

(* clear() lets go of the handle, then reports a failed finalize.          *)
QueryClear(q) ==
    LET h == m_pStmt[q]
    IN  /\ sqlite3_finalize(h)
        /\ m_pStmt' = [m_pStmt EXCEPT ![q] = NULL]
        /\ thrown' = IF FinalizeFails(h)
                     THEN Exception("error", Errmsg(m_pDB[q], stmtDb[h]), TRUE)
                     ELSE NoThrow
        /\ UNCHANGED <<m_pDB, m_bEof>>

(* Mutant: no clear() in the destructor.                                   *)
QueryDestroyWithoutClear(q) ==
    /\ m_pStmt' = [m_pStmt EXCEPT ![q] = NULL]
    /\ thrown' = NoThrow
    /\ UNCHANGED <<libVars, m_pDB, m_bEof>>

(* The destructor clears and drops an exception.                           *)
QueryDestroy(q) ==
    /\ sqlite3_finalize(m_pStmt[q])
    /\ m_pStmt' = [m_pStmt EXCEPT ![q] = NULL]
    /\ m_pDB' = [m_pDB EXCEPT ![q] = Wild]
    /\ m_bEof' = [m_bEof EXCEPT ![q] = TRUE]
    /\ thrown' = NoThrow

-----------------------------------------------------------------------------
(* CppSQLite3Statement                                                     *)

(* Mutant: m_pDB is not copied, as CppSQLite3Query's copy does not.        *)
StatementCopyWithoutDb(s, src) ==
    /\ s # src /\ m_pStmt[s] = NULL
    /\ m_pStmt' = [m_pStmt EXCEPT ![s] = m_pStmt[src], ![src] = NULL]
    /\ thrown' = NoThrow
    /\ UNCHANGED <<libVars, m_pDB, m_bEof>>

(* The copy constructor takes the handle and knows its connection.         *)
StatementCopy(s, src) ==
    /\ s # src /\ m_pStmt[s] = NULL
    /\ m_pStmt' = [m_pStmt EXCEPT ![s] = m_pStmt[src], ![src] = NULL]
    /\ m_pDB' = [m_pDB EXCEPT ![s] = m_pDB[src]]
    /\ thrown' = NoThrow
    /\ UNCHANGED <<libVars, m_bEof>>

(* operator= takes both members over; unlike CppSQLite3Query's it does not *)
(* finalize the statement it held.                                         *)
StatementAssign(s, src) ==
    /\ s # src
    /\ m_pStmt' = [m_pStmt EXCEPT ![s] = m_pStmt[src], ![src] = NULL]
    /\ m_pDB' = [m_pDB EXCEPT ![s] = m_pDB[src]]
    /\ thrown' = NoThrow
    /\ UNCHANGED <<libVars, m_bEof>>

(* The message of a failing Statement call, which leaves it to the library.*)
StatementError(code, s) ==
    Exception(code, Errmsg(m_pDB[s], stmtDb[m_pStmt[s]]), FALSE)

(* Mutant: no reset on the error path.                                     *)
StatementExecDMLWithoutReset(s) ==
    /\ m_pStmt[s] # NULL
    /\ StepTo(m_pStmt[s], "failed")
    /\ thrown' = StatementError("error", s)
    /\ UNCHANGED objVars

(* execDML() steps and resets, whatever the step returned.  After an error *)
(* the reset repeats its code; after a row it returns SQLITE_OK, and that  *)
(* is the code thrown.                                                     *)
StatementExecDML(s) ==
    /\ m_pStmt[s] # NULL
    /\ StepTo(m_pStmt[s], "ready")
    /\ thrown' \in {NoThrow, StatementError("error", s), StatementError("OK", s)}
    /\ UNCHANGED objVars

(* Mutant: the statement object keeps its pointer.                         *)
StatementExecQueryShares(s, q) ==
    /\ m_pStmt[s] # NULL /\ m_pStmt[q] = NULL
    /\ \E res \in {"row", "done"} : StepTo(m_pStmt[s], res)
    /\ m_pStmt' = [m_pStmt EXCEPT ![q] = m_pStmt[s]]
    /\ m_bEof' = [m_bEof EXCEPT ![q] = FALSE]
    /\ thrown' = NoThrow
    /\ UNCHANGED m_pDB

(* execQuery() steps and hands the statement over to a query whose eof()   *)
(* is false with and without a row.  The query is a named local of the     *)
(* function: it is built in place or copied out of it, as the build has it.*)
StatementExecQuery(s, q) ==
    /\ m_pStmt[s] # NULL /\ m_pStmt[q] = NULL
    /\ \E res \in {"row", "done"} : StepTo(m_pStmt[s], res)
    /\ m_pStmt' = [m_pStmt EXCEPT ![q] = m_pStmt[s], ![s] = NULL]
    /\ m_bEof' = [m_bEof EXCEPT ![q] = FALSE]
    /\ \E db \in {m_pDB[s], Wild} : m_pDB' = [m_pDB EXCEPT ![q] = db]
    /\ thrown' = NoThrow

(* When the step fails execQuery() resets the statement and keeps it.      *)
StatementExecQueryThrows(s) ==
    /\ m_pStmt[s] # NULL
    /\ StepTo(m_pStmt[s], "ready")
    /\ thrown' = WrapperError
    /\ UNCHANGED objVars

(* bind() and bindNull(): the library refuses a parameter number out of    *)
(* range, and any parameter of a statement that is between two steps.      *)
StatementBind(s) ==
    /\ m_pStmt[s] # NULL
    /\ thrown' \in {Exception("error", "literal", FALSE)} \union
          (IF phase[m_pStmt[s]] = "row" THEN {} ELSE {NoThrow})
    /\ UNCHANGED <<libVars, objVars>>

(* checkDB and checkStmt of the calls above.                               *)
StatementCheckThrows(s) ==
    /\ m_pStmt[s] = NULL
    /\ thrown' = WrapperError
    /\ UNCHANGED <<libVars, objVars>>

(* reset() repeats the code of the last step.                              *)
StatementReset(s) ==
    /\ m_pStmt[s] # NULL
    /\ StepTo(m_pStmt[s], "ready")
    /\ thrown' = IF FinalizeFails(m_pStmt[s])
                 THEN StatementError("error", s) ELSE NoThrow
    /\ UNCHANGED objVars

StatementClear(s) ==
    LET h == m_pStmt[s]
    IN  /\ sqlite3_finalize(h)
        /\ m_pStmt' = [m_pStmt EXCEPT ![s] = NULL]
        /\ thrown' = IF ~FinalizeFails(h) THEN NoThrow
                     ELSE IF m_pDB[s] = NULL
                          THEN Exception("error", "literal", FALSE)
                          ELSE StatementError("error", s)
        /\ UNCHANGED <<m_pDB, m_bEof>>

(* Mutant: no clear() in the destructor.                                   *)
StatementDestroyWithoutClear(s) ==
    /\ m_pStmt' = [m_pStmt EXCEPT ![s] = NULL]
    /\ thrown' = NoThrow
    /\ UNCHANGED <<libVars, m_pDB, m_bEof>>

(* The destructor clears and drops an exception.                           *)
StatementDestroy(s) ==
    /\ sqlite3_finalize(m_pStmt[s])
    /\ m_pStmt' = [m_pStmt EXCEPT ![s] = NULL]
    /\ m_pDB' = [m_pDB EXCEPT ![s] = NULL]
    /\ thrown' = NoThrow
    /\ UNCHANGED m_bEof

-----------------------------------------------------------------------------
DBStep(d) ==
    \/ DBOpen(d) \/ DBClose(d) \/ DBDestroy(d) \/ DBExec(d)
    \/ DBExecQueryThrows(d) \/ DBExecScalar(d)
    \/ \E q \in Qs : DBExecQuery(d, q)
    \/ \E s \in Ss : DBCompileStatement(d, s)

QueryStep(q) ==
    \/ QueryNextRow(q) \/ QueryCheckStmtThrows(q)
    \/ QueryClear(q) \/ QueryDestroy(q)
    \/ \E src \in Qs : QueryCopy(q, src) \/ QueryAssign(q, src)

StatementStep(s) ==
    \/ StatementExecDML(s) \/ StatementExecQueryThrows(s) \/ StatementBind(s)
    \/ StatementCheckThrows(s) \/ StatementReset(s)
    \/ StatementClear(s) \/ StatementDestroy(s)
    \/ \E src \in Ss : StatementCopy(s, src) \/ StatementAssign(s, src)
    \/ \E q \in Qs : StatementExecQuery(s, q)

Next ==
    \/ \E d \in Dbs : DBStep(d)
    \/ \E q \in Qs : QueryStep(q)
    \/ \E s \in Ss : StatementStep(s)

Spec == Init /\ [][Next]_vars

-----------------------------------------------------------------------------
TypeOK ==
    /\ LibTypeOK
    /\ m_pDB \in [Dbs \union Objs -> Conns \union {NULL, Wild}]
    /\ m_pStmt \in [Objs -> Stmts \union {NULL}]
    /\ m_bEof \in [Qs -> BOOLEAN]
    /\ thrown \in Exceptions

(* No two objects own the same statement ("only one object can own the     *)
(* handle", CppSQLite3Query's copy constructor and operator=): the second  *)
(* destructor would finalize freed memory.                                 *)
SingleOwner ==
    \A o, p \in Objs : o # p /\ m_pStmt[o] # NULL => m_pStmt[o] # m_pStmt[p]

(* Every owned statement is alive: no destructor, clear() or nextRow()     *)
(* finalizes a statement an object still points to.                        *)
HeldIsLive == \A o \in Objs : m_pStmt[o] # NULL => m_pStmt[o] \in LiveStmts

(* A live statement is on an open connection, so whoever steps or          *)
(* finalizes it, also after the CppSQLite3DB object is gone, does not      *)
(* reach freed memory.                                                     *)
ConnAlive == \A h \in LiveStmts : conn[stmtDb[h]] = "open"

(* A CppSQLite3DB object holds an allocated connection which no other      *)
(* object holds: close() is never called on a closed handle.               *)
DbHandleSound ==
    \A d \in Dbs : m_pDB[d] # NULL =>
        /\ m_pDB[d] \in LiveConns
        /\ \A e \in Dbs \ {d} : m_pDB[e] # m_pDB[d]

(* A CppSQLite3Statement that owns a statement points to the connection    *)
(* the statement was prepared on, through any number of copies and         *)
(* assignments: execDML() asks that connection for its changes and errors. *)
StatementOnItsConnection ==
    \A s \in Ss : m_pStmt[s] # NULL => m_pDB[s] = stmtDb[m_pStmt[s]]

(* Between calls a statement object owns a reset statement, and a query    *)
(* one that has a row or has ended.  So bind() is never refused for a      *)
(* statement in use, and no finalize fails: the exceptions the destructors *)
(* and operator= drop could not have told anything.                        *)
PhaseByOwner ==
    /\ \A s \in Ss : m_pStmt[s] # NULL => phase[m_pStmt[s]] = "ready"
    /\ \A q \in Qs : m_pStmt[q] # NULL => phase[m_pStmt[q]] \in {"row", "done"}

(* A call that throws leaves no statement behind that it compiled itself,  *)
(* and takes no statement from a CppSQLite3Statement object, unless it is  *)
(* the clear() that could not finalize it.                                 *)
KeepsHandles ==
    thrown'.code # "none" =>
        /\ LiveStmts' \subseteq LiveStmts
        /\ \A s \in Ss : m_pStmt[s] # NULL /\ m_pStmt'[s] # m_pStmt[s]
                           => FinalizeFails(m_pStmt[s])

ThrowKeepsHandles == [][KeepsHandles]_vars

(* While eof() is false the query has a current row: the loop              *)
(* while (!q.eof()) { ...; q.nextRow(); } reads rows only, and starts no   *)
(* statement a second time.  True of queries from CppSQLite3DB::execQuery; *)
(* CppSQLite3Statement::execQuery breaks it when there are no rows.        *)
RowUnlessEof ==
    \A q \in Qs : m_pStmt[q] # NULL /\ ~m_bEof[q] => phase[m_pStmt[q]] = "row"

(* Every live statement has an owner: none is leaked.  Queries alone keep  *)
(* this, through copies, assignments and failing calls; the assignment of  *)
(* CppSQLite3Statement does not.                                           *)
StatementsOwned == \A h \in LiveStmts : \E o \in Objs : m_pStmt[o] = h

-----------------------------------------------------------------------------
(* Two claims of the header that a single failing call refutes (README.md) *)

(* Only a message the library has malloc'd for the caller is given to      *)
(* sqlite3_free: freeing any other corrupts the heap (comment in the       *)
(* constructor of CppSQLite3Exception).                                    *)
FreesOnlyMalloced == thrown.freed => thrown.text = "malloc"

(* The message of an exception comes from the connection that failed ("to  *)
(* help locate where the exception occurred", CppSQLite3Exception).        *)
MessageOfFailingConnection == thrown.text # "stray"
=============================================================================
