-------------------------- MODULE CppSQLite3Client --------------------------
(* A program that uses the SQLite classes as src/Demos/CppDBDemo.cpp does: *)
(* it declares the database objects before the objects that use them,      *)
(* opens only an object that has no connection, and clears a statement     *)
(* object before it assigns to it.  It leaves its scope by returning or by *)
(* an exception, at any moment, and may enter it again.  Leaving runs the  *)
(* destructors, of the objects declared last first.                        *)
EXTENDS CppSQLite3

VARIABLE leaving    \* the scope is being left: only destructors run

clientVars == <<vars, leaving>>

ClientInit == Init /\ leaving = FALSE

(* One call of the program, with the care described above.                 *)
ClientDBStep(d) ==
    \/ m_pDB[d] = NULL /\ DBOpen(d)
    \/ DBClose(d) \/ DBExec(d) \/ DBExecQueryThrows(d) \/ DBExecScalar(d)
    \/ \E q \in Qs : DBExecQuery(d, q)
    \/ \E s \in Ss : DBCompileStatement(d, s)

ClientStatementStep(s) ==
    \/ StatementExecDML(s) \/ StatementExecQueryThrows(s) \/ StatementBind(s)
    \/ StatementCheckThrows(s) \/ StatementReset(s)
    \/ StatementClear(s) \/ StatementDestroy(s)
    \/ \E src \in Ss : \/ StatementCopy(s, src)
                       \/ m_pStmt[s] = NULL /\ StatementAssign(s, src)
    \/ \E q \in Qs : StatementExecQuery(s, q)

Call ==
    /\ ~leaving
    /\ \/ \E d \in Dbs : ClientDBStep(d)
       \/ \E q \in Qs : QueryStep(q)
       \/ \E s \in Ss : ClientStatementStep(s)
    /\ UNCHANGED leaving

(* The closing brace of the scope, a return or an exception.               *)
Leave ==
    /\ ~leaving
    /\ leaving' = TRUE
    /\ UNCHANGED vars

AllReleased(os) == \A o \in os : m_pStmt[o] = NULL

(* The destructors: of the queries and statements, then of the databases.  *)
Unwind ==
    /\ leaving
    /\ \/ \E q \in Qs : m_pStmt[q] # NULL /\ QueryDestroy(q)
       \/ \E s \in Ss : m_pStmt[s] # NULL /\ StatementDestroy(s)
       \/ \E d \in Dbs : AllReleased(Objs) /\ DBDestroy(d)
    /\ UNCHANGED leaving

(* All destructors have run; the scope may be entered again.               *)
Reenter ==
    /\ leaving
    /\ AllReleased(Objs) /\ \A d \in Dbs : m_pDB[d] = NULL
    /\ leaving' = FALSE
    /\ UNCHANGED vars

ClientNext == Call \/ Leave \/ Unwind \/ Reenter

ClientSpec == ClientInit /\ [][ClientNext]_clientVars

(* The language runs every destructor of a scope that is left; nothing     *)
(* obliges the program to make a call, to leave, or to enter again.        *)
FairClientSpec == ClientSpec /\ WF_clientVars(Unwind)

-----------------------------------------------------------------------------
(* Every live statement and connection has its owner: no sequence of       *)
(* calls, failing ones included, loses a handle.                           *)
ConnectionsOwned == \A c \in LiveConns : \E d \in Dbs : m_pDB[d] = c

NothingLost == StatementsOwned /\ ConnectionsOwned

(* The wrapper under a careful program implements exclusive ownership, of  *)
(* statements by queries and statement objects, and of connections by      *)
(* database objects.                                                       *)
StatementHandles ==
    INSTANCE HandleOwnership
        WITH Holders <- Objs, Handles <- Stmts, None <- NULL,
             holds <- m_pStmt, live <- LiveStmts

ConnectionHandles ==
    INSTANCE HandleOwnership
        WITH Holders <- Dbs, Handles <- Conns, None <- NULL,
             holds <- [d \in Dbs |-> m_pDB[d]], live <- LiveConns

StatementOwnership == StatementHandles!Spec
ConnectionOwnership == ConnectionHandles!Spec

(* Leaving the scope frees everything, however the program left it: no     *)
(* destructor finds its connection still in use and drops the error        *)
(* together with the handle.                                               *)
LeavingReleasesAll == leaving ~> (LiveStmts = {} /\ LiveConns = {})
=============================================================================
