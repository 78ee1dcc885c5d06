------------------------- MODULE CppMySQLStatement -------------------------
(* Class CppMySQLStatement, src/src/CppMySQL.cpp: a prepared statement of  *)
(* the MySQL client and the parameters bound to it.  bind() only notes an  *)
(* address in m_pBindArray: of the caller's string, or of one of the       *)
(* statics s_nValue and s_dwValue.  execDML() reads what is there by then. *)
(*                                                                         *)
(* The program is that of src/Demos/CppDBDemo.cpp: it clears a statement   *)
(* before it assigns to it, and binds to statements that it has compiled.  *)
(* Careful says whether, in addition, it changes no string and binds no    *)
(* second integer or double while an address of the first is in an array.  *)
EXTENDS Naturals, Sequences

CONSTANTS
    Ss,        \* objects of class CppMySQLStatement
    Stmts,     \* the addresses a MYSQL_STMT may have
    NULL,      \* the null pointer
    Strings,   \* the program's strings
    Values,    \* what an integer, a double or a string may be
    Zero,      \* the value of statics and strings before they are set
    MaxParams, \* bound on the parameters of a statement
    MaxPos,    \* the largest position bind() accepts, 1024 in the code
    Careful

Statics == {"s_nValue", "s_dwValue"}
Addresses == Statics \union Strings

(* An element of m_pBindArray; the value that was asked for is kept for    *)
(* the properties.                                                         *)
Entries == [buffer : Addresses, value : Values]

ASSUME StatementAssumption ==
    /\ NULL \notin Stmts /\ Zero \in Values
    /\ Statics \intersect Strings = {}
    /\ MaxParams \in Nat /\ MaxPos \in Nat
    /\ Careful \in BOOLEAN
    /\ NULL \notin Seq(Entries)

VARIABLES
    stmt,           \* Stmts -> "free", "prepared", or "unprepared" when
                    \* preparing it failed
    params,         \* Stmts -> the parameters of a prepared statement
    m_pStmt,
    m_state,
    m_nParamsCount,
    m_pBindArray,   \* the entries bound, or NULL
    m_nBindIndex,
    mem,            \* Addresses -> the value there
    sent            \* did the last execution send the values asked for?

members == <<m_pStmt, m_state, m_nParamsCount, m_pBindArray, m_nBindIndex>>
vars == <<stmt, params, members, mem, sent>>

Prepared == {h \in Stmts : stmt[h] = "prepared"}

STMT_COMPILED == 2
STMT_EXECUTED == 3

Init ==
    /\ stmt = [h \in Stmts |-> "free"]
    /\ params = [h \in Stmts |-> 0]
    /\ m_pStmt = [s \in Ss |-> NULL]
    /\ m_state = [s \in Ss |-> 0]
    /\ m_nParamsCount = [s \in Ss |-> 0]
    /\ m_pBindArray = [s \in Ss |-> NULL]
    /\ m_nBindIndex = [s \in Ss |-> 0]
    /\ mem = [a \in Addresses |-> Zero]
    /\ sent = "none"

-----------------------------------------------------------------------------
SetMembers(s, h, state, count, array, index) ==
    /\ m_pStmt' = [m_pStmt EXCEPT ![s] = h]
    /\ m_state' = [m_state EXCEPT ![s] = state]
    /\ m_nParamsCount' = [m_nParamsCount EXCEPT ![s] = count]
    /\ m_pBindArray' = [m_pBindArray EXCEPT ![s] = array]
    /\ m_nBindIndex' = [m_nBindIndex EXCEPT ![s] = index]

(* compileStatement() builds its result in place.                          *)
Compile(s) ==
    /\ m_pStmt[s] = NULL
    /\ \E h \in Stmts, n \in 0 .. MaxParams :
          /\ stmt[h] = "free"
          /\ stmt' = [stmt EXCEPT ![h] = "prepared"]
          /\ params' = [params EXCEPT ![h] = n]
          /\ SetMembers(s, h, STMT_COMPILED, n, <<>>, 0)
    /\ UNCHANGED <<mem, sent>>

(* mysql_stmt_prepare fails: the constructor throws, so that no destructor *)
(* closes the handle that mysql_stmt_init has returned.                    *)
CompileThrows ==
    /\ \E h \in Stmts :
          /\ stmt[h] = "free"
          /\ stmt' = [stmt EXCEPT ![h] = "unprepared"]
    /\ UNCHANGED <<params, members, mem, sent>>

(* Members of src move, its handle and its array are forgotten there.      *)
Move(s, src) ==
    /\ m_pStmt' = [m_pStmt EXCEPT ![s] = m_pStmt[src], ![src] = NULL]
    /\ m_state' = [m_state EXCEPT ![s] = m_state[src]]
    /\ m_nParamsCount' = [m_nParamsCount EXCEPT ![s] = m_nParamsCount[src]]
    /\ m_pBindArray' = [m_pBindArray EXCEPT ![s] = m_pBindArray[src], ![src] = NULL]
    /\ m_nBindIndex' = [m_nBindIndex EXCEPT ![s] = m_nBindIndex[src]]

(* Mutant: a copy that shares the handle.                                  *)
CopyShares(s, src) ==
    /\ s # src /\ m_pStmt[s] = NULL
    /\ SetMembers(s, m_pStmt[src], m_state[src], m_nParamsCount[src],
                  m_pBindArray[src], m_nBindIndex[src])
    /\ UNCHANGED <<stmt, params, mem, sent>>

(* The copy constructor, or operator= of an object that was cleared.       *)
Copy(s, src) ==
    /\ s # src /\ m_pStmt[s] = NULL
    /\ Move(s, src)
    /\ UNCHANGED <<stmt, params, mem, sent>>

-----------------------------------------------------------------------------
(* Addresses that are in some array.                                       *)
Pending ==
    {b.buffer : b \in UNION {IF m_pBindArray[s] = NULL THEN {}
                             ELSE {m_pBindArray[s][i] : i \in DOMAIN m_pBindArray[s]}
                             : s \in Ss}}

MayChange(a) == Careful => a \notin Pending

(* realBind() at position m_nBindIndex; any other position is refused.     *)
RealBind(s, a, v) ==
    /\ m_nBindIndex[s] <= MaxPos
    /\ m_pBindArray[s] # NULL
    /\ m_pBindArray' = [m_pBindArray EXCEPT ![s] =
                           Append(@, [buffer |-> a, value |-> v])]
    /\ m_nBindIndex' = [m_nBindIndex EXCEPT ![s] = @ + 1]

(* bind() of an integer or a double; the static is written first, also by  *)
(* a call that is then refused.                                            *)
BindStatic(s, a, v) ==
    /\ MayChange(a)
    /\ mem' = [mem EXCEPT ![a] = v]
    /\ \/ RealBind(s, a, v)
       \/ UNCHANGED <<m_pBindArray, m_nBindIndex>>
    /\ UNCHANGED <<stmt, params, m_pStmt, m_state, m_nParamsCount, sent>>

BindString(s, a) ==
    /\ RealBind(s, a, mem[a])
    /\ UNCHANGED <<stmt, params, m_pStmt, m_state, m_nParamsCount, mem, sent>>

(* The program changes one of its strings.                                 *)
ChangeString(a, v) ==
    /\ MayChange(a)
    /\ mem' = [mem EXCEPT ![a] = v]
    /\ UNCHANGED <<stmt, params, members, sent>>

(* The library reads as many entries as the statement has parameters.      *)
SendsAsked(s) ==
    /\ params[m_pStmt[s]] <= Len(m_pBindArray[s])
    /\ \A i \in DOMAIN m_pBindArray[s] :
          mem[m_pBindArray[s][i].buffer] = m_pBindArray[s][i].value

Executed(s) ==
    /\ sent' = IF SendsAsked(s) THEN "asked" ELSE "other"
    /\ m_state' = [m_state EXCEPT ![s] = STMT_EXECUTED]
    /\ m_pBindArray' = [m_pBindArray EXCEPT ![s] = <<>>]
    /\ m_nBindIndex' = [m_nBindIndex EXCEPT ![s] = 0]
    /\ UNCHANGED <<stmt, params, m_pStmt, m_nParamsCount, mem>>

(* Mutant: parameters may be missing.                                      *)
ExecDMLUnchecked(s) ==
    /\ m_pStmt[s] # NULL /\ m_pBindArray[s] # NULL /\ m_state[s] >= STMT_COMPILED
    /\ Executed(s)

(* execDML(); a failing one throws and leaves everything as it was, the    *)
(* array included.                                                         *)
ExecDML(s) ==
    /\ m_pStmt[s] # NULL /\ m_pBindArray[s] # NULL /\ m_state[s] >= STMT_COMPILED
    /\ m_nParamsCount[s] = Len(m_pBindArray[s])
    /\ Executed(s)

(* Mutant: the next bind() is refused.                                     *)
ResetKeepsIndex(s) ==
    /\ m_pStmt[s] # NULL /\ m_pBindArray[s] # NULL
    /\ m_pBindArray' = [m_pBindArray EXCEPT ![s] = <<>>]
    /\ UNCHANGED <<stmt, params, m_pStmt, m_state, m_nParamsCount, m_nBindIndex, mem, sent>>

Reset(s) ==
    /\ m_pStmt[s] # NULL
    /\ m_pBindArray' = [m_pBindArray EXCEPT ![s] = IF @ = NULL THEN NULL ELSE <<>>]
    /\ m_nBindIndex' = [m_nBindIndex EXCEPT ![s] = 0]
    /\ UNCHANGED <<stmt, params, m_pStmt, m_state, m_nParamsCount, mem, sent>>

(* mysql_stmt_close(p), if p is a statement.                               *)
Closed(p) == [h \in Stmts |-> IF h = p THEN "free" ELSE stmt[h]]

Clear(s) ==
    /\ stmt' = Closed(m_pStmt[s])
    /\ m_pStmt' = [m_pStmt EXCEPT ![s] = NULL]
    /\ m_pBindArray' = [m_pBindArray EXCEPT ![s] = NULL]
    /\ UNCHANGED <<params, m_state, m_nParamsCount, m_nBindIndex, mem, sent>>

(* The destructor; the scope may be entered again.                         *)
Destroy(s) ==
    /\ stmt' = Closed(m_pStmt[s])
    /\ SetMembers(s, NULL, 0, 0, NULL, 0)
    /\ UNCHANGED <<params, mem, sent>>

-----------------------------------------------------------------------------
Step(s) ==
    \/ Compile(s) \/ ExecDML(s) \/ Reset(s) \/ Clear(s) \/ Destroy(s)
    \/ \E src \in Ss : Copy(s, src)
    \/ \E a \in Statics, v \in Values : BindStatic(s, a, v)
    \/ \E a \in Strings : BindString(s, a)

Next ==
    \/ \E s \in Ss : Step(s)
    \/ CompileThrows
    \/ \E a \in Strings, v \in Values : ChangeString(a, v)

Spec == Init /\ [][Next]_vars

-----------------------------------------------------------------------------
TypeOK ==
    /\ stmt \in [Stmts -> {"free", "prepared", "unprepared"}]
    /\ params \in [Stmts -> 0 .. MaxParams]
    /\ m_pStmt \in [Ss -> Stmts \union {NULL}]
    /\ m_state \in [Ss -> {0, STMT_COMPILED, STMT_EXECUTED}]
    /\ m_nParamsCount \in [Ss -> 0 .. MaxParams]
    /\ m_pBindArray \in [Ss -> Seq(Entries) \union {NULL}]
    /\ m_nBindIndex \in [Ss -> Nat]
    /\ mem \in [Addresses -> Values]
    /\ sent \in {"none", "asked", "other"}

(* A statement object has handle and array together, knows the number of   *)
(* parameters, and its bind position is the size of the array, so that     *)
(* bind() is refused only out of order: after copies, resets, failing and  *)
(* successful executions.                                                  *)
MembersAgree ==
    \A s \in Ss :
        /\ m_pStmt[s] # NULL <=> m_pBindArray[s] # NULL
        /\ m_pStmt[s] # NULL =>
              /\ m_state[s] >= STMT_COMPILED
              /\ m_nParamsCount[s] = params[m_pStmt[s]]
              /\ m_nBindIndex[s] = Len(m_pBindArray[s])

(* Every execution sends the values that were passed to bind() ("stores    *)
(* the parameter in m_pBindArray", header of bind), for each parameter.    *)
SendsWhatWasBound == sent # "other"

(* "Only one object owns m_pStmt" (copy constructor and operator=), for    *)
(* prepared statements: they are never shared, lost or closed twice.  A    *)
(* handle whose preparation failed is lost.                                *)
StatementHandles ==
    INSTANCE HandleOwnership
        WITH Holders <- Ss, Handles <- Stmts, None <- NULL,
             holds <- m_pStmt, live <- Prepared

StatementOwnership == StatementHandles!Spec
=============================================================================
