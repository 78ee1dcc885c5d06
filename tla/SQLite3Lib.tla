---------------------------- MODULE SQLite3Lib -----------------------------
(***************************************************************************)
(* The part of the SQLite C library that CppSQLite3.cpp drives: the        *)
(* connections (type sqlite3) and the prepared statements (sqlite3_stmt).  *)
(* The library is outside the wrapper; what it does is taken from how the  *)
(* wrapper calls it and tests its return codes.                            *)
(*                                                                         *)
(* A handle is a model value.  A handle that has been freed may be handed  *)
(* out again, as an allocator reuses an address.  The two finite sets      *)
(* bound the handles that exist at one time.                               *)
(***************************************************************************)
CONSTANTS
    Conns,  \* the addresses a connection handle may have
    Stmts,  \* the addresses a statement handle may have
    NULL    \* the null pointer

ASSUME LibAssumption == NULL \notin Conns \union Stmts

VARIABLES
    conn,   \* Conns -> "free" | "open" | "sick" (sqlite3_open has failed)
    stmtDb, \* Stmts -> the connection the statement was prepared on, or NULL
    phase   \* Stmts -> where sqlite3_step has brought the statement

libVars == <<conn, stmtDb, phase>>

LibTypeOK ==
    /\ conn \in [Conns -> {"free", "open", "sick"}]
    /\ stmtDb \in [Stmts -> Conns \union {NULL}]
    /\ phase \in [Stmts -> {"ready", "row", "done", "failed"}]

LibInit ==
    /\ conn = [c \in Conns |-> "free"]
    /\ stmtDb = [h \in Stmts |-> NULL]
    /\ phase = [h \in Stmts |-> "ready"]

LiveStmts == {h \in Stmts : stmtDb[h] # NULL}
LiveConns == {c \in Conns : conn[c] # "free"}

(* The statements sqlite3_close finds still prepared on c (SQLITE_BUSY).   *)
StmtsOn(c) == {h \in Stmts : stmtDb[h] = c}

-----------------------------------------------------------------------------
(* sqlite3_open hands out a handle also when it fails, unless memory ran   *)
(* out; the caller owns the handle in both cases.                          *)
sqlite3_open(c, res) ==
    /\ conn[c] = "free"
    /\ conn' = [conn EXCEPT ![c] = res]
    /\ UNCHANGED <<stmtDb, phase>>

(* sqlite3_close succeeds exactly when no statement is left on c.          *)
sqlite3_close(c) ==
    /\ conn' = IF StmtsOn(c) = {} THEN [conn EXCEPT ![c] = "free"] ELSE conn
    /\ UNCHANGED <<stmtDb, phase>>

(* sqlite3_prepare_v2 followed by a sqlite3_step with result res, or by no *)
(* step when res = "ready".                                                *)
Prepare(c, h, res) ==
    /\ conn[c] = "open"
    /\ stmtDb[h] = NULL
    /\ stmtDb' = [stmtDb EXCEPT ![h] = c]
    /\ phase' = [phase EXCEPT ![h] = res]
    /\ UNCHANGED conn

(* sqlite3_step (after a reset the statement is in phase "ready").  A step *)
(* after the last row starts the statement again, so every phase but       *)
(* "failed" may be followed by a row, by the end or by an error.           *)
StepTo(h, res) ==
    /\ phase' = [phase EXCEPT ![h] = res]
    /\ UNCHANGED <<conn, stmtDb>>

(* sqlite3_finalize; the null pointer is a harmless no-op.                 *)
sqlite3_finalize(h) ==
    /\ stmtDb' = [g \in Stmts |-> IF g = h THEN NULL ELSE stmtDb[g]]
    /\ phase' = [g \in Stmts |-> IF g = h THEN "ready" ELSE phase[g]]
    /\ UNCHANGED conn

(* sqlite3_finalize reports the error of the last step, if it had one.     *)
FinalizeFails(h) == h # NULL /\ phase[h] = "failed"
=============================================================================
