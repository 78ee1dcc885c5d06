---------------------------- MODULE CppMySQLDB -----------------------------
(* Class CppMySQLDB, src/src/CppMySQL.cpp: sessions of the MySQL client,   *)
(* the connection string, transactions, and the one static s_DBName.  The  *)
(* server drops connections, statements fail, replies are lost, and the    *)
(* client reconnects; the wrapper learns of it from return values, which   *)
(* commitTransaction() and rollback() ignore.                              *)
(*                                                                         *)
(* An operation that checkDB() refuses changes nothing and is not written. *)
(* With a NULL handle, setOptions() and compileStatement() are not refused *)
(* but end the process: there is no step either.                           *)
EXTENDS Integers, Sequences

CONSTANTS
    Sessions,    \* objects of class CppMySQLDB
    Working,     \* the sessions whose program updates and uses transactions
    Databases,   \* names of databases
    NULL,        \* the null pointer; also: no session
    ConnStrings, \* the connection strings, as sequences of items
    MaxUpdates,  \* bound on the updates in a transaction
    MaxCount     \* bound on m_inTransaction; it goes down to -1

(* The empty string.                                                       *)
Empty == "empty"

(* What is between two semicolons: a key and a value, or no '='.  Blanks   *)
(* around both are gone (copyStripped).                                    *)
Malformed == [key |-> Empty, val |-> Empty]

VARIABLES
    mysql,           \* m_pDB: the client's handle, or NULL after close()
    m_inTransaction,
    s_DBName,        \* one static for all sessions
    server,          \* the server's session that belongs to the handle
    asked,           \* the auto-reconnect option the program gave last
    namedBy,         \* the session that selected a database last, while
                     \* its selection is the one s_DBName is about
    prog             \* what a program that keeps the rules knows

vars == <<mysql, m_inTransaction, s_DBName, server, asked, namedBy, prog>>

(* db is the selected database; known: the client has an address to        *)
(* reconnect to; inTrans: the last reply said that a transaction is open;  *)
(* link is dead when the server has gone and the client has not noticed.   *)
Handle == [db : Databases \union {NULL}, known : BOOLEAN, reconnect : BOOLEAN,
           inTrans : BOOLEAN, link : {"none", "up", "dead"}]

ASSUME SessionAssumption ==
    /\ Working \subseteq Sessions
    /\ NULL \notin Sessions \union Databases \union Handle
    /\ Empty \notin Databases
    /\ MaxUpdates \in Nat /\ MaxCount \in Nat \ {0}

(* auto: the client has opened the session on its own.                     *)
ServerSession == [txn : BOOLEAN, pending : Nat, auto : BOOLEAN]

(* orderly: the program has kept the rules; told: it has been told of a    *)
(* failure in its transaction; done, kept: as in UnitOfWork; committed:    *)
(* the last transaction was ended by commitTransaction().                  *)
Program == [orderly : BOOLEAN, told : BOOLEAN, done : Nat, kept : Nat,
            committed : BOOLEAN]

NewHandle == [db |-> NULL, known |-> FALSE, reconnect |-> FALSE,
              inTrans |-> FALSE, link |-> "none"]
NewServer(auto) == [txn |-> FALSE, pending |-> 0, auto |-> auto]
Gone == NewServer(FALSE)
NewProgram == [orderly |-> TRUE, told |-> FALSE, done |-> 0, kept |-> 0,
               committed |-> FALSE]
Disorderly == [NewProgram EXCEPT !.orderly = FALSE]

Init ==
    /\ mysql = [s \in Sessions |-> NewHandle]
    /\ m_inTransaction = [s \in Sessions |-> 0]
    /\ s_DBName = Empty
    /\ server = [s \in Sessions |-> Gone]
    /\ asked = [s \in Sessions |-> "unset"]
    /\ namedBy = NULL
    /\ prog = [s \in Sessions |-> NewProgram]

-----------------------------------------------------------------------------
(* Commands and what the server does with them.  Outside of a transaction  *)
(* an update is kept at once; "start" and "ddl" commit what is open.       *)
Commands == {"start", "commit", "rollback", "update", "ddl", "read"}

Ran(cmd, srv) ==
    CASE cmd = "read" -> srv
      [] cmd = "update" -> IF srv.txn THEN [srv EXCEPT !.pending = @ + 1] ELSE srv
      [] OTHER -> [srv EXCEPT !.txn = (cmd = "start"), !.pending = 0]

Keeps(cmd, srv) ==
    CASE cmd \in {"start", "commit", "ddl"} -> srv.pending
      [] cmd = "update" /\ ~srv.txn -> 1
      [] OTHER -> 0

RolledBack(srv) == [srv EXCEPT !.txn = FALSE, !.pending = 0]

(* The client reconnects by itself if it may and if the last reply did not *)
(* say that a transaction is open.                                         *)
MayReconnect(h) == h.reconnect /\ h.known /\ ~h.inTrans

(* Handle and server session with which a command reaches the server.      *)
Delivered(s) ==
    CASE mysql[s].link = "up" -> {[h |-> mysql[s], srv |-> server[s]]}
      [] mysql[s].link # "up" /\ MayReconnect(mysql[s]) ->
            {[h |-> [mysql[s] EXCEPT !.link = "up"], srv |-> NewServer(TRUE)]}
      [] OTHER -> {}

(* Handles after a command that does not reach it.  A refused or failed    *)
(* reconnection clears inTrans: the next command will reconnect.           *)
Undelivered(s) ==
    CASE mysql[s].link = "up" -> {}
      [] mysql[s].link = "none" -> {[mysql[s] EXCEPT !.inTrans = FALSE]}
      [] mysql[s].link = "dead" ->
            {[mysql[s] EXCEPT !.link = "none", !.inTrans = b] : b \in {FALSE, mysql[s].inTrans}}

(* What may come of a command, with what it adds to the database for good. *)
Succeeds(s, cmd) ==
    {[h |-> [r.h EXCEPT !.inTrans = Ran(cmd, r.srv).txn],
      srv |-> Ran(cmd, r.srv), gain |-> Keeps(cmd, r.srv)] : r \in Delivered(s)}

ReplyLost(s, cmd) ==
    {[h |-> [r.h EXCEPT !.link = "none"], srv |-> Gone,
      gain |-> IF ran THEN Keeps(cmd, r.srv) ELSE 0] : r \in Delivered(s), ran \in BOOLEAN}

(* The server refuses an update or a query, or rolls the transaction back  *)
(* because of a deadlock; a refused "ddl" has committed what was open.     *)
ErrorReply(s, cmd) ==
    CASE cmd \in {"update", "read"} ->
            {[h |-> r.h, srv |-> IF deadlock THEN RolledBack(r.srv) ELSE r.srv,
              gain |-> 0] : r \in Delivered(s), deadlock \in BOOLEAN}
      [] cmd = "ddl" ->
            {[h |-> r.h, srv |-> Ran(cmd, r.srv), gain |-> Keeps(cmd, r.srv)] :
                r \in Delivered(s)}
      [] OTHER -> {}

Fails(s, cmd) ==
    {[h |-> h, srv |-> Gone, gain |-> 0] : h \in Undelivered(s)}
        \union ReplyLost(s, cmd) \union ErrorReply(s, cmd)

-----------------------------------------------------------------------------
(* The rules: transactions are not nested and are ended once, no database  *)
(* is created, dropped or connected to inside of one, and after a failure  *)
(* in a transaction comes rollback() (or close(), or the destructor).      *)
Breaks(s, cmd) ==
    \/ prog[s].told /\ cmd # "rollback"
    \/ m_inTransaction[s] > 0 /\ cmd \in {"start", "ddl", "connect"}
    \/ m_inTransaction[s] <= 0 /\ cmd \in {"commit", "rollback"}

(* What the program knows after an operation that reported ok or not and   *)
(* added gain to the database.                                             *)
Noted(s, cmd, ok, gain) ==
    LET working == m_inTransaction[s] > 0
    IN  CASE ~prog[s].orderly \/ Breaks(s, cmd) -> Disorderly
          [] ~Breaks(s, cmd) /\ prog[s].orderly /\ cmd = "start" /\ ok -> NewProgram
          [] OTHER ->
                [prog[s] EXCEPT
                    !.told = working /\ ~ok /\ cmd \notin {"commit", "rollback"},
                    !.done = IF working /\ ok /\ cmd = "update" THEN @ + 1 ELSE @,
                    !.kept = IF working THEN @ + gain ELSE @,
                    !.committed = IF working /\ cmd \in {"commit", "rollback"}
                                  THEN cmd = "commit" ELSE @]

Outcomes(s, cmd, ok) == IF ok THEN Succeeds(s, cmd) ELSE Fails(s, cmd)

Command(s, cmd, ok) ==
    \E o \in Outcomes(s, cmd, ok) :
        /\ mysql' = [mysql EXCEPT ![s] = o.h]
        /\ server' = [server EXCEPT ![s] = o.srv]
        /\ prog' = [prog EXCEPT ![s] = Noted(s, cmd, ok, o.gain)]

(* checkDB(false) and checkDB().                                           *)
HasHandle(s) == mysql[s] # NULL
HasDB(s) == mysql[s] # NULL /\ mysql[s].db # NULL

-----------------------------------------------------------------------------
(* mysql_real_connect for handle h.  It refuses a handle that has a link;  *)
(* when it fails otherwise, the handle has no database and no address.     *)
RealConnect(s, h, db, ok) ==
    /\ prog' = [prog EXCEPT ![s] = Noted(s, "connect", ok, 0)]
    /\ \/ /\ ok /\ h.link = "none"
          /\ mysql' = [mysql EXCEPT ![s] =
                [h EXCEPT !.db = db, !.known = TRUE, !.inTrans = FALSE, !.link = "up"]]
          /\ server' = [server EXCEPT ![s] = NewServer(FALSE)]
       \/ /\ ~ok
          /\ mysql' = [mysql EXCEPT ![s] =
                IF h.link = "none" THEN [h EXCEPT !.db = NULL, !.known = FALSE] ELSE h]
          /\ UNCHANGED server

(* connect() with host, user and so on.  It does not set s_DBName.         *)
Connect(s) ==
    /\ HasHandle(s)
    /\ \E db \in Databases \union {NULL}, ok \in BOOLEAN :
          /\ RealConnect(s, mysql[s], db, ok)
          /\ namedBy' = IF ok /\ namedBy = s THEN NULL ELSE namedBy
    /\ UNCHANGED <<m_inTransaction, s_DBName, asked>>

(* The items of a connection string: the last one with a key counts, and   *)
(* defaults are for keys that are missing.                                 *)
Default(key) == IF key = "port" THEN "3306" ELSE Empty

Option(str, key) ==
    LET at == {i \in DOMAIN str : str[i].key = key}
    IN  IF at = {} THEN Default(key)
        ELSE str[CHOOSE i \in at : \A j \in at : j <= i].val

(* atoi(); a negative port passes the test.                                *)
PortNumber(val) ==
    CASE val = "3306" -> 3306 [] val = "65536" -> 65536 [] val = "-1" -> -1 [] OTHER -> 0

ASSUME ConnStringAssumption ==
    \A str \in ConnStrings : Option(str, "db") \in Databases \union {Empty}

IsSwitch(val) == val \in {"true", "false"}

WellFormed(str) ==
    /\ str # <<>> /\ \A i \in DOMAIN str : str[i] # Malformed
    /\ Option(str, "user") # Empty
    /\ PortNumber(Option(str, "port")) # 0 /\ PortNumber(Option(str, "port")) <= 65535
    /\ \A key \in {"compress", "auto-reconnect"} :
          Option(str, key) # Empty => IsSwitch(Option(str, key))

(* Mutant: the option is set for every connection string.                  *)
WithOptionsAlways(h, str) == [h EXCEPT !.reconnect = TRUE]

(* setOptions(MYSQL_OPT_RECONNECT, "true" or "false"): the library takes   *)
(* the pointer for one to a my_bool, so that the "f" enables it as well.   *)
WithOptions(h, str) ==
    [h EXCEPT !.reconnect = @ \/ IsSwitch(Option(str, "auto-reconnect"))]

(* connect() with a connection string.                                     *)
ConnectString(s, str) ==
    /\ HasHandle(s)
    /\ LET auto == Option(str, "auto-reconnect")
           name == Option(str, "db")
           db == IF name = Empty THEN NULL ELSE name
       IN  \/ /\ ~WellFormed(str)
              /\ prog' = [prog EXCEPT ![s] = Noted(s, "connect", FALSE, 0)]
              /\ UNCHANGED <<mysql, server, s_DBName, asked, namedBy>>
           \/ /\ WellFormed(str)
              /\ asked' = IF IsSwitch(auto) THEN [asked EXCEPT ![s] = auto] ELSE asked
              /\ \E ok \in BOOLEAN :
                    /\ RealConnect(s, WithOptions(mysql[s], str), db, ok)
                    /\ s_DBName' = IF ok THEN name ELSE s_DBName
                    /\ namedBy' = IF ok THEN s ELSE namedBy
    /\ UNCHANGED m_inTransaction

(* Mutant: the name of the database is not noted.                          *)
OpenWithoutName(s, db) ==
    /\ HasHandle(s)
    /\ \E ok \in BOOLEAN : \E o \in Outcomes(s, "read", ok) :
          /\ mysql' = [mysql EXCEPT ![s] = IF ok THEN [o.h EXCEPT !.db = db] ELSE o.h]
          /\ server' = [server EXCEPT ![s] = o.srv]
          /\ prog' = [prog EXCEPT ![s] = Noted(s, "read", ok, 0)]
          /\ namedBy' = IF ok THEN s ELSE namedBy
    /\ UNCHANGED <<m_inTransaction, s_DBName, asked>>

(* open(), which is mysql_select_db.                                       *)
Open(s, db) ==
    /\ HasHandle(s)
    /\ \E ok \in BOOLEAN : \E o \in Outcomes(s, "read", ok) :
          /\ mysql' = [mysql EXCEPT ![s] = IF ok THEN [o.h EXCEPT !.db = db] ELSE o.h]
          /\ server' = [server EXCEPT ![s] = o.srv]
          /\ prog' = [prog EXCEPT ![s] = Noted(s, "read", ok, 0)]
          /\ s_DBName' = IF ok THEN db ELSE s_DBName
          /\ namedBy' = IF ok THEN s ELSE namedBy
    /\ UNCHANGED <<m_inTransaction, asked>>

(* close(): the object keeps its counter and can not be connected again.   *)
Close(s) ==
    /\ mysql' = [mysql EXCEPT ![s] = NULL]
    /\ server' = [server EXCEPT ![s] = Gone]
    /\ UNCHANGED <<m_inTransaction, s_DBName, asked, namedBy, prog>>

(* The destructor, and the constructor of the next object.                 *)
Renew(s) ==
    /\ mysql' = [mysql EXCEPT ![s] = NewHandle]
    /\ m_inTransaction' = [m_inTransaction EXCEPT ![s] = 0]
    /\ server' = [server EXCEPT ![s] = Gone]
    /\ asked' = [asked EXCEPT ![s] = "unset"]
    /\ prog' = [prog EXCEPT ![s] = NewProgram]
    /\ UNCHANGED <<s_DBName, namedBy>>

-----------------------------------------------------------------------------
Unnamed == UNCHANGED <<s_DBName, asked, namedBy>>

(* Mutant: the transaction is counted before it has started.               *)
StartTransactionCountsFirst(s) ==
    /\ HasDB(s) /\ m_inTransaction[s] < MaxCount
    /\ \E ok \in BOOLEAN : Command(s, "start", ok)
    /\ m_inTransaction' = [m_inTransaction EXCEPT ![s] = @ + 1]
    /\ Unnamed

(* startTransaction(): counted when the server has started one.            *)
StartTransaction(s) ==
    /\ HasDB(s) /\ m_inTransaction[s] < MaxCount
    /\ \E ok \in BOOLEAN :
          /\ Command(s, "start", ok)
          /\ m_inTransaction' = IF ok THEN [m_inTransaction EXCEPT ![s] = @ + 1]
                                ELSE m_inTransaction
    /\ Unnamed

(* commitTransaction() and rollback(): counted down whatever came of it.   *)
EndTransaction(s, cmd) ==
    /\ HasDB(s) /\ m_inTransaction[s] >= 0
    /\ \E ok \in BOOLEAN : Command(s, cmd, ok)
    /\ m_inTransaction' = [m_inTransaction EXCEPT ![s] = @ - 1]
    /\ Unnamed

CommitTransaction(s) == EndTransaction(s, "commit")

(* Mutant: the server is not told.                                         *)
RollbackLocally(s) ==
    /\ HasDB(s) /\ m_inTransaction[s] >= 0
    /\ m_inTransaction' = [m_inTransaction EXCEPT ![s] = @ - 1]
    /\ prog' = [prog EXCEPT ![s] = Noted(s, "rollback", TRUE, 0)]
    /\ UNCHANGED <<mysql, server>> /\ Unnamed

Rollback(s) == EndTransaction(s, "rollback")

(* Mutant: the result of mysql_real_query is not looked at, as in          *)
(* commitTransaction().                                                    *)
ExecDMLUnchecked(s) ==
    /\ HasDB(s)
    /\ server[s].pending < MaxUpdates /\ prog[s].done < MaxUpdates
    /\ \E ok \in BOOLEAN : \E o \in Outcomes(s, "update", ok) :
          /\ mysql' = [mysql EXCEPT ![s] = o.h]
          /\ server' = [server EXCEPT ![s] = o.srv]
          /\ prog' = [prog EXCEPT ![s] = Noted(s, "update", TRUE, o.gain)]
    /\ UNCHANGED m_inTransaction /\ Unnamed

(* execDML() of an update.                                                 *)
ExecDML(s) ==
    /\ HasDB(s)
    /\ server[s].pending < MaxUpdates /\ prog[s].done < MaxUpdates
    /\ \E ok \in BOOLEAN : Command(s, "update", ok)
    /\ UNCHANGED m_inTransaction /\ Unnamed

(* execQuery(), execScalar(), getResultSet(), and ping(), which reports a  *)
(* failure by its value.                                                   *)
Query(s) ==
    /\ HasDB(s)
    /\ \E ok \in BOOLEAN : Command(s, "read", ok)
    /\ UNCHANGED m_inTransaction /\ Unnamed

(* tableExists() is a query for a table of this database.                  *)
AskedDatabase == s_DBName

(* setCharacterSet(): needs no database, and reports a failure by its      *)
(* value.                                                                  *)
SetCharacterSet(s) ==
    /\ HasHandle(s)
    /\ \E ok \in BOOLEAN : Command(s, "read", ok)
    /\ UNCHANGED m_inTransaction /\ Unnamed

(* createDB() and dropDB().                                                *)
CreateOrDropDB(s) ==
    /\ HasHandle(s)
    /\ \E ok \in BOOLEAN : Command(s, "ddl", ok)
    /\ UNCHANGED m_inTransaction /\ Unnamed

(* The server, or the network, drops the connection.                       *)
ServerDrops(s) ==
    /\ HasHandle(s) /\ mysql[s].link = "up"
    /\ mysql' = [mysql EXCEPT ![s].link = "dead"]
    /\ server' = [server EXCEPT ![s] = Gone]
    /\ UNCHANGED <<m_inTransaction, prog>> /\ Unnamed

-----------------------------------------------------------------------------
Step(s) ==
    \/ Connect(s)
    \/ \E str \in ConnStrings : ConnectString(s, str)
    \/ \E db \in Databases : Open(s, db)
    \/ Close(s) \/ Renew(s) \/ ServerDrops(s)
    \/ Query(s) \/ SetCharacterSet(s)
    \/ /\ s \in Working
       /\ \/ StartTransaction(s) \/ CommitTransaction(s) \/ Rollback(s)
          \/ ExecDML(s) \/ CreateOrDropDB(s)

Next == \E s \in Sessions : Step(s)

Spec == Init /\ [][Next]_vars

-----------------------------------------------------------------------------
TypeOK ==
    /\ mysql \in [Sessions -> Handle \union {NULL}]
    /\ m_inTransaction \in [Sessions -> Int]
    /\ s_DBName \in Databases \union {Empty}
    /\ server \in [Sessions -> ServerSession]
    /\ asked \in [Sessions -> {"unset", "true", "false"}]
    /\ namedBy \in Sessions \union {NULL}
    /\ prog \in [Sessions -> Program]

(* While the program keeps the rules, a transaction that the server has    *)
(* open, with its locks, is one that isTransaction() tells of, and it is   *)
(* the only one: after lost replies, refused reconnections, deadlocks and  *)
(* failed starts, commits and rollbacks.                                   *)
NoHiddenTransaction ==
    \A s \in Sessions : prog[s].orderly =>
        /\ m_inTransaction[s] \in {0, 1}
        /\ server[s].txn => m_inTransaction[s] = 1

(* What isTransaction() tells of is a transaction of the server, unless    *)
(* the program has been told of a failure or the link has gone: no         *)
(* reconnection puts a session without transaction in its place unnoticed. *)
TransactionIsReal ==
    \A s \in Sessions :
        /\ prog[s].orderly /\ m_inTransaction[s] > 0 /\ ~prog[s].told
        /\ HasHandle(s) /\ mysql[s].link = "up"
        => server[s].txn

(* "auto-reconnect" (connection string): sessions are reopened only for a  *)
(* program that gave the option, with whatever value.                      *)
ReopensOnlyWhenAsked ==
    \A s \in Sessions : server[s].auto => asked[s] # "unset"

(* tableExists() of the session that selected a database last, by open()   *)
(* or a connection string, asks for a table of that session's database,    *)
(* after failed connections and closed and new sessions too.               *)
AsksOwnDatabase ==
    \A s \in Sessions : namedBy = s /\ HasDB(s) => AskedDatabase = mysql[s].db

(* What a program that keeps the rules sees of its transactions.           *)
Phase(p, count) ==
    CASE ~p.orderly -> "abandoned"
      [] p.orderly /\ count > 0 -> "working"
      [] OTHER -> "idle"

Promise ==
    INSTANCE UnitOfWork
        WITH phase <- [s \in Sessions |-> Phase(prog[s], m_inTransaction[s])],
             done <- [s \in Sessions |-> prog[s].done],
             kept <- [s \in Sessions |-> prog[s].kept]

(* The transactions of a program that keeps the rules keep all of their    *)
(* updates or none, and none before they end.                              *)
AllOrNothing == Promise!Spec

(* commitTransaction() tells nobody that a commit failed, but never while  *)
(* the session goes on: a commit that lost what a program was told is done *)
(* has also lost the link, which the next command or ping() finds out.     *)
LostCommitLosesLink ==
    [][\A s \in Working :
          /\ prog[s].orderly /\ ~prog[s].told /\ m_inTransaction[s] > 0
          /\ CommitTransaction(s)
          => prog'[s].kept = prog'[s].done \/ mysql'[s].link # "up"]_vars

(* "Commits the transaction" (header of commitTransaction): when it has    *)
(* returned, the updates of the transaction are in the database.           *)
CommitKeeps ==
    \A s \in Sessions : prog[s].committed => prog[s].kept = prog[s].done
=============================================================================
