# DatabaseLayer in TLA+

DatabaseLayer gives C++ programs one interface to two databases: SQLite 3
(`src/src/CppSQLite3.cpp`) and MySQL (`src/src/CppMySQL.cpp`).  A macro chooses
the backend; `src/include/DatabaseLayer.h` declares what both must offer and
names the chosen classes `CppDB`, `CppDBQuery`, `CppDBResultSet`,
`CppDBStatement` and `CppDBException`.

This directory holds a verification development of that code: TLA+ modules,
the TLC configurations that check them on small instances, and proofs that
TLAPS checks for every size.

## The system

### Components

| component | state it keeps | operations |
|---|---|---|
| `CppSQLite3DB` | `m_pDB`, the connection | open, close, execDML, execQuery, execScalar, getResultSet, compileStatement, transactions, destructor |
| `CppSQLite3Query` | `m_pStmt` (owned), `m_pDB`, `m_bEof` | copy, operator=, nextRow, eof, getters, clear, destructor |
| `CppSQLite3Statement` | `m_pStmt` (owned), `m_pDB` | copy, operator=, bind, execDML, execQuery, reset, clear, destructor |
| `CppSQLite3ResultSet` | `m_paszResults` (owned), row cursor, sizes | copy, operator=, nextRow, seekRow, eof, getters, clear, destructor |
| `CppSQLite3Exception` | code, message buffer | constructor, which may free the message |
| `CppMySQLDB` | `m_pDB`, the session; `m_inTransaction`; the name in the static `s_DBName` | connect (two forms), open, close, execDML, execQuery, execScalar, getResultSet, compileStatement, transactions, createDB, dropDB, ping, setCharacterSet, tableExists, setOptions |
| `CppMySQLQuery` | `m_pRES` (owned), `m_Row` (points into it), counts | copy, operator=, nextRow, seekRow, eof, getters, clear, destructor |
| `CppMySQLResultSet` | `m_pResultSet`, `m_pFieldMap` (owned), row cursor, sizes | as the SQLite class |
| `CppMySQLStatement` | `m_pStmt`, `m_pBindArray` (owned), `m_nBindIndex`, `m_state`; values in the statics `s_nValue`, `s_dwValue` | constructor (prepares), copy, operator=, bind, execDML, reset, clear, destructor |
| `CppMySQLException` | code, a message on the heap (owned) | copy, operator=, destructor |
| `CppDBDemoMT` | the global objects `db` and `nThreads`, shared by two threads | main and the worker procedures |
| the C libraries, the server, the database file | connections, statements, results, transactions, locks | external |

### How they interact

A program holds the objects as variables.  A database object hands out
queries, result sets and statements *by value*; each owns a handle of the C
library, and copying moves the handle although the source is `const`.  All
handles of a connection depend on it: SQLite refuses to close a connection
that still has statements.  Errors are exceptions, so any call may end early,
and destructors swallow the exceptions of the clean-up they run.  There are no
callbacks.  Threads appear only in the multi-threaded demo, which shares one
database object and a counter without a lock.  A MySQL session is two states
that talk over a network: the client's handle and the server's session.  Either
may lose the other, and the client may open a new session on its own.

### What is hard, and what must hold

* **Ownership through copies.**  Copying is moving.  Whatever chain of copies,
  assignments, clears and failing calls a program makes, a handle must have one
  owner, and be freed once (SingleOwner, HeldIsLive, DbHandleSound).
* **Order of destruction.**  No object may step a statement of a freed
  connection, and no destructor may lose a connection that is refused its close
  (ConnAlive, NothingLost, LeavingReleasesAll).
* **Failure half-way.**  A call that throws must not leave handles or a
  statement in a state that makes later calls fail (ThrowKeepsHandles,
  PhaseByOwner).
* **Cursors.**  `eof()` must be true when, and only when, there is no row to
  read, at the first row, after the last, for results without rows, after
  copies and seeks (RowUnlessEof and the result-set properties).
* **Deferred binding.**  The MySQL statement keeps pointers to what will be
  bound at `execDML()`; by then the memory may hold something else
  (SendsWhatWasBound, MembersAgree).
* **A counter that mirrors the server.**  `CppMySQLDB::isTransaction()` reads a
  counter that goes up after a start and down after any commit or rollback, the
  server's answer unread.  Connections, replies, commands and reconnections
  fail in between, and `s_DBName` mirrors the selected database of all sessions
  at once (NoHiddenTransaction, TransactionIsReal, AllOrNothing,
  AsksOwnDatabase, ReopensOnlyWhenAsked,
  LostCommitLosesLink).
* **Two threads, one object.**  In the multi-threaded demo the worker opens
  `db` again while main updates through it; main's update lands on either
  connection, in or outside of a transaction, and main waits by polling
  (UpdatesAreKept, NothingLeftOpen, CrashWindow, CounterJoins,
  EveryStepProgresses, Terminates).

## The modules

| module | models | proofs |
|---|---|---|
| `SQLite3Lib` | the SQLite library as the wrapper drives it: which connections and prepared statements exist, on which connection a statement is, how far it has been stepped | |
| `CppSQLite3` (extends `SQLite3Lib`) | `CppSQLite3DB`, `CppSQLite3Query`, `CppSQLite3Statement`, `CppSQLite3Exception` | `CppSQLite3Proofs` |
| `HandleOwnership` | the promise of the headers, abstractly: a handle is obtained, moved and released by one holder | its own invariant |
| `CppSQLite3Client` (extends `CppSQLite3`, instantiates `HandleOwnership` twice) | a program with the discipline of `CppDBDemo.cpp`, and the destructors that run when it leaves its scope | `CppSQLite3ClientProofs` |
| `CppResultSet` (instantiates `HandleOwnership`) | `CppSQLite3ResultSet` and `CppMySQLResultSet`, with `getResultSet()` of both backends | `CppResultSetProofs` |
| `CppMySQLQuery` (instantiates `HandleOwnership`) | `CppMySQLQuery` and the client library's result with its cursor | `CppMySQLQueryProofs` |
| `CppMySQLStatement` (instantiates `HandleOwnership`) | `CppMySQLStatement`, the memory its bound entries point to, and the program that binds | `CppMySQLStatementProofs` |
| `UnitOfWork` | what transactions promise, abstractly: the updates between start and end are kept all or not at all, and none before the end | |
| `CppMySQLDB` (instantiates `UnitOfWork`) | `CppMySQLDB`: connecting with arguments or a connection string, selecting a database, transactions, commands; the client's handle, the server's session, their failures | `CppMySQLDBProofs` |
| `CppDBDemoMT` | the multi-threaded demo with SQLite: two threads, the shared object, the connections that were opened, what each holds in the database file | `CppDBDemoMTProofs` |
| `MCCppSQLite3`, `MCCppMySQLDB`, `MCCppDBDemoMT` | instances: symmetry, connection strings, the phases of the demo | |

### How state and actions correspond to the code

An element of `Dbs`, `Qs`, `Ss` or `Rs` is a variable or a temporary of the
program.  The TLA+ variables carry the names of the members; a function over
objects is the member of every object.  An action is a whole call, from its
entry to its return or throw, because nothing else of the program runs in
between.  Where a call may end in several ways (rows, no rows, an SQL error, a
failed check) the action is a disjunction or quantifies over the outcomes of
the library.  A throw is an action that sets `thrown`.

* **Construction.**  A constructor with arguments runs on an object that holds
  nothing.  The destructor leaves a default-constructed object: the scope may
  be entered again.
* **Library.**  A handle is an address; a freed one may be handed out again.
  `SQLite3Lib` has `conn` (free, open, or sick after a failed `sqlite3_open`),
  `stmtDb` and `phase` (ready, row, done, failed).  A result of MySQL is its
  number of rows and the row `mysql_fetch_row` returns next.
* **Unset members.**  `CppSQLite3Query` does not set `m_pDB` in two of its
  constructors; the model gives it the value `Wild`, which is equal to nothing.
* **Unsigned arithmetic.**  `m_nRows - 1` is computed modulo `ULONG_MAX + 1`,
  so that an empty result wraps as it does in C.
* **Data.**  The text of SQL, the values of columns and the wording of messages
  are abstracted.  A message is the place its memory came from; a value read
  from a result set is the cell it was read from.
* **Deferred binding.**  An entry of `m_pBindArray` is an address, of a string
  of the program or of `s_nValue` or `s_dwValue`, together with the value that
  was passed, which the code does not keep and only the properties read.  `mem`
  is the memory behind the addresses, and an execution reads it.  Of an
  execution the model keeps whether it sent the values that were passed.
* **Sessions.**  `mysql` is the client's handle with what of it the wrapper's
  behaviour depends on: the selected database (`checkDB()` reads it), whether it
  has an address to reconnect to, the option, the transaction flag of the last
  reply, and the link, which is `dead` from the moment the server has gone until
  a command notices.  `server` is the session at the other end, with the number
  of its uncommitted updates.  A command is one step; its outcome is drawn from
  `Succeeds` or `Fails`: not delivered, delivered after a reconnection, carried
  out with the reply lost, refused, or answered with a rollback of the whole
  transaction.  `prog` is history: what a program that keeps the rules has been
  told.  The rules (`Breaks`) are: transactions are not nested and ended once,
  no database is created, dropped or connected to inside of one, and a failure
  inside of one is followed by `rollback()`, `close()` or the destructor.
  Program steps that break the rules are in the model; the transaction
  properties say nothing after them.
* **Connection strings** are sequences of items, a key with a value or text
  without `=`.  The last item with a key counts.
* **Threads.**  In `CppDBDemoMT` a step is one access to a shared object or one
  command of SQLite, which its mutexes make atomic.  `execDML()` reads `m_pDB`
  three times, in `checkDB()`, for `sqlite3_exec` and for `sqlite3_changes`, and
  the worker may run in between; `open()` sets the handle to NULL before it sets
  the new one.  `broken`, `txn`, `reserved`, `reading` and `pending` are the
  connections as the library and the file know them, the ones `db` has forgotten
  included.  A use of a NULL handle ends the process (`crashed`).  Sleeps and
  timeouts order nothing; a command that waits for a lock may get it or end
  BUSY.
* **The two result-set classes** differ in three points, which the model keeps:
  the MySQL copy constructor starts at the first row, MySQL may have no result
  at all, and SQLite keeps the column names and all rows in one flat array.
  The cursor of the SQLite class is an `int`; -1 is the largest number of the
  model.

## The runs

| run | question | answer |
|---|---|---|
| `ownership` | may any order of calls on the SQLite classes, failing ones included, corrupt ownership? | no |
| `queries` | do queries of `CppSQLite3DB::execQuery` show a row exactly when there is one, and leak nothing? | yes |
| `client` | does a program like the demo lose a handle, or leave its scope without freeing everything? | no |
| `resultset` | does a loop over `eof()` and `nextRow()` read its own cells only, and does every table have one owner? | yes |
| `mysql_query` | do row pointer and cursor stay together, does a seek ever lose the last row, are results owned? | yes, no, yes |
| `statement` | does an execution send what was bound, if no address in an array is written in between? do the members agree, are statements owned? | yes |
| `session` | do transactions keep all or nothing, and does `isTransaction()` tell the truth, when connections drop, replies are lost and the client reconnects? | yes, for programs that keep the rules |
| `demo_mt` | do the threads of the demo end, one at a time, with nothing lost and nothing left locked, and when is the shared handle NULL? | yes, the losses and locks without failures; inside of an open, or after a failed one |
| `eof_without_row` | does `eof()` tell that a prepared query has no rows? | no: finding 1 |
| `stale_row` | is a query without result at its end? | not after an assignment: finding 2 |
| `aliased` | does an execution send what was bound if a second integer is bound in between? | no: finding 3 |
| `silent_commit` | is a transaction committed when `commitTransaction()` has returned? | no: finding 4 |

### What the properties say

* `SingleOwner`, `HeldIsLive`, `ConnAlive`, `DbHandleSound`: no statement or
  connection is freed twice, or used after it was freed, whatever the program
  does, a `CppSQLite3DB` destroyed before its queries included.
* `StatementOnItsConnection`: a statement object asks the right connection for
  the number of changes and for errors, through chains of moves.
* `PhaseByOwner`: the reset at the end of `execDML()` and of its error path is
  enough for `bind()` never to be refused, and no finalize fails, so the
  exceptions that destructors drop carry nothing.
* `ThrowKeepsHandles`: a step property; a call that throws leaves no statement
  it compiled behind and takes none away.
* `RowUnlessEof`, `StatementsOwned`: of queries alone.  Both fail with statement
  objects in the program, the first by finding 1, the second by the assignment
  that overwrites a handle; therefore they have a run without statement objects.
* `NothingLost`, `StatementOwnership`, `ConnectionOwnership`: with the demo's
  discipline the concrete objects refine `HandleOwnership`.
* `LeavingReleasesAll`: a liveness property; once a scope is being left all
  handles are freed in the end.
* `CursorInRange`, `ReadsOwnRow`, `TableOwnership`: of result sets.  Whether the
  program also seeks in results without rows is a variable, `seeksEmpty`.  If it
  does, the first two say nothing of the objects without rows (see the remarks),
  but still everything of the others: copies and assignments do not carry the
  defect over.
* `RowAtCursor`, `RowsKnown`, `EndAfterLastRow`, `ResultOwnership`: of MySQL
  queries.  The program of this module keeps the rule of the headers that the
  source of a copy, and a cleared query, are not used again.
* `SendsWhatWasBound`, `MembersAgree`, `StatementOwnership`: of MySQL
  statements.  The first joins the array to the memory it points to and to the
  library's parameter count; it depends on all statement objects, which share
  the statics.  The program clears a statement before it assigns to it and
  binds to compiled ones.  With `Careful` it also leaves alone the memory of
  pending entries: one integer and one double at a time, as in the demo.

* `NoHiddenTransaction`, `TransactionIsReal`: the counter against the server's
  transaction, in both directions.  `AllOrNothing`: the refinement of
  `UnitOfWork`; it fails if `execDML()` does not look at the server's answer, and
  also if the client reconnects inside of a transaction, because the updates
  that follow are then kept alone.
* `ReopensOnlyWhenAsked`: reconnection only for programs that gave the option.
  "With the value true" would not hold (see the remarks).
* `LostCommitLosesLink`: how far finding 4 reaches.  A commit that returns and
  has not kept what the program was told is done has lost the link as well.
* `AsksOwnDatabase`: `tableExists()` asks for the right database, of the session
  that selected last; of the others it does not.
* `CounterJoins`: polling `nThreads` is as good as joining the worker, failures
  of open, of commands and of the file included.  `Terminates`: every phase ends
  unless a thread could not be started.
* `EveryStepProgresses`: nothing is tried twice, a refused command included, so
  that the only wait is main's poll.
* `UpdatesAreKept`, `NothingLeftOpen`: what is true of the demo without failures,
  although main's update may go through the first connection, the worker's, or
  none.  The first is about both writers: what main reports, and what a writing
  worker has done when it is gone.
* `CrashWindow`: where the shared handle may be NULL, with failures: before the
  first open, inside of a worker's, and after an open that failed.  Elsewhere
  `db` is the connection opened last.

### Bounds

* Two database objects and connections, two queries, two statement objects and
  two statements: enough for a move between two objects while a third is
  affected, for a statement on the other connection, and for an address that is
  handed out again.  `queries` has three queries and statements, so that an
  assignment can free, move and leave a bystander.
* `client` has one database object, because connections do not interact except
  through their statements, and checks both refinements and liveness, without
  symmetry.
* Result sets and MySQL queries: three objects, two tables and three results; up
  to two rows (`MaxRows`), which gives a first, a last and no row; two columns;
  cursors and offsets up to 7 and 3 (`ULONG_MAX`), larger than any valid index,
  so that both clamps and the wrap occur.
* MySQL statements: two objects and two handles, up to two parameters, one
  string, two values.  Two objects can have entries that point to one static,
  and two parameters let the second binding change the first.  `MaxPos` stands
  for the limit 1024 of `realBind()`.  `aliased` needs no string.
* Sessions: two, of which one uses transactions (`Working`); the other connects,
  selects and queries, for the shared `s_DBName`.  Two databases, eight
  connection strings: complete ones with each value of the switch and with an
  odd port, and one of each kind that is refused.  Two updates in a transaction
  (`MaxUpdates`), so that one can be lost without the other; a counter from -1
  to 2 (`MaxCount`), one more in each direction than any rule allows.
  `silent_commit` needs one session.
* The demo: its three phases, `write`, `write`, `read`, and two failures
  (`MaxFaults`), so that one can hit main and one a worker, or two workers.
* The proofs remove these bounds for everything they cover.

### Fairness

`client` assumes weak fairness of `Unwind`: C++ runs every destructor of a scope
that is left, by `return` as by an exception.  Nothing obliges the program to
make a call, to leave or to enter again.

`demo_mt` assumes weak fairness of each thread: the scheduler runs both, every
sleep of the code is finite, and a busy timeout passes, after which a refused
command returns.  No fairness is assumed of a lock becoming free.  No other
specification states any.

## What is proved

Everything is proved for arbitrary sets of objects and handles, and any numbers
of rows and columns.  The assumptions are those of the modules: NULL and the
unset pointer are no handles, the classes' objects are distinct, and a result's
cells can be counted by the integer that indexes them.

* **`CppSQLite3Proofs`.**  The inductive invariant `IInv` joins the five
  ownership invariants and `PhaseByOwner`.  None is inductive alone: a freed
  statement leaves no dangling pointer only because it had one owner; a new
  statement is nobody else's only because owned ones are alive; a closed
  connection leaves no live statement only because the library refuses
  otherwise and no second object holds it.  From it: `Ownership`,
  `TypeCorrectness` and, as a property of steps, `ThrowsKeepHandles`.
* **`CppSQLite3ClientProofs`.**  Every client step is a step of `CppSQLite3`,
  so `IInv` holds.  Then every step maps to obtaining, moving or releasing one
  statement, or to nothing, and the same for connections
  (`StatementsImplementOwnership`, `ConnectionsImplementOwnership`).  That no
  handle is lost (`StatementsNotLost`, `LosesNothing`) is not proved again: it is
  `HandleOwnership!AlwaysExclusive` under the refinement mapping.  The
  connections need the statements first, because `close()` succeeds in a
  destructor only when no statement is lost.  From there the safety core of
  `LeavingReleasesAll`: while a scope is being left each step frees exactly one
  handle, connections last, and it ends with none (`LeavingFrees`); there are at
  most as many as objects, and each step leaves one fewer (`LeavingIsBounded`).
* **`CppResultSetProofs`.**  `IInv` adds to the type that tables are not shared,
  that objects know the size of their table (`SizeKnown`) and that cursors are
  in range.  `IndexInTable` is the arithmetic behind `ReadsStayOwn`:
  `row * cols + cols + field` neither wraps nor leaves the row.  The clamp of
  `seekRow()` is right whenever there are rows.  `CursorStaysInRange` and
  `ReadsStayOwn` hold for every program, `seeksEmpty` or not, with the exception
  their properties state.
* **`CppMySQLQueryProofs`.**  `RowAtCursor` relates an object to the cursor of
  its result, which another object could move: the invariant needs that results
  are not shared.  `CursorWithin` makes the row before the end the last one, for
  `EndsAfterLastRow`.  The refinement is `ImplementsOwnership`.
* **`CppMySQLStatementProofs`.**  The invariant adds `PendingIntact` to the
  members' agreement: what every entry points to is still what was passed.  An
  execution needs that for each parameter of its statement, so it also needs
  that the array is as long as the library's parameter count; another object's
  `compileStatement()` cannot change that count because handles are not shared.
  `SendsAsBound` has `Careful` as its premise; `MembersAlwaysAgree` and
  `ImplementsOwnership` have none.
* **`CppMySQLDBProofs`.**  `SessionInv` relates the handle, the server's session,
  the counter and what the program knows.  Its core is that the client knows of
  every transaction the server has open (`Linked`), and that while the program
  has not been told of a failure the server has a transaction with exactly the
  updates that succeeded (`Counted`).  The first is why a dropped connection is
  never silently reopened in the middle of a transaction; the second is why a
  commit keeps all of it.  Both are needed at once: a lost reply takes the
  transaction from the server, and only the flag on the client keeps the next
  command from starting a session of its own.  `Fits` states what an outcome of
  the library does to one session, and one lemma per kind of command shows it;
  `UnitStep` then maps a step to beginning, updating, ending or abandoning a
  unit of work, or to nothing (`UnitsOfWork`).  `WholeTransactions` is the
  invariant of `UnitOfWork` (`Whole`: all or nothing kept, nothing before the
  end), inherited through the mapping.  `LostCommitShows` goes through the
  outcomes of `mysql_commit()` once more, with the link in view.
* **`CppDBDemoMTProofs`.**  `Control` ties the counter to the positions of both
  threads and holds with any number of failures.  `Orderly` holds as long as
  nothing has failed: only the running worker's connection has a transaction, a
  lock or a query, and the worker's position tells which.  `UpdatesAreKept` needs
  it because main's update may be pending in that transaction, and must be
  committed with it; it also needs `PhaseInv`, which remembers the phases that
  are over: their workers' updates are in the file.  `OnlyInOpen` follows from
  `PhaseInv` too and holds with failures.  `AlwaysProgresses` and `ProgressBound`
  give a measure that every step raises and that is bounded by `16 N + 14`: the
  part of `Terminates` that needs no fairness.  Phases are a sequence of any
  length.
* **Without statement objects** (`Ss = {}`) `CppSQLite3Proofs` also shows
  `RowUnlessEof` and `StatementsOwned`, the two properties of the run `queries`,
  as corollaries of the next point (`QueriesHaveRow`, `QueriesLeakNothing`).
* **Only this call.**  A run that finds a violation shows one way to get there.
  Four theorems say that there is no other, in any program of the module:
  - `OnlyEmptyExecQueryHidesEof` (finding 1): `RowUnlessEof` is broken only by
    `CppSQLite3Statement::execQuery()` without rows;
  - `OnlyOverwritingLeaks`: `StatementsOwned` only by assigning to a statement
    object that holds a statement (`CppSQLite3.cpp:753`);
  - `OnlyAssignLeavesRow` (finding 2): `EofWithoutResult` only by assigning a
    query without result to one that is not at its end;
  - `OnlyOverwritingMissends` (finding 3), without `Careful`: `PendingIntact` is
    broken only by a write to the memory of a pending entry, and an execution
    sends something else only when it is broken.
  They are properties of steps from the inductive invariant of the module, which
  holds whether or not the property itself still does.
* **`HandleOwnership`.**  In every state the live handles are exactly those some
  object holds, each held once (`AlwaysExclusive`).

In `CppMySQLDB` and `CppDBDemoMT`: NULL is no session, database, handle or
connection, the working sessions are sessions, the databases named in connection
strings are among the databases, bounds are natural numbers, and the demo has at
least one phase.

Only model-checked: `LeavingReleasesAll` and `Terminates`, since liveness under
fairness, and the enabling conditions it rests on, are beyond the prover.  Of
both, the steps are proved to bring the end nearer and to be bounded; that a
step is always possible and taken is what TLC adds.  Induction over data does
not occur.

## Findings

1. **`eof()` false without rows** (`CppSQLite3.cpp:795`).  The branch "no rows"
   of `CppSQLite3Statement::execQuery` passes `false`, `CppSQLite3DB::execQuery`
   passes `true`.
2. **Row of a freed result** (`CppMySQL.cpp:474`).  `operator=` leaves `m_Row`
   when the new query has no result.
3. **Integers share one static** (`CppMySQL.cpp:1041`, also 1048).  Every integer
   parameter is sent as the last integer bound, and doubles likewise.
4. **A commit that fails returns** (`CppMySQL.cpp:337`).  `commitTransaction()`
   does not look at the result of `mysql_commit()`.  `rollback()` does not
   either, which is harmless: what is not committed is lost anyway.

### Remarks

Defects that a single call shows, and for which there is no run:

* `sqlite3_errmsg()` is passed to the exception with `isSqlite3_free` true
  (`CppSQLite3.cpp:183`, also 119, 508, 520), so that memory of the connection
  is given to `sqlite3_free`, against the comment at `CppSQLite3.cpp:50`
  (`FreesOnlyMalloced`).
* Copies and assignments of queries do not carry `m_pDB`, so that a failing
  `nextRow()` or `clear()` asks an unset pointer or another connection for the
  message (`CppSQLite3.cpp:508`; `MessageOfFailingConnection`).
* `seekRow()` in a result without rows computes `m_nRows - 1`, which wraps, and
  `eof()` stays false (`CppSQLite3.cpp:700`, `CppMySQL.cpp:885`; `CursorInRange`
  without its exception for `seeksEmpty`).
* `auto-reconnect=false` passes the text `false` where the client library reads
  a `my_bool` (`CppMySQL.cpp:216`): reconnection is enabled.
* A negative port passes the check at `CppMySQL.cpp:188`.
* `tableExists()` of a session asks for the database any other session has
  selected since (`CppMySQL.cpp:86`), and `connect()` with arguments does not
  record its database at all.
* The headings of the multi-threaded demo (`CppDBDemoMT.cpp:171, 191, 211`)
  expect main or the worker to wait for the other's lock.  The worker opens the
  object main uses, two seconds earlier; main's update then runs on the worker's
  connection and inside of its transaction, and is committed with it.
* While the worker is inside `open()` the shared handle is NULL, and
  `setBusyTimeout()` (`CppSQLite3.cpp:277`) does not check it.
* The result of `_beginthread` (`CppDBDemoMT.cpp:173`) is ignored; without a
  worker main polls for ever.

A remark on the tests: the disabled block in `DBTests.cpp:272-303` blames
bindings for a refused `close()`.  In the model no binding or reset keeps a
connection open; a live statement does, and the query `q` declared at line 246
is still alive there.

## What is not modelled

* `CppMySQLException`: its copy constructor tests and deletes a pointer it has
  not set (`CppMySQL.cpp:50`).  The first copy is undefined and nothing that
  follows can be said; without copies there is nothing to say.
* `setOptions()` and `compileStatement()` on a closed MySQL session pass NULL to
  the client library, which ends the process.  An operation that `checkDB()`
  refuses changes nothing.  Neither is written as a step.
* Getters: lookups of columns by name and conversions of values, NULL values
  among them, change no state; a null is stored as the text `NULL`
  (`CppMySQL.cpp:770`) and a text of that value reads as a null.
* Splitting a connection string into characters; options other than
  reconnection, user, port and database.
* Time: the lengths of sleeps and busy timeouts.  Which of main and worker waits
  longer decides only which of the modelled outcomes is usual.
* The multi-threaded demo with MySQL: two threads in one `MYSQL` handle, which
  its library does not allow, so that no outcome can be justified.
  `LongQueryThreadProc` is never started.
* `DatabaseLayer.h` (pure virtual declarations and type names), the Windows
  shims, the unit tests, project files.
* The vendored headers of SQLite, MySQL and CppUnit, which make up most of the
  lines under `src/`: declarations of third-party code.  What the wrapper relies
  on is modelled from its calls, in `SQLite3Lib` and in the definitions marked
  external.
