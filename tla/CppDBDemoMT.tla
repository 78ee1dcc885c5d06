---------------------------- MODULE CppDBDemoMT ----------------------------
(* src/Demos/CppDBDemoMT.cpp, SQLite build: the main thread and, in each   *)
(* phase, one worker share the global objects db and nThreads without a    *)
(* lock.  The worker opens db again, under the feet of the main thread     *)
(* that sets its busy timeout, updates through it and polls nThreads.      *)
(*                                                                         *)
(* Time is not modelled: the sleeps and busy timeouts order nothing, and a *)
(* command that waits for a lock may end BUSY at any moment.  A command of *)
(* SQLite is one step: the library's mutexes make it so.                   *)
EXTENDS Integers, Sequences

CONSTANTS
    Phases,   \* the procedure of the worker of each phase: "write" or "read"
    NULL,
    MaxFaults \* bound on failures of the file, of memory, of thread creation

N == Len(Phases)

(* Connection 0 is opened by main, connection i by the worker of phase i.  *)
Conns == 0..N

ASSUME DemoAssumption ==
    /\ Phases \in Seq({"write", "read"}) /\ Phases # <<>>
    /\ NULL \notin Conns
    /\ MaxFaults \in Nat

(* One update of main and one of a writing worker in each phase.           *)
Updates == {"main", "worker"} \X (1..N)

VARIABLES
    m_pDB,    \* of the global object db
    nThreads,
    phase,    \* 0 before the first worker is started
    main,     \* where the main thread is
    handle,   \* the argument of main's sqlite3_exec
    worker,   \* where the worker is
    broken,   \* the connections whose opening failed
    txn,      \* the connections that are not in autocommit mode
    reserved, \* the connections that hold the lock of a writer
    reading,  \* the connections with a started query
    pending,  \* what each connection has updated and not committed
    file,     \* the updates in the database for good
    reported, \* the updates main has printed as done
    faults

dbVars == <<broken, txn, reserved, reading, pending, file>>
vars == <<m_pDB, nThreads, phase, main, handle, worker, dbVars, reported, faults>>

Init ==
    /\ m_pDB = NULL /\ nThreads = 0 /\ phase = 0
    /\ main = "setup" /\ handle = NULL /\ worker = "none"
    /\ broken = {} /\ txn = {} /\ reserved = {} /\ reading = {}
    /\ pending = [c \in Conns |-> {}]
    /\ file = {} /\ reported = {} /\ faults = 0

-----------------------------------------------------------------------------
(* SQLite on a file with a rollback journal.                               *)
Fault == faults < MaxFaults /\ faults' = faults + 1
NoFault == UNCHANGED faults

(* An update needs the one lock of a writer; outside of a transaction it   *)
(* commits, for which no other connection may be reading.                  *)
Blocked(c) == reserved \ {c} # {} \/ (c \notin txn /\ reading \ {c} # {})

UpdateDone(c, u) ==
    /\ c \notin broken /\ ~Blocked(c)
    /\ \/ /\ c \in txn
          /\ pending' = [pending EXCEPT ![c] = @ \union {u}]
          /\ reserved' = reserved \union {c}
          /\ UNCHANGED file
       \/ /\ c \notin txn
          /\ file' = file \union {u}
          /\ UNCHANGED <<pending, reserved>>
    /\ UNCHANGED <<broken, txn, reading>> /\ NoFault

(* BUSY, or the handle is NULL or broken: a failure that changes nothing.  *)
UpdateRefused(c) ==
    /\ c = NULL \/ c \in broken \/ Blocked(c)
    /\ UNCHANGED dbVars /\ NoFault

RollsBack(c) ==
    /\ txn' = txn \ {c} /\ reserved' = reserved \ {c}
    /\ pending' = [pending EXCEPT ![c] = {}]
    /\ UNCHANGED <<broken, reading, file>>

(* An I/O error undoes the statement or the whole transaction.             *)
UpdateFails(c) ==
    /\ c \in Conns \ broken /\ ~Blocked(c) /\ Fault
    /\ \/ UNCHANGED dbVars
       \/ RollsBack(c)

(* Only a connection in the same phase reads, which is c itself: a commit  *)
(* is never BUSY.                                                          *)
Commit(c) ==
    /\ c \in txn
    /\ file' = file \union pending[c]
    /\ txn' = txn \ {c} /\ reserved' = reserved \ {c}
    /\ pending' = [pending EXCEPT ![c] = {}]
    /\ UNCHANGED <<broken, reading>>

-----------------------------------------------------------------------------
(* The main thread.  Open, create the table and fill it in a transaction;  *)
(* an exception leads to the end.                                          *)
Setup ==
    /\ main = "setup"
    /\ \/ m_pDB' = 0 /\ main' = "start" /\ UNCHANGED <<broken, txn, reserved>> /\ NoFault
       \/ /\ Fault /\ main' = "ended"
          /\ \/ m_pDB' \in {0, NULL} /\ broken' = {0} /\ UNCHANGED <<txn, reserved>>
             \/ m_pDB' = 0 /\ txn' \in {{}, {0}} /\ reserved' = txn' /\ UNCHANGED broken
    /\ UNCHANGED <<nThreads, phase, handle, worker, reading, pending, file, reported>>

(* The result of _beginthread is not looked at.                            *)
StartWorker ==
    /\ main = "start"
    /\ main' = "timeout" /\ phase' = phase + 1 /\ nThreads' = 1
    /\ \/ worker' = "open" /\ NoFault
       \/ worker' = "refused" /\ Fault
    /\ UNCHANGED <<m_pDB, handle, dbVars, reported>>

MainGoes(from, to) ==
    /\ main = from /\ main' = to
    /\ UNCHANGED <<nThreads, phase, worker>>

(* setBusyTimeout() does not check the handle.                             *)
SetBusyTimeout ==
    /\ MainGoes("timeout", IF m_pDB = NULL THEN "crashed" ELSE "check")
    /\ UNCHANGED <<m_pDB, handle, dbVars, reported, faults>>

(* execDML() reads m_pDB three times: in checkDB(), for sqlite3_exec, and  *)
(* for sqlite3_changes.  An exception is caught and printed.               *)
CheckDB ==
    /\ MainGoes("check", IF m_pDB = NULL THEN "poll" ELSE "fetch")
    /\ UNCHANGED <<m_pDB, handle, dbVars, reported, faults>>

FetchHandle ==
    /\ MainGoes("fetch", "exec")
    /\ handle' = m_pDB
    /\ UNCHANGED <<m_pDB, dbVars, reported, faults>>

(* Mutant: a refused update is tried again.                                *)
ExecRetries ==
    /\ \/ MainGoes("exec", "changes") /\ handle # NULL /\ UpdateDone(handle, <<"main", phase>>)
       \/ MainGoes("exec", "check") /\ UpdateRefused(handle)
    /\ UNCHANGED <<m_pDB, handle, reported>>

Exec ==
    /\ \/ MainGoes("exec", "changes") /\ handle # NULL /\ UpdateDone(handle, <<"main", phase>>)
       \/ MainGoes("exec", "poll") /\ (UpdateRefused(handle) \/ UpdateFails(handle))
    /\ UNCHANGED <<m_pDB, handle, reported>>

Changes ==
    /\ MainGoes("changes", IF m_pDB = NULL THEN "crashed" ELSE "poll")
    /\ reported' = IF m_pDB = NULL THEN reported ELSE reported \union {<<"main", phase>>}
    /\ UNCHANGED <<m_pDB, handle, dbVars, faults>>

(* Mutant: the loop is missing.                                            *)
LeavePollAtOnce ==
    /\ MainGoes("poll", IF phase < N THEN "start" ELSE "ended")
    /\ UNCHANGED <<m_pDB, handle, dbVars, reported, faults>>

(* while (nThreads).                                                       *)
LeavePoll ==
    /\ nThreads = 0
    /\ MainGoes("poll", IF phase < N THEN "start" ELSE "ended")
    /\ UNCHANGED <<m_pDB, handle, dbVars, reported, faults>>

MainStep ==
    Setup \/ StartWorker \/ SetBusyTimeout \/ CheckDB \/ FetchHandle \/ Exec \/ Changes
        \/ LeavePoll

-----------------------------------------------------------------------------
(* The workers, while the process lives.  Every exception leads to the     *)
(* last statement, nThreads--, and no handler rolls back.                  *)
WorkerGoes(from, to) ==
    /\ main # "crashed" /\ worker = from /\ worker' = to
    /\ UNCHANGED <<phase, main, handle, reported>>

(* sqlite3_open sets the handle to NULL first.                             *)
OpenBegins ==
    /\ WorkerGoes("open", "opening")
    /\ m_pDB' = NULL
    /\ UNCHANGED <<nThreads, dbVars, faults>>

OpenEnds ==
    /\ \/ /\ WorkerGoes("opening", IF Phases[phase] = "write" THEN "begin" ELSE "query")
          /\ m_pDB' = phase /\ UNCHANGED broken /\ NoFault
       \/ /\ WorkerGoes("opening", "leave")
          /\ m_pDB' \in {phase, NULL} /\ broken' = broken \union {phase} /\ Fault
    /\ UNCHANGED <<nThreads, txn, reserved, reading, pending, file>>

(* "begin transaction;" takes no lock.                                     *)
WriterBegins ==
    /\ WorkerGoes("begin", "update")
    /\ txn' = txn \union {phase}
    /\ UNCHANGED <<m_pDB, nThreads, broken, reserved, reading, pending, file, faults>>

WriterUpdates ==
    /\ \/ WorkerGoes("update", "commit") /\ UpdateDone(phase, <<"worker", phase>>)
       \/ WorkerGoes("update", "leave") /\ (UpdateRefused(phase) \/ UpdateFails(phase))
    /\ UNCHANGED <<m_pDB, nThreads>>

(* Mutant: the transaction is not committed.                               *)
WriterForgets ==
    /\ WorkerGoes("commit", "leave")
    /\ UNCHANGED <<m_pDB, nThreads, dbVars, faults>>

(* There is nothing to commit when an error of main's statement has rolled *)
(* back the transaction of the connection both use.                        *)
WriterCommits ==
    /\ WorkerGoes("commit", "leave")
    /\ \/ Commit(phase) /\ NoFault
       \/ phase \in txn /\ RollsBack(phase) /\ Fault
       \/ phase \notin txn /\ UNCHANGED dbVars /\ NoFault
    /\ UNCHANGED <<m_pDB, nThreads>>

(* The query keeps its shared lock; it is refused while main commits       *)
(* through another connection.                                             *)
ReaderQueries ==
    /\ \/ WorkerGoes("query", "reading") /\ reading' = reading \union {phase} /\ NoFault
       \/ /\ WorkerGoes("query", "leave") /\ UNCHANGED reading
          /\ (main = "exec" /\ handle \in Conns \ {phase} /\ NoFault) \/ Fault
    /\ UNCHANGED <<m_pDB, nThreads, broken, txn, reserved, pending, file>>

(* Mutant: the query lives on.                                             *)
ReaderKeeps ==
    /\ WorkerGoes("reading", "leave")
    /\ UNCHANGED <<m_pDB, nThreads, dbVars, faults>>

(* The end of the try block destroys the query.                            *)
ReaderReleases ==
    /\ WorkerGoes("reading", "leave")
    /\ reading' = reading \ {phase}
    /\ UNCHANGED <<m_pDB, nThreads, broken, txn, reserved, pending, file, faults>>

(* Mutant: an exception leaves the procedure.                              *)
WorkerLeavesUncounted ==
    /\ WorkerGoes("leave", "done")
    /\ UNCHANGED <<m_pDB, nThreads, dbVars, faults>>

(* Mutant: the worker closes db, as the main thread might still use it.    *)
WorkerCloses ==
    /\ WorkerGoes("leave", "done")
    /\ nThreads' = nThreads - 1
    /\ m_pDB' = NULL
    /\ UNCHANGED <<dbVars, faults>>

WorkerLeaves ==
    /\ WorkerGoes("leave", "done")
    /\ nThreads' = nThreads - 1
    /\ UNCHANGED <<m_pDB, dbVars, faults>>

WorkerStep ==
    OpenBegins \/ OpenEnds \/ WriterBegins \/ WriterUpdates \/ WriterCommits
        \/ ReaderQueries \/ ReaderReleases \/ WorkerLeaves

-----------------------------------------------------------------------------
Next == MainStep \/ WorkerStep

(* Both threads run, and a busy timeout passes.                            *)
Fairness == WF_vars(MainStep) /\ WF_vars(WorkerStep)

Spec == Init /\ [][Next]_vars /\ Fairness

-----------------------------------------------------------------------------
TypeOK ==
    /\ m_pDB \in Conns \union {NULL} /\ handle \in Conns \union {NULL}
    /\ nThreads \in {0, 1} /\ phase \in 0..N
    /\ main \in {"setup", "start", "timeout", "check", "fetch", "exec", "changes", "poll",
                 "ended", "crashed"}
    /\ worker \in {"none", "refused", "open", "opening", "begin", "update", "commit",
                   "query", "reading", "leave", "done"}
    /\ broken \subseteq Conns /\ txn \subseteq Conns
    /\ reserved \subseteq Conns /\ reading \subseteq Conns
    /\ pending \in [Conns -> SUBSET Updates]
    /\ file \subseteq Updates /\ reported \subseteq Updates
    /\ faults \in 0..MaxFaults

WorkerRuns == worker \notin {"none", "done", "refused"}

(* Two workers never run at once, nobody waits for a worker that has gone, *)
(* and main neither starts the next one nor ends while a worker can still  *)
(* use db: the polled counter is as good as a join.                        *)
CounterJoins ==
    /\ main \in {"setup", "start", "ended"} => ~WorkerRuns
    /\ main # "crashed" /\ worker # "refused" => (nThreads = 1 <=> WorkerRuns)

(* Without failures no update is lost.  What main reports as done,         *)
(* whichever connection it went through, is in the database, or it is in   *)
(* the open transaction of the worker; and the update of a writing worker  *)
(* is in the database when the worker has gone: it is never refused.       *)
UpdatesAreKept ==
    faults = 0 =>
        /\ \A u \in reported :
              u \in file \/ (worker \in {"update", "commit"} /\ u \in pending[phase])
        /\ \A i \in 1..phase :
              Phases[i] = "write" /\ (i < phase \/ ~WorkerRuns) => <<"worker", i>> \in file

(* Without failures, no connection is left in a transaction, or with a     *)
(* lock, when the worker has gone: the connections that db does not know   *)
(* any more are harmless.                                                  *)
NothingLeftOpen ==
    faults = 0 /\ ~WorkerRuns => txn = {} /\ reserved = {} /\ reading = {}

(* The connection that was opened last, successfully or not.               *)
LastOpened == IF worker \in {"open", "refused"} THEN phase - 1 ELSE phase

(* db has no handle only before the first open, inside of a worker's open, *)
(* and after an open that failed: only there the process can crash, other  *)
(* failures notwithstanding.  Everywhere else db is the newest connection. *)
CrashWindow ==
    main # "setup" /\ worker # "opening" =>
        m_pDB = LastOpened \/ (m_pDB = NULL /\ LastOpened \in broken)

(* How far the program is.  A phase is at most 8 steps of main, which ends *)
(* it by going on to "start", and at most 7 of its worker.                 *)
MainAt == [setup |-> 0, timeout |-> 1, check |-> 2, fetch |-> 3, exec |-> 4, changes |-> 5,
           poll |-> 6, start |-> 7, ended |-> 7, crashed |-> 7]
WorkerAt == [none |-> 0, refused |-> 0, open |-> 1, opening |-> 2, begin |-> 3, query |-> 3,
             update |-> 4, reading |-> 4, commit |-> 5, leave |-> 6, done |-> 7]
Progress == phase * 16 + MainAt[main] + WorkerAt[worker]

(* Nothing is ever tried again: each step, a refused or failed command     *)
(* included, brings one of the threads closer to its end.                  *)
EveryStepProgresses == [][Progress' > Progress]_vars

(* All phases come to an end, whatever fails and whatever locks leaked     *)
(* connections still hold, unless a worker could not be started.           *)
Terminates == <>(main \in {"ended", "crashed"} \/ worker = "refused")
=============================================================================
