------------------------- MODULE CppDBDemoMTProofs -------------------------
(* Proofs about CppDBDemoMT, for any number of phases with any workers and *)
(* any number of failures.                                                 *)
EXTENDS CppDBDemoMT, TLAPS

(* The counter and the positions of the two threads.                       *)
Control ==
    /\ nThreads = 1 <=> WorkerRuns \/ worker = "refused"
    /\ main \in {"setup", "start", "ended"} => nThreads = 0
    /\ main = "setup" => phase = 0
    /\ phase = 0 => main \in {"setup", "start", "ended"}
    /\ main = "start" => phase < N

InFileOrPending(u) ==
    u \in file \/ (worker \in {"update", "commit"} /\ u \in pending[phase])

(* Without failures only the connection of the running worker has a        *)
(* transaction, a lock or a query, and its worker knows.                   *)
Orderly ==
    /\ broken = {} /\ worker # "refused"
    /\ txn = IF worker \in {"update", "commit"} THEN {phase} ELSE {}
    /\ reserved \subseteq txn
    /\ reading = IF worker = "reading" THEN {phase} ELSE {}
    /\ main = "changes" => InFileOrPending(<<"main", phase>>)
    /\ \A u \in reported : InFileOrPending(u)

IInv == TypeOK /\ Control /\ (faults = 0 => Orderly)

LEMMA SomePhase == N \in Nat /\ N >= 1
BY DemoAssumption DEF N

THEOREM InitIInv == Init => IInv
PROOF
<1> SUFFICES ASSUME Init PROVE IInv
  OBVIOUS
<1>1. TypeOK
  BY SomePhase, DemoAssumption DEF Init, TypeOK, Conns
<1>2. Control
  BY DEF Init, Control, WorkerRuns
<1>3. Orderly
  BY DEF Init, Orderly
<1> QED BY <1>1, <1>2, <1>3 DEF IInv

-----------------------------------------------------------------------------
(* Commands.                                                               *)
Kept == broken' = broken /\ txn' = txn /\ reserved' = reserved /\ reading' = reading
        /\ pending' = pending /\ file' = file

DbTypes ==
    /\ broken \subseteq Conns /\ txn \subseteq Conns
    /\ reserved \subseteq Conns /\ reading \subseteq Conns
    /\ pending \in [Conns -> SUBSET Updates] /\ file \subseteq Updates
    /\ faults \in 0..MaxFaults

LEMMA FaultTypes ==
    ASSUME faults \in 0..MaxFaults, Fault \/ NoFault
    PROVE  faults' \in 0..MaxFaults /\ (faults' = 0 => faults = 0 /\ NoFault)
BY DemoAssumption DEF Fault, NoFault

LEMMA Doing ==
    ASSUME DbTypes, NEW c \in Conns, NEW u \in Updates, UpdateDone(c, u)
    PROVE  DbTypes' /\ faults' = faults /\ broken' = broken /\ txn' = txn /\ reading' = reading
           /\ file \subseteq file' /\ (\A d \in Conns : pending[d] \subseteq pending'[d])
           /\ \/ c \in txn /\ u \in pending'[c] /\ reserved' = reserved \union {c}
              \/ c \notin txn /\ u \in file' /\ reserved' = reserved
PROOF
<1>1. CASE c \in txn
  <2>1. /\ pending' = [pending EXCEPT ![c] = pending[c] \union {u}]
        /\ reserved' = reserved \union {c} /\ file' = file
        /\ broken' = broken /\ txn' = txn /\ reading' = reading /\ faults' = faults
    BY <1>1 DEF UpdateDone, NoFault
  <2> QED BY <1>1, <2>1 DEF DbTypes
<1>2. CASE c \notin txn
  <2>1. /\ file' = file \union {u} /\ pending' = pending /\ reserved' = reserved
        /\ broken' = broken /\ txn' = txn /\ reading' = reading /\ faults' = faults
    BY <1>2 DEF UpdateDone, NoFault
  <2> QED BY <1>2, <2>1 DEF DbTypes
<1> QED BY <1>1, <1>2

LEMMA Refusing ==
    ASSUME NEW c, UpdateRefused(c)
    PROVE  Kept /\ faults' = faults
BY DEF UpdateRefused, NoFault, dbVars, Kept

LEMMA Failing ==
    ASSUME DbTypes, NEW c \in Conns, UpdateFails(c)
    PROVE  DbTypes' /\ faults' # 0
PROOF
<1>1. faults' = faults + 1 /\ faults' \in 0..MaxFaults
  BY DemoAssumption DEF UpdateFails, Fault, DbTypes
<1>2. CASE UNCHANGED dbVars
  BY <1>1, <1>2 DEF dbVars, DbTypes
<1>3. CASE RollsBack(c)
  BY <1>1, <1>3 DEF RollsBack, DbTypes
<1>4. faults' # 0
  BY <1>1 DEF DbTypes
<1> QED BY <1>2, <1>3, <1>4 DEF UpdateFails

LEMMA Types == TypeOK <=>
    /\ DbTypes
    /\ m_pDB \in Conns \union {NULL} /\ handle \in Conns \union {NULL}
    /\ nThreads \in {0, 1} /\ phase \in 0..N
    /\ main \in {"setup", "start", "timeout", "check", "fetch", "exec", "changes", "poll",
                 "ended", "crashed"}
    /\ worker \in {"none", "refused", "open", "opening", "begin", "update", "commit",
                   "query", "reading", "leave", "done"}
    /\ reported \subseteq Updates
BY DEF TypeOK, DbTypes

-----------------------------------------------------------------------------
(* The main thread.                                                        *)
LEMMA SetupOwn == IInv /\ Setup => IInv'
PROOF
<1> SUFFICES ASSUME IInv, Setup PROVE IInv'
  OBVIOUS
<1>1. faults' \in 0..MaxFaults /\ (faults' = 0 => faults = 0 /\ NoFault)
  BY FaultTypes DEF Setup, IInv, TypeOK
<1>2. TypeOK'
  <2>1. 0 \in Conns
    BY SomePhase DEF Conns
  <2>2. m_pDB' \in {0, NULL} /\ main' \in {"start", "ended"}
    BY DEF Setup
  <2>3. broken' \subseteq Conns /\ txn' \subseteq Conns /\ reserved' \subseteq Conns
    BY <2>1 DEF Setup, IInv, TypeOK
  <2>4. /\ nThreads' = nThreads /\ phase' = phase /\ handle' = handle /\ worker' = worker
        /\ reading' = reading /\ pending' = pending /\ file' = file /\ reported' = reported
    BY DEF Setup
  <2> QED BY <1>1, <2>1, <2>2, <2>3, <2>4 DEF IInv, TypeOK
<1>3. Control'
  BY SomePhase DEF IInv, TypeOK, Control, Setup, WorkerRuns
<1>4. ASSUME faults' = 0 PROVE Orderly'
  <2>1. faults = 0 /\ NoFault
    BY <1>1, <1>4
  <2>2. /\ m_pDB' = 0 /\ main' = "start" /\ broken' = broken /\ txn' = txn
        /\ reserved' = reserved /\ worker' = worker /\ phase' = phase /\ reading' = reading
        /\ pending' = pending /\ file' = file /\ reported' = reported
    BY <2>1 DEF Setup, Fault, NoFault
  <2>3. 0 # NULL
    BY DemoAssumption, SomePhase DEF Conns
  <2> QED BY <2>1, <2>2, <2>3 DEF IInv, Orderly, InFileOrPending
<1> QED BY <1>2, <1>3, <1>4 DEF IInv

LEMMA StartWorkerOwn == IInv /\ StartWorker => IInv'
PROOF
<1> SUFFICES ASSUME IInv, StartWorker PROVE IInv'
  OBVIOUS
<1>1. faults' \in 0..MaxFaults /\ (faults' = 0 => faults = 0 /\ NoFault)
  BY FaultTypes DEF StartWorker, IInv, TypeOK
<1>2. /\ m_pDB' = m_pDB /\ handle' = handle /\ reported' = reported /\ Kept
      /\ main = "start" /\ main' = "timeout" /\ phase' = phase + 1 /\ nThreads' = 1
      /\ worker' \in {"open", "refused"}
  BY DEF StartWorker, dbVars, Kept
<1>3. phase' \in 0..N /\ phase' # 0 /\ phase' = phase + 1
  BY <1>2, SomePhase DEF IInv, TypeOK, Control
<1>4. TypeOK'
  BY <1>1, <1>2, <1>3 DEF IInv, TypeOK, Kept
<1>5. Control'
  BY <1>2, <1>3 DEF Control, WorkerRuns
<1>6. ASSUME faults' = 0 PROVE Orderly'
  <2>1. faults = 0 /\ worker' = "open"
    BY <1>1, <1>6 DEF StartWorker, Fault, NoFault, IInv, TypeOK
  <2>2. ~WorkerRuns
    BY <1>2 DEF IInv, Control
  <2> QED BY <1>2, <2>1, <2>2 DEF IInv, Orderly, InFileOrPending, WorkerRuns, Kept
<1> QED BY <1>4, <1>5, <1>6 DEF IInv

(* A step of main that leaves the worker, the file and the counter alone.  *)
LEMMA QuietStep ==
    ASSUME IInv, NEW from \in {"timeout", "check", "fetch", "exec", "poll"},
           NEW to \in {"check", "fetch", "exec", "poll", "start", "ended", "crashed"},
           MainGoes(from, to), to = "start" => phase < N,
           to \in {"start", "ended"} => nThreads = 0,
           m_pDB' = m_pDB, handle' \in Conns \union {NULL}, reported' = reported,
           Kept, faults' = faults
    PROVE  IInv'
PROOF
<1>1. main = from /\ main' = to /\ nThreads' = nThreads /\ phase' = phase /\ worker' = worker
  BY DEF MainGoes
<1>2. TypeOK'
  BY <1>1 DEF IInv, TypeOK, Kept
<1>3. Control'
  BY <1>1 DEF IInv, Control, WorkerRuns
<1>4. faults' = 0 => Orderly'
  BY <1>1 DEF IInv, Orderly, InFileOrPending, Kept
<1> QED BY <1>2, <1>3, <1>4 DEF IInv

LEMMA ExecOwn == IInv /\ Exec => IInv'
PROOF
<1> SUFFICES ASSUME IInv, Exec PROVE IInv'
  OBVIOUS
<1>1. /\ m_pDB' = m_pDB /\ handle' = handle /\ reported' = reported
      /\ handle \in Conns \union {NULL}
  BY DEF Exec, IInv, TypeOK
<1>2. CASE MainGoes("exec", "poll") /\ UpdateRefused(handle)
  BY <1>1, <1>2, Refusing, QuietStep
<1>3. CASE MainGoes("exec", "poll") /\ UpdateFails(handle)
  <2>1. main = "exec" /\ main' = "poll" /\ nThreads' = nThreads /\ phase' = phase
        /\ worker' = worker
    BY <1>3 DEF MainGoes
  <2>2. DbTypes' /\ faults' # 0
    <3>1. handle \in Conns
      BY <1>3 DEF UpdateFails
    <3> QED BY <1>3, <3>1, Failing, Types DEF IInv
  <2>3. TypeOK'
    BY <1>1, <2>1, <2>2 DEF IInv, TypeOK, DbTypes
  <2>4. Control'
    BY <2>1 DEF IInv, Control, WorkerRuns
  <2> QED BY <2>2, <2>3, <2>4 DEF IInv
<1>4. CASE MainGoes("exec", "changes") /\ handle # NULL /\ UpdateDone(handle, <<"main", phase>>)
  <2>1. main = "exec" /\ main' = "changes" /\ nThreads' = nThreads /\ phase' = phase
        /\ worker' = worker
    BY <1>4 DEF MainGoes
  <2>2. phase \in 1..N /\ <<"main", phase>> \in Updates
    BY <2>1, SomePhase DEF IInv, TypeOK, Control, Updates
  <2>3. /\ DbTypes' /\ faults' = faults /\ broken' = broken /\ txn' = txn
        /\ reading' = reading /\ file \subseteq file'
        /\ \A d \in Conns : pending[d] \subseteq pending'[d]
        /\ \/ handle \in txn /\ <<"main", phase>> \in pending'[handle]
              /\ reserved' = reserved \union {handle}
           \/ handle \notin txn /\ <<"main", phase>> \in file' /\ reserved' = reserved
    BY <1>1, <1>4, <2>2, Doing, Types DEF IInv
  <2>4. TypeOK'
    BY <1>1, <2>1, <2>3 DEF IInv, TypeOK, DbTypes
  <2>5. Control'
    BY <2>1 DEF IInv, Control, WorkerRuns
  <2>6. ASSUME faults' = 0 PROVE Orderly'
    <3>1. Orderly /\ phase \in Conns
      BY <2>2, <2>3, <2>6 DEF IInv, Conns
    <3>2. \A u : InFileOrPending(u) => InFileOrPending(u)'
      BY <2>1, <2>3, <3>1 DEF InFileOrPending
    <3>3. InFileOrPending(<<"main", phase>>)'
      BY <2>1, <2>3, <3>1 DEF InFileOrPending, Orderly
    <3>4. reserved' \subseteq txn'
      BY <2>3, <3>1 DEF Orderly
    <3> QED BY <1>1, <2>1, <2>3, <3>1, <3>2, <3>3, <3>4 DEF Orderly
  <2> QED BY <2>4, <2>5, <2>6 DEF IInv
<1> QED BY <1>2, <1>3, <1>4 DEF Exec

LEMMA ChangesOwn == IInv /\ Changes => IInv'
PROOF
<1> SUFFICES ASSUME IInv, Changes PROVE IInv'
  OBVIOUS
<1>1. /\ main = "changes" /\ main' \in {"crashed", "poll"} /\ nThreads' = nThreads
      /\ phase' = phase /\ worker' = worker /\ m_pDB' = m_pDB /\ handle' = handle
      /\ faults' = faults /\ Kept
      /\ reported' \in {reported, reported \union {<<"main", phase>>}}
  BY DEF Changes, MainGoes, dbVars, Kept
<1>2. <<"main", phase>> \in Updates
  BY <1>1, SomePhase DEF IInv, TypeOK, Control, Updates
<1>3. TypeOK'
  BY <1>1, <1>2 DEF IInv, TypeOK, Kept
<1>4. Control'
  BY <1>1 DEF IInv, Control, WorkerRuns
<1>5. faults' = 0 => Orderly'
  BY <1>1 DEF IInv, Orderly, InFileOrPending, Kept
<1> QED BY <1>3, <1>4, <1>5 DEF IInv

LEMMA MainOwn == IInv /\ MainStep => IInv'
PROOF
<1> SUFFICES ASSUME IInv, MainStep PROVE IInv'
  OBVIOUS
<1>0. m_pDB \in Conns \union {NULL} /\ handle \in Conns \union {NULL} /\ phase \in 0..N
  BY DEF IInv, TypeOK
<1>1. CASE SetBusyTimeout \/ CheckDB
  <2>1. m_pDB' = m_pDB /\ handle' = handle /\ reported' = reported /\ Kept /\ faults' = faults
    BY <1>1 DEF SetBusyTimeout, CheckDB, dbVars, Kept
  <2>2. PICK from \in {"timeout", "check"}, to \in {"check", "crashed", "poll", "fetch"} :
          MainGoes(from, to)
    BY <1>1 DEF SetBusyTimeout, CheckDB
  <2> QED BY <1>0, <2>1, <2>2, QuietStep
<1>2. CASE FetchHandle
  <2>1. m_pDB' = m_pDB /\ handle' = m_pDB /\ reported' = reported /\ Kept /\ faults' = faults
        /\ MainGoes("fetch", "exec")
    BY <1>2 DEF FetchHandle, dbVars, Kept
  <2> QED BY <1>0, <2>1, QuietStep
<1>3. CASE LeavePoll
  <2>1. m_pDB' = m_pDB /\ handle' = handle /\ reported' = reported /\ Kept /\ faults' = faults
        /\ nThreads = 0
    BY <1>3 DEF LeavePoll, dbVars, Kept
  <2>2. PICK to \in {"start", "ended"} : MainGoes("poll", to) /\ (to = "start" => phase < N)
    BY <1>3 DEF LeavePoll
  <2> QED BY <1>0, <2>1, <2>2, QuietStep
<1> QED BY <1>1, <1>2, <1>3, SetupOwn, StartWorkerOwn, ExecOwn, ChangesOwn DEF MainStep

-----------------------------------------------------------------------------
(* The workers.                                                            *)
Running == {"open", "opening", "begin", "update", "commit", "query", "reading", "leave"}

(* What every step of a running worker but the last has in common.         *)
LEMMA Going ==
    ASSUME IInv, NEW from \in Running, NEW to \in Running,
           WorkerGoes(from, to), nThreads' = nThreads
    PROVE  /\ worker = from /\ worker' = to /\ phase' = phase /\ main' = main
           /\ handle' = handle /\ reported' = reported /\ phase \in 1..N /\ phase \in Conns
           /\ main \notin {"setup", "start", "ended", "crashed"}
           /\ Control'
           /\ <<"worker", phase>> \in Updates /\ phase # NULL
PROOF
<1>1. worker = from /\ worker' = to /\ phase' = phase /\ main' = main
      /\ handle' = handle /\ reported' = reported /\ main # "crashed"
  BY DEF WorkerGoes
<1>2. nThreads = 1 /\ main \notin {"setup", "start", "ended"}
  BY <1>1 DEF IInv, Control, WorkerRuns, Running
<1>3. phase \in 1..N /\ phase \in Conns
  BY <1>2, SomePhase DEF IInv, TypeOK, Control, Conns
<1>4. Control'
  BY <1>1, <1>2 DEF IInv, Control, WorkerRuns, Running
<1> QED BY <1>1, <1>2, <1>3, <1>4, DemoAssumption DEF Updates

LEMMA OpenOwn == IInv /\ (OpenBegins \/ OpenEnds) => IInv'
PROOF
<1> SUFFICES ASSUME IInv, OpenBegins \/ OpenEnds PROVE IInv'
  OBVIOUS
<1>1. CASE OpenBegins
  <2>1. WorkerGoes("open", "opening") /\ m_pDB' = NULL /\ nThreads' = nThreads /\ Kept
        /\ faults' = faults
    BY <1>1 DEF OpenBegins, dbVars, Kept
  <2>2. /\ worker = "open" /\ worker' = "opening" /\ phase' = phase /\ main' = main
        /\ handle' = handle /\ reported' = reported /\ Control'
    BY <2>1, Going DEF Running
  <2>3. TypeOK'
    BY <2>1, <2>2 DEF IInv, TypeOK, Kept
  <2>4. faults' = 0 => Orderly'
    BY <2>1, <2>2 DEF IInv, Orderly, InFileOrPending, Kept
  <2> QED BY <2>2, <2>3, <2>4 DEF IInv
<1>2. CASE OpenEnds
  <2>1. PICK to \in {"begin", "query", "leave"} :
          /\ WorkerGoes("opening", to) /\ nThreads' = nThreads
          /\ \/ m_pDB' = phase /\ broken' = broken /\ NoFault /\ to # "leave"
             \/ m_pDB' \in {phase, NULL} /\ broken' = broken \union {phase} /\ Fault
          /\ txn' = txn /\ reserved' = reserved /\ reading' = reading
          /\ pending' = pending /\ file' = file
    BY <1>2 DEF OpenEnds
  <2>2. /\ worker = "opening" /\ worker' = to /\ phase' = phase /\ main' = main
        /\ handle' = handle /\ reported' = reported /\ Control' /\ phase \in Conns
        /\ phase # NULL
    BY <2>1, Going DEF Running
  <2>3. faults' \in 0..MaxFaults /\ (faults' = 0 => faults = 0 /\ NoFault)
    BY <2>1, FaultTypes DEF IInv, TypeOK
  <2>4. TypeOK'
    BY <2>1, <2>2, <2>3 DEF IInv, TypeOK
  <2>5. ASSUME faults' = 0 PROVE Orderly'
    <3>1. faults = 0 /\ m_pDB' = phase /\ broken' = broken /\ to # "leave"
      BY <2>1, <2>3, <2>5 DEF Fault, NoFault
    <3> QED BY <2>1, <2>2, <3>1 DEF IInv, Orderly, InFileOrPending
  <2> QED BY <2>2, <2>4, <2>5 DEF IInv
<1> QED BY <1>1, <1>2

LEMMA WriterOwn == IInv /\ (WriterBegins \/ WriterUpdates \/ WriterCommits) => IInv'
PROOF
<1> SUFFICES ASSUME IInv, WriterBegins \/ WriterUpdates \/ WriterCommits PROVE IInv'
  OBVIOUS
<1>0. DbTypes
  BY Types DEF IInv
<1>1. CASE WriterBegins
  <2>1. /\ WorkerGoes("begin", "update") /\ m_pDB' = m_pDB /\ nThreads' = nThreads
        /\ txn' = txn \union {phase} /\ broken' = broken /\ reserved' = reserved
        /\ reading' = reading /\ pending' = pending /\ file' = file /\ faults' = faults
    BY <1>1 DEF WriterBegins
  <2>2. /\ worker = "begin" /\ worker' = "update" /\ phase' = phase /\ main' = main
        /\ handle' = handle /\ reported' = reported /\ Control' /\ phase \in Conns
    BY <2>1, Going DEF Running
  <2>3. TypeOK'
    BY <2>1, <2>2 DEF IInv, TypeOK
  <2>4. faults' = 0 => Orderly'
    BY <2>1, <2>2 DEF IInv, Orderly, InFileOrPending
  <2> QED BY <2>2, <2>3, <2>4 DEF IInv
<1>2. CASE WriterUpdates
  <2>1. PICK to \in {"commit", "leave"} :
          /\ WorkerGoes("update", to) /\ m_pDB' = m_pDB /\ nThreads' = nThreads
          /\ \/ to = "commit" /\ UpdateDone(phase, <<"worker", phase>>)
             \/ to = "leave" /\ (UpdateRefused(phase) \/ UpdateFails(phase))
    BY <1>2 DEF WriterUpdates
  <2>2. /\ worker = "update" /\ worker' = to /\ phase' = phase /\ main' = main
        /\ handle' = handle /\ reported' = reported /\ Control' /\ phase \in Conns
        /\ <<"worker", phase>> \in Updates /\ phase # NULL
    BY <2>1, Going DEF Running
  <2>3. CASE to = "commit" /\ UpdateDone(phase, <<"worker", phase>>)
    <3>1. /\ DbTypes' /\ faults' = faults /\ broken' = broken /\ txn' = txn
          /\ reading' = reading /\ file \subseteq file' /\ reserved' \subseteq reserved \union {phase}
          /\ \A d \in Conns : pending[d] \subseteq pending'[d]
      BY <1>0, <2>2, <2>3, Doing
    <3>2. TypeOK'
      BY <2>1, <2>2, <3>1 DEF IInv, TypeOK, DbTypes
    <3>3. faults' = 0 => Orderly'
      BY <2>1, <2>2, <2>3, <3>1 DEF IInv, Orderly, InFileOrPending
    <3> QED BY <2>2, <3>2, <3>3 DEF IInv
  <2>4. CASE to = "leave" /\ UpdateRefused(phase)
    <3>1. Kept /\ faults' = faults
      BY <2>4, Refusing
    <3>2. TypeOK'
      BY <2>1, <2>2, <3>1 DEF IInv, TypeOK, Kept
    <3>3. faults # 0
      BY <2>2, <2>4 DEF UpdateRefused, Blocked, IInv, Orderly
    <3> QED BY <2>2, <3>1, <3>2, <3>3 DEF IInv
  <2>5. CASE to = "leave" /\ UpdateFails(phase)
    <3>1. DbTypes' /\ faults' # 0
      BY <1>0, <2>2, <2>5, Failing
    <3>2. TypeOK'
      BY <2>1, <2>2, <3>1 DEF IInv, TypeOK, DbTypes
    <3> QED BY <2>2, <3>1, <3>2 DEF IInv
  <2> QED BY <2>1, <2>3, <2>4, <2>5
<1>3. CASE WriterCommits
  <2>1. /\ WorkerGoes("commit", "leave") /\ m_pDB' = m_pDB /\ nThreads' = nThreads
        /\ \/ Commit(phase) /\ NoFault
           \/ phase \in txn /\ RollsBack(phase) /\ Fault
           \/ phase \notin txn /\ UNCHANGED dbVars /\ NoFault
    BY <1>3 DEF WriterCommits
  <2>2. /\ worker = "commit" /\ worker' = "leave" /\ phase' = phase /\ main' = main
        /\ handle' = handle /\ reported' = reported /\ Control' /\ phase \in Conns
    BY <2>1, Going DEF Running
  <2>3. faults' \in 0..MaxFaults /\ (faults' = 0 => faults = 0 /\ NoFault)
    BY <2>1, FaultTypes DEF IInv, TypeOK
  <2>4. DbTypes'
    <3>1. CASE Commit(phase)
      BY <1>0, <2>2, <2>3, <3>1 DEF Commit, DbTypes
    <3>2. CASE RollsBack(phase)
      BY <1>0, <2>2, <2>3, <3>2 DEF RollsBack, DbTypes
    <3>3. CASE UNCHANGED dbVars
      BY <1>0, <2>3, <3>3 DEF dbVars, DbTypes
    <3> QED BY <2>1, <3>1, <3>2, <3>3
  <2>5. TypeOK'
    BY <2>1, <2>2, <2>4 DEF IInv, TypeOK, DbTypes
  <2>6. ASSUME faults' = 0 PROVE Orderly'
    <3>1. faults = 0 /\ NoFault /\ txn = {phase} /\ Orderly
      BY <2>2, <2>3, <2>6 DEF IInv, Orderly
    <3>2. Commit(phase)
      BY <2>1, <2>3, <2>6, <3>1 DEF Fault, NoFault
    <3>3. /\ file' = file \union pending[phase] /\ txn' = {} /\ reserved' = {}
          /\ broken' = broken /\ reading' = reading
      BY <3>1, <3>2 DEF Commit, Orderly
    <3> QED BY <2>1, <2>2, <3>1, <3>3 DEF Orderly, InFileOrPending
  <2> QED BY <2>2, <2>5, <2>6 DEF IInv
<1> QED BY <1>1, <1>2, <1>3

LEMMA ReaderOwn == IInv /\ (ReaderQueries \/ ReaderReleases) => IInv'
PROOF
<1> SUFFICES ASSUME IInv, ReaderQueries \/ ReaderReleases PROVE IInv'
  OBVIOUS
<1>1. PICK from \in {"query", "reading"}, to \in {"reading", "leave"} :
        /\ WorkerGoes(from, to) /\ m_pDB' = m_pDB /\ nThreads' = nThreads
        /\ broken' = broken /\ txn' = txn /\ reserved' = reserved
        /\ pending' = pending /\ file' = file
        /\ Fault \/ NoFault
        /\ \/ from = "query" /\ to = "reading" /\ reading' = reading \union {phase}
           \/ from = "query" /\ to = "leave" /\ reading' = reading
           \/ from = "reading" /\ to = "leave" /\ reading' = reading \ {phase}
  <2>1. CASE ReaderQueries
    BY <2>1 DEF ReaderQueries
  <2>2. CASE ReaderReleases
    BY <2>2 DEF ReaderReleases, NoFault
  <2> QED BY <2>1, <2>2
<1>2. /\ worker = from /\ worker' = to /\ phase' = phase /\ main' = main
      /\ handle' = handle /\ reported' = reported /\ Control' /\ phase \in Conns
  BY <1>1, Going DEF Running
<1>3. faults' \in 0..MaxFaults /\ (faults' = 0 => faults = 0)
  BY <1>1, FaultTypes DEF IInv, TypeOK
<1>4. TypeOK'
  BY <1>1, <1>2, <1>3 DEF IInv, TypeOK
<1>5. faults' = 0 => Orderly'
  BY <1>1, <1>2, <1>3 DEF IInv, Orderly, InFileOrPending
<1> QED BY <1>2, <1>4, <1>5 DEF IInv

LEMMA LeavesOwn == IInv /\ WorkerLeaves => IInv'
PROOF
<1> SUFFICES ASSUME IInv, WorkerLeaves PROVE IInv'
  OBVIOUS
<1>1. /\ worker = "leave" /\ worker' = "done" /\ phase' = phase /\ main' = main
      /\ handle' = handle /\ reported' = reported /\ nThreads' = nThreads - 1
      /\ m_pDB' = m_pDB /\ faults' = faults /\ Kept
  BY DEF WorkerLeaves, WorkerGoes, dbVars, Kept
<1>2. nThreads = 1 /\ nThreads' = 0
  BY <1>1 DEF IInv, Control, WorkerRuns
<1>3. TypeOK'
  BY <1>1, <1>2 DEF IInv, TypeOK, Kept
<1>4. Control'
  BY <1>1, <1>2 DEF IInv, Control, WorkerRuns
<1>5. faults' = 0 => Orderly'
  BY <1>1 DEF IInv, Orderly, InFileOrPending, Kept
<1> QED BY <1>3, <1>4, <1>5 DEF IInv

LEMMA StepOwn == IInv /\ [Next]_vars => IInv'
PROOF
<1>1. IInv /\ Next => IInv'
  BY MainOwn, OpenOwn, WriterOwn, ReaderOwn, LeavesOwn DEF Next, WorkerStep
<1>2. IInv /\ UNCHANGED vars => IInv'
  BY DEF vars, dbVars, IInv, TypeOK, Control, WorkerRuns, Orderly, InFileOrPending
<1> QED BY <1>1, <1>2

THEOREM Invariance == Spec => []IInv
BY InitIInv, StepOwn, PTL DEF Spec

-----------------------------------------------------------------------------
(* Where the threads go from where they are.                               *)
MainMoves ==
    {<<"setup", "start">>, <<"setup", "ended">>, <<"timeout", "check">>, <<"timeout", "crashed">>,
     <<"check", "fetch">>, <<"check", "poll">>, <<"fetch", "exec">>, <<"exec", "changes">>,
     <<"exec", "poll">>, <<"changes", "poll">>, <<"changes", "crashed">>, <<"poll", "start">>,
     <<"poll", "ended">>}

WorkerMoves ==
    {<<"open", "opening">>, <<"opening", "begin">>, <<"opening", "query">>, <<"opening", "leave">>,
     <<"begin", "update">>, <<"update", "commit">>, <<"update", "leave">>, <<"commit", "leave">>,
     <<"query", "reading">>, <<"query", "leave">>, <<"reading", "leave">>, <<"leave", "done">>}

LEMMA MainMoving ==
    ASSUME MainStep, ~StartWorker
    PROVE  <<main, main'>> \in MainMoves /\ phase' = phase /\ worker' = worker
BY DEF MainStep, Setup, SetBusyTimeout, CheckDB, FetchHandle, Exec, Changes, LeavePoll,
       MainGoes, MainMoves

LEMMA WorkerMoving ==
    ASSUME WorkerStep
    PROVE  <<worker, worker'>> \in WorkerMoves /\ phase' = phase /\ main' = main
BY DEF WorkerStep, OpenBegins, OpenEnds, WriterBegins, WriterUpdates, WriterCommits,
       ReaderQueries, ReaderReleases, WorkerLeaves, WorkerGoes, WorkerMoves

(* A worker is started when the one before has left.                       *)
LEMMA Starting ==
    ASSUME IInv, StartWorker
    PROVE  /\ main = "start" /\ main' = "timeout" /\ worker \in {"none", "done"}
           /\ worker' \in {"open", "refused"} /\ phase \in Nat /\ phase' = phase + 1
PROOF
<1>1. worker \in {"none", "done"}
  BY DEF StartWorker, IInv, TypeOK, Control, WorkerRuns
<1> QED BY <1>1 DEF StartWorker, IInv, TypeOK

LEMMA MainProgress ==
    \A m \in MainMoves : /\ MainAt[m[1]] \in 0..7 /\ MainAt[m[2]] \in 0..7
                         /\ MainAt[m[2]] > MainAt[m[1]]
BY DEF MainMoves, MainAt

LEMMA WorkerProgress ==
    \A w \in WorkerMoves : /\ WorkerAt[w[1]] \in 0..7 /\ WorkerAt[w[2]] \in 0..7
                           /\ WorkerAt[w[2]] > WorkerAt[w[1]]
BY DEF WorkerMoves, WorkerAt

LEMMA PlaceTypes == TypeOK => MainAt[main] \in 0..7 /\ WorkerAt[worker] \in 0..7 /\ phase \in Nat
BY DEF TypeOK, MainAt, WorkerAt

LEMMA Progresses ==
    ASSUME IInv, Next
    PROVE  Progress' > Progress
PROOF
<1>0. MainAt[main] \in 0..7 /\ WorkerAt[worker] \in 0..7 /\ phase \in Nat
  BY PlaceTypes DEF IInv
<1>1. CASE StartWorker
  <2>1. MainAt[main] = 7 /\ MainAt[main'] = 1 /\ WorkerAt[worker'] \in {0, 1}
    BY <1>1, Starting DEF MainAt, WorkerAt
  <2>2. phase' = phase + 1
    BY <1>1, Starting
  <2> QED BY <1>0, <2>1, <2>2 DEF Progress, MainAt, WorkerAt
<1>2. CASE MainStep /\ ~StartWorker
  <2>1. /\ MainAt[main'] \in 0..7 /\ MainAt[main'] > MainAt[main]
        /\ phase' = phase /\ worker' = worker
    BY <1>2, MainMoving, MainProgress
  <2> QED BY <1>0, <2>1 DEF Progress, MainAt, WorkerAt
<1>3. CASE WorkerStep
  <2>1. /\ WorkerAt[worker'] \in 0..7 /\ WorkerAt[worker'] > WorkerAt[worker]
        /\ phase' = phase /\ main' = main
    BY <1>3, WorkerMoving, WorkerProgress
  <2> QED BY <1>0, <2>1 DEF Progress, MainAt, WorkerAt
<1> QED BY <1>1, <1>2, <1>3 DEF Next

-----------------------------------------------------------------------------
(* The workers that have gone, and the handle.  A worker knows its         *)
(* procedure; without failures, a writer's update is pending when it       *)
(* commits and in the file when it leaves.                                 *)
Procedure ==
    /\ worker = "none" <=> phase = 0
    /\ worker \in {"begin", "update", "commit"} => Phases[phase] = "write"
    /\ worker \in {"query", "reading"} => Phases[phase] = "read"

Written ==
    /\ worker = "commit" => InFileOrPending(<<"worker", phase>>)
    /\ \A i \in 1..phase :
          Phases[i] = "write" /\ (i < phase \/ worker \in {"leave", "done"})
            => <<"worker", i>> \in file

PhaseInv == Procedure /\ CrashWindow /\ (faults = 0 => Written)

LEMMA ProcedureStep ==
    ASSUME IInv, Procedure, Next
    PROVE  Procedure'
PROOF
<1>1. CASE StartWorker
  BY <1>1, Starting DEF Procedure
<1>2. CASE MainStep /\ ~StartWorker
  BY <1>2, MainMoving DEF Procedure
<1>3. CASE WorkerStep
  <2>1. CASE OpenEnds
    <3>1. phase \in 1..N
      <4>1. worker = "opening" /\ main # "crashed"
        BY <2>1 DEF OpenEnds, WorkerGoes
      <4> QED BY <4>1, SomePhase DEF IInv, TypeOK, Control, WorkerRuns
    <3>2. Phases[phase] \in {"write", "read"}
      BY <3>1, DemoAssumption DEF N
    <3>3. \/ worker' = "leave"
          \/ worker' = IF Phases[phase] = "write" THEN "begin" ELSE "query"
      BY <2>1 DEF OpenEnds, WorkerGoes
    <3>4. phase' = phase
      BY <2>1 DEF OpenEnds, WorkerGoes
    <3> QED BY <3>1, SomePhase, <3>2, <3>3, <3>4 DEF Procedure
  <2>2. CASE ~OpenEnds
    <3>1. <<worker, worker'>> \in WorkerMoves /\ phase' = phase
      BY <1>3, WorkerMoving
    <3>2. worker # "opening"
      BY <1>3, <2>2 DEF WorkerStep, OpenBegins, WriterBegins, WriterUpdates, WriterCommits,
                        ReaderQueries, ReaderReleases, WorkerLeaves, WorkerGoes
    <3> QED BY <3>1, <3>2 DEF WorkerMoves, Procedure
  <2> QED BY <2>1, <2>2
<1> QED BY <1>1, <1>2, <1>3 DEF Next

(* Only opening changes the handle, and no connection is ever mended.      *)
LEMMA CrashWindowStep ==
    ASSUME IInv, Procedure, CrashWindow, Next
    PROVE  CrashWindow'
PROOF
<1>1. CASE StartWorker
  <2>1. m_pDB' = m_pDB /\ broken' = broken
    BY <1>1 DEF StartWorker, dbVars
  <2>2. phase' - 1 = phase
    BY <1>1, Starting
  <2> QED BY <1>1, <2>1, <2>2, Starting DEF CrashWindow, LastOpened
<1>2. CASE Setup
  <2>1. phase = 0 /\ phase' = 0 /\ worker' = worker /\ worker = "none"
    BY <1>2 DEF Setup, IInv, Control, TypeOK, WorkerRuns, Procedure
  <2>2. m_pDB' = 0 \/ (m_pDB' = NULL /\ broken' = {0})
    BY <1>2 DEF Setup
  <2> QED BY <2>1, <2>2 DEF CrashWindow, LastOpened
<1>3. CASE MainStep /\ ~StartWorker /\ ~Setup
  <2>1. /\ m_pDB' = m_pDB /\ broken' = broken /\ phase' = phase /\ worker' = worker
        /\ main # "setup"
    BY <1>3 DEF MainStep, SetBusyTimeout, CheckDB, FetchHandle, Exec, Changes, LeavePoll,
                MainGoes, UpdateDone, UpdateRefused, UpdateFails, RollsBack, dbVars
  <2> QED BY <2>1 DEF CrashWindow, LastOpened
<1>4. CASE OpenBegins
  BY <1>4 DEF OpenBegins, WorkerGoes, CrashWindow
<1>5. CASE OpenEnds
  <2>1. phase' = phase /\ worker' \in {"begin", "query", "leave"}
    BY <1>5 DEF OpenEnds, WorkerGoes
  <2>2. m_pDB' = phase \/ (m_pDB' = NULL /\ phase \in broken')
    BY <1>5 DEF OpenEnds
  <2> QED BY <2>1, <2>2 DEF CrashWindow, LastOpened
<1>6. CASE WorkerStep /\ ~OpenBegins /\ ~OpenEnds
  <2>1. /\ m_pDB' = m_pDB /\ broken' = broken /\ phase' = phase /\ main' = main
        /\ worker \notin {"open", "opening", "refused"}
        /\ worker' \notin {"open", "opening", "refused"}
    BY <1>6 DEF WorkerStep, WriterBegins, WriterUpdates, WriterCommits, ReaderQueries,
                ReaderReleases, WorkerLeaves, WorkerGoes, UpdateDone, UpdateRefused,
                UpdateFails, Commit, RollsBack, dbVars
  <2> QED BY <2>1 DEF CrashWindow, LastOpened
<1> QED BY <1>1, <1>2, <1>3, <1>4, <1>5, <1>6 DEF Next, MainStep, WorkerStep

(* Without failures main takes nothing from the file or from what is       *)
(* pending.                                                                *)
LEMMA MainKeeps ==
    ASSUME IInv, MainStep, faults' = 0
    PROVE  faults = 0 /\ file \subseteq file' /\ \A d \in Conns : pending[d] \subseteq pending'[d]
PROOF
<1>1. DbTypes /\ handle \in Conns \union {NULL}
  BY Types DEF IInv
<1>2. CASE Exec
  <2>1. CASE MainGoes("exec", "changes") /\ handle # NULL
               /\ UpdateDone(handle, <<"main", phase>>)
    <3>1. main = "exec"
      BY <2>1 DEF MainGoes
    <3>2. <<"main", phase>> \in Updates
      BY <3>1, SomePhase DEF IInv, TypeOK, Control, Updates
    <3> QED BY <1>1, <2>1, <3>2, Doing
  <2>2. CASE UpdateRefused(handle)
    BY <2>2, Refusing DEF Kept
  <2>3. CASE UpdateFails(handle)
    <3>1. handle \in Conns
      BY <2>3 DEF UpdateFails
    <3> QED BY <1>1, <2>3, <3>1, Failing
  <2> QED BY <1>2, <2>1, <2>2, <2>3 DEF Exec
<1>3. CASE ~Exec
  <2>1. file' = file /\ pending' = pending /\ (Fault \/ NoFault)
    BY <1>3 DEF MainStep, Setup, StartWorker, SetBusyTimeout, CheckDB, FetchHandle, Changes,
                LeavePoll, dbVars, NoFault
  <2> QED BY <1>1, <2>1, FaultTypes DEF DbTypes
<1> QED BY <1>2, <1>3

(* Without failures the file only grows under a worker, whose update waits *)
(* for the commit, and is not refused: no other connection has a lock.     *)
LEMMA WorkerKeeps ==
    ASSUME IInv, Procedure, Written, WorkerStep, faults = 0, faults' = 0
    PROVE  /\ file \subseteq file'
           /\ worker' = "commit" => InFileOrPending(<<"worker", phase>>)'
           /\ worker' \in {"leave", "done"} /\ Phases[phase] = "write"
                => <<"worker", phase>> \in file'
PROOF
<1>0. DbTypes /\ Orderly /\ ~Fault
  BY Types DEF IInv, Fault
<1>1. CASE OpenBegins \/ OpenEnds \/ WriterBegins
  BY <1>0, <1>1 DEF OpenBegins, OpenEnds, WriterBegins, WorkerGoes, dbVars
<1>2. CASE WriterUpdates
  <2>1. worker = "update" /\ phase' = phase /\ main # "crashed"
    BY <1>2 DEF WriterUpdates, WorkerGoes
  <2>2. phase \in Conns /\ <<"worker", phase>> \in Updates /\ phase # NULL
    BY <2>1, SomePhase, DemoAssumption
       DEF IInv, TypeOK, Control, WorkerRuns, Conns, Updates
  <2>3. ~UpdateRefused(phase)
    BY <1>0, <2>1, <2>2 DEF UpdateRefused, Blocked, Orderly
  <2>4. ~UpdateFails(phase)
    BY <1>0 DEF UpdateFails
  <2>5. worker' = "commit" /\ UpdateDone(phase, <<"worker", phase>>)
    BY <1>2, <2>3, <2>4 DEF WriterUpdates, WorkerGoes
  <2>6. /\ file \subseteq file'
        /\ <<"worker", phase>> \in pending'[phase] \/ <<"worker", phase>> \in file'
    BY <1>0, <2>2, <2>5, Doing
  <2> QED BY <2>1, <2>5, <2>6 DEF InFileOrPending
<1>3. CASE WriterCommits
  <2>1. worker = "commit" /\ worker' = "leave"
    BY <1>3 DEF WriterCommits, WorkerGoes
  <2>2. phase \in txn
    BY <1>0, <2>1 DEF Orderly
  <2>3. file' = file \union pending[phase]
    BY <1>0, <1>3, <2>2 DEF WriterCommits, Commit
  <2>4. <<"worker", phase>> \in file \union pending[phase]
    BY <2>1 DEF Written, InFileOrPending
  <2> QED BY <2>1, <2>3, <2>4
<1>4. CASE ReaderQueries \/ ReaderReleases
  <2>1. worker \in {"query", "reading"} /\ file' = file /\ worker' # "commit"
    BY <1>4 DEF ReaderQueries, ReaderReleases, WorkerGoes
  <2> QED BY <2>1 DEF Procedure
<1>5. CASE WorkerLeaves
  <2>1. worker = "leave" /\ worker' = "done" /\ file' = file
    BY <1>5 DEF WorkerLeaves, WorkerGoes, dbVars
  <2>2. phase \in 1..phase
    BY <2>1, SomePhase DEF IInv, TypeOK, Control, WorkerRuns
  <2> QED BY <2>1, <2>2 DEF Written
<1> QED BY <1>1, <1>2, <1>3, <1>4, <1>5 DEF WorkerStep

LEMMA WorkerFaults ==
    ASSUME IInv, WorkerStep, faults' = 0
    PROVE  faults = 0
PROOF
<1>1. Fault \/ NoFault
  BY DEF WorkerStep, OpenBegins, OpenEnds, WriterBegins, WriterUpdates, WriterCommits,
         ReaderQueries, ReaderReleases, WorkerLeaves, UpdateDone, UpdateRefused, UpdateFails,
         NoFault
<1> QED BY <1>1, FaultTypes DEF IInv, TypeOK

LEMMA WrittenStep ==
    ASSUME IInv, Procedure, faults = 0 => Written, Next, faults' = 0
    PROVE  Written'
PROOF
<1>1. CASE MainStep
  <2>1. faults = 0 /\ Written /\ file \subseteq file'
    BY <1>1, MainKeeps
  <2>2. CASE StartWorker
    <3>1. /\ worker \in {"none", "done"} /\ worker' \in {"open", "refused"}
          /\ phase \in Nat /\ phase' = phase + 1
      BY <2>2, Starting
    <3>2. ASSUME NEW i \in 1..phase', Phases[i] = "write",
                 i < phase' \/ worker' \in {"leave", "done"}
          PROVE  <<"worker", i>> \in file'
      <4>1. i \in 1..phase /\ (i < phase \/ i = phase)
        BY <3>1, <3>2
      <4>2. worker = "done"
        BY <3>1, <4>1 DEF Procedure
      <4> QED BY <2>1, <3>2, <4>1, <4>2 DEF Written
    <3> QED BY <3>1, <3>2 DEF Written
  <2>3. CASE ~StartWorker
    <3>1. phase' = phase /\ worker' = worker
      BY <1>1, <2>3, MainMoving
    <3>2. worker = "commit" => InFileOrPending(<<"worker", phase>>)'
      <4>1. SUFFICES ASSUME worker = "commit" PROVE InFileOrPending(<<"worker", phase>>)'
        OBVIOUS
      <4>2. phase \in Conns
        BY DEF IInv, TypeOK, Conns
      <4> QED BY <1>1, <2>1, <3>1, <4>1, <4>2, MainKeeps DEF Written, InFileOrPending
    <3> QED BY <2>1, <3>1, <3>2 DEF Written
  <2> QED BY <2>2, <2>3
<1>2. CASE WorkerStep
  <2>1. faults = 0 /\ Written
    BY <1>2, WorkerFaults
  <2>2. /\ file \subseteq file'
        /\ worker' = "commit" => InFileOrPending(<<"worker", phase>>)'
        /\ worker' \in {"leave", "done"} /\ Phases[phase] = "write"
             => <<"worker", phase>> \in file'
    BY <1>2, <2>1, WorkerKeeps
  <2>3. phase' = phase /\ phase \in Nat
    BY <1>2, WorkerMoving DEF IInv, TypeOK
  <2>4. ASSUME NEW i \in 1..phase, Phases[i] = "write",
               i < phase \/ worker' \in {"leave", "done"}
        PROVE  <<"worker", i>> \in file'
    <3>1. CASE i < phase
      BY <2>1, <2>2, <2>4, <3>1 DEF Written
    <3>2. CASE i = phase /\ worker' \in {"leave", "done"}
      BY <2>2, <2>4, <3>2
    <3> QED BY <2>3, <2>4, <3>1, <3>2
  <2> QED BY <2>2, <2>3, <2>4 DEF Written
<1> QED BY <1>1, <1>2 DEF Next

THEOREM PhaseInvariance == Spec => []PhaseInv
PROOF
<1>1. Init => PhaseInv
  BY DEF Init, PhaseInv, Procedure, CrashWindow, Written
<1>2. IInv /\ PhaseInv /\ [Next]_vars => PhaseInv'
  <2>1. IInv /\ PhaseInv /\ Next => PhaseInv'
    BY ProcedureStep, CrashWindowStep, WrittenStep DEF PhaseInv
  <2>2. PhaseInv /\ UNCHANGED vars => PhaseInv'
    BY DEF vars, dbVars, PhaseInv, Procedure, CrashWindow, LastOpened, Written, InFileOrPending
  <2> QED BY <2>1, <2>2
<1> QED BY <1>1, <1>2, Invariance, PTL DEF Spec

-----------------------------------------------------------------------------
(* The types of all variables, for any list of workers.                    *)
THEOREM TypeCorrectness == Spec => []TypeOK
PROOF
<1>1. IInv => TypeOK
  BY DEF IInv
<1> QED BY Invariance, <1>1, PTL

(* nThreads, polled without a lock, is as good as a join: main never       *)
(* starts a worker or ends while one can still use db.                     *)
THEOREM CounterIsJoin == Spec => []CounterJoins
PROOF
<1>1. IInv => CounterJoins
  BY DEF IInv, Control, CounterJoins
<1> QED BY Invariance, <1>1, PTL

(* Without failures, an update that main reports as done is never lost,  *)
(* whichever connection the worker had put under it, and no writing worker *)
(* leaves without its update in the database.                              *)
THEOREM KeepsUpdates == Spec => []UpdatesAreKept
PROOF
<1>1. IInv /\ PhaseInv => UpdatesAreKept
  BY DEF IInv, Orderly, InFileOrPending, TypeOK, WorkerRuns, PhaseInv, Procedure, Written,
         UpdatesAreKept
<1> QED BY Invariance, PhaseInvariance, <1>1, PTL

(* Without failures, no transaction, lock or query outlives its worker on  *)
(* a connection that nobody can close any more.                            *)
THEOREM LeavesNothingOpen == Spec => []NothingLeftOpen
PROOF
<1>1. IInv => NothingLeftOpen
  BY DEF IInv, Orderly, NothingLeftOpen, WorkerRuns
<1> QED BY Invariance, <1>1, PTL

(* db is without a handle only before the first open, inside of a worker's *)
(* open and after a failed one, whatever else fails.                       *)
THEOREM OnlyInOpen == Spec => []CrashWindow
BY PhaseInvariance, PTL DEF PhaseInv

(* Every step brings main or the worker closer to its end, so the demo     *)
(* takes a bounded number of steps (ProgressBound): the part of its        *)
(* termination that needs no fairness.                                     *)
THEOREM AlwaysProgresses == Spec => EveryStepProgresses
PROOF
<1>1. IInv /\ [Next]_vars => [Progress' > Progress]_vars
  BY Progresses
<1> QED BY Invariance, <1>1, PTL DEF Spec, EveryStepProgresses

(* With N phases the demo takes at most 16 * N + 14 steps.                 *)
THEOREM ProgressBound == Spec => [](Progress \in 0..(16 * N + 14))
PROOF
<1>1. IInv => Progress \in 0..(16 * N + 14)
  BY PlaceTypes, SomePhase DEF IInv, TypeOK, Progress
<1> QED BY Invariance, <1>1, PTL
=============================================================================
