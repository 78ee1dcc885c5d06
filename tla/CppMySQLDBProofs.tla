------------------------- MODULE CppMySQLDBProofs --------------------------
(* Proofs about CppMySQLDB, for any number of sessions, databases and      *)
(* connection strings.                                                     *)
EXTENDS CppMySQLDB, TLAPS

(* What holds between the parts of one session: h is its handle, srv the   *)
(* server's session, c the counter, p what the program knows and a the     *)
(* reconnect option it gave.  The client knows of every transaction the    *)
(* server has open; that is why none is ever continued in a new session.   *)
(* As long as the program was not told of a failure, the updates of its    *)
(* transaction are all still pending.                                      *)
Linked(h, srv) ==
    /\ (h = NULL \/ h.link # "up") => srv = Gone
    /\ ~srv.txn => srv.pending = 0
    /\ srv.txn => h.inTrans

Asked(h, srv, a) ==
    /\ (h # NULL /\ h.reconnect) => a # "unset"
    /\ srv.auto => a # "unset"

Counted(h, srv, c, p) ==
    /\ ~p.orderly => p.done = 0 /\ p.kept = 0
    /\ p.orderly =>
          /\ c \in {0, 1}
          /\ srv.txn => c = 1
          /\ c = 1 => p.kept = 0
          /\ (c = 1 /\ ~p.told /\ h # NULL) =>
                /\ h.inTrans
                /\ h.link = "up" => srv.txn /\ srv.pending = p.done

SessionInv(h, srv, c, p, a) ==
    Linked(h, srv) /\ Asked(h, srv, a) /\ Counted(h, srv, c, p)

NameInv == AsksOwnDatabase

IInv ==
    /\ TypeOK
    /\ \A s \in Sessions :
          SessionInv(mysql[s], server[s], m_inTransaction[s], prog[s], asked[s])
    /\ NameInv

(* What a step of a session may do to its unit of work.                    *)
UnitStep(p, c, p1, c1) ==
    \/ Phase(p1, c1) = Phase(p, c) /\ p1.done = p.done /\ p1.kept = p.kept
    \/ Phase(p, c) = "idle" /\ Phase(p1, c1) = "working"
          /\ p1.done = 0 /\ p1.kept = 0
    \/ Phase(p, c) = "working" /\ Phase(p1, c1) = "working"
          /\ p1.done = p.done + 1 /\ p1.kept = p.kept
    \/ Phase(p, c) = "working" /\ Phase(p1, c1) = "idle"
          /\ p1.done = p.done /\ p1.kept \in {0, p.done}
    \/ Phase(p, c) # "abandoned" /\ Phase(p1, c1) = "abandoned"
          /\ p1.done = 0 /\ p1.kept = 0
    \/ Phase(p1, c1) = "idle" /\ p1.done = 0 /\ p1.kept = 0

LEMMA NewValues ==
    /\ NewHandle \in Handle /\ NewHandle # NULL /\ Gone \in ServerSession
    /\ NewProgram \in Program /\ Disorderly \in Program
PROOF
<1>1. NewHandle \in Handle
  BY DEF NewHandle, Handle
<1> QED BY <1>1, SessionAssumption
        DEF Gone, NewServer, NewProgram, Disorderly, ServerSession, Program

LEMMA NewSession ==
    ASSUME NEW a
    PROVE  SessionInv(NewHandle, Gone, 0, NewProgram, a)
BY NewValues
   DEF SessionInv, Linked, Asked, Counted, NewHandle, Gone, NewServer, NewProgram

THEOREM InitIInv == Init => IInv
PROOF
<1> SUFFICES ASSUME Init PROVE IInv
  OBVIOUS
<1>1. TypeOK
  <2>1. mysql \in [Sessions -> Handle \union {NULL}]
    BY NewValues DEF Init
  <2>2. server \in [Sessions -> ServerSession] /\ prog \in [Sessions -> Program]
    BY NewValues DEF Init
  <2>4. m_inTransaction \in [Sessions -> Int]
    BY DEF Init
  <2>3. asked \in [Sessions -> {"unset", "true", "false"}]
    BY DEF Init
  <2> QED BY <2>1, <2>2, <2>3, <2>4 DEF Init, TypeOK
<1>2. \A s \in Sessions :
          SessionInv(mysql[s], server[s], m_inTransaction[s], prog[s], asked[s])
  BY NewSession DEF Init
<1>3. NameInv
  BY SessionAssumption DEF Init, NameInv, AsksOwnDatabase
<1> QED BY <1>1, <1>2, <1>3 DEF IInv

-----------------------------------------------------------------------------
CountAfter(c, cmd, ok) ==
    CASE cmd = "start" /\ ok -> c + 1
      [] cmd \in {"commit", "rollback"} -> c - 1
      [] OTHER -> c

(* What a command starts from when it reaches the server.                  *)
LEMMA Delivery ==
    ASSUME NEW s \in Sessions, mysql[s] \in Handle, server[s] \in ServerSession,
           Linked(mysql[s], server[s]), Asked(mysql[s], server[s], asked[s]),
           NEW r \in Delivered(s)
    PROVE  /\ r.h \in Handle /\ r.srv \in ServerSession
           /\ r.h.link = "up" /\ r.h.db = mysql[s].db /\ r.h.reconnect = mysql[s].reconnect
           /\ Linked(r.h, r.srv) /\ Asked(r.h, r.srv, asked[s])
           /\ \/ r.h = mysql[s] /\ r.srv = server[s]
              \/ ~mysql[s].inTrans /\ ~r.srv.txn /\ ~r.h.inTrans /\ r.srv.pending = 0
PROOF
<1>1. CASE mysql[s].link = "up"
  <2>1. r = [h |-> mysql[s], srv |-> server[s]]
    BY <1>1 DEF Delivered
  <2> QED BY <2>1, <1>1
<1>2. CASE mysql[s].link # "up" /\ MayReconnect(mysql[s])
  <2>1. r = [h |-> [mysql[s] EXCEPT !.link = "up"], srv |-> NewServer(TRUE)]
    BY <1>2 DEF Delivered
  <2>2. ~mysql[s].inTrans /\ mysql[s].reconnect
    BY <1>2 DEF MayReconnect
  <2>3. r.h \in Handle /\ r.h.link = "up" /\ r.h.db = mysql[s].db
        /\ r.h.reconnect = mysql[s].reconnect /\ ~r.h.inTrans
    BY <2>1, <2>2 DEF Handle
  <2>4. r.srv \in ServerSession /\ ~r.srv.txn /\ r.srv.pending = 0
    BY <2>1 DEF NewServer, ServerSession
  <2>5. r.h # NULL /\ mysql[s] # NULL
    BY <2>3, SessionAssumption
  <2> QED BY <2>2, <2>3, <2>4, <2>5 DEF Linked, Asked
<1>3. CASE mysql[s].link # "up" /\ ~MayReconnect(mysql[s])
  BY <1>3 DEF Delivered
<1> QED BY <1>1, <1>2, <1>3

-----------------------------------------------------------------------------
(* What the program will note must fit what the command did.               *)
Fits(h, srv, c, p, cmd, ok, h1, srv1, gain) ==
    /\ (c = 1 /\ ~p.told /\ ok) =>
          /\ srv1 = Ran(cmd, srv) /\ srv.txn /\ srv.pending = p.done
          /\ h1.inTrans = srv1.txn /\ gain = Keeps(cmd, srv)
    /\ (c = 1 /\ ~p.told /\ ~ok) => gain = 0 \/ (cmd = "commit" /\ gain = p.done)
    /\ cmd = "rollback" => gain = 0
    /\ cmd \in {"commit", "rollback"} => ~srv1.txn
    /\ (c # 1 /\ srv1.txn) => cmd = "start" /\ ok
    /\ (cmd = "start" /\ ok) => srv1.txn /\ srv1.pending = 0 /\ h1.inTrans

Suits(s, cmd, ok, o) ==
    /\ o.h \in Handle /\ o.srv \in ServerSession /\ o.gain \in Nat
    /\ Linked(o.h, o.srv)
    /\ (prog[s].orderly /\ ~Breaks(s, cmd)) =>
          Fits(mysql[s], server[s], m_inTransaction[s], prog[s], cmd, ok, o.h, o.srv, o.gain)

Well(s, cmd, ok, o) == Suits(s, cmd, ok, o) /\ Asked(o.h, o.srv, asked[s])

LEMMA RolledBackWell ==
    ASSUME NEW srv \in ServerSession
    PROVE  /\ RolledBack(srv) \in ServerSession /\ ~RolledBack(srv).txn
           /\ RolledBack(srv).pending = 0 /\ RolledBack(srv).auto = srv.auto
BY DEF RolledBack, ServerSession

Started(srv) == [srv EXCEPT !.txn = TRUE, !.pending = 0]

LEMMA StartedWell ==
    ASSUME NEW srv \in ServerSession
    PROVE  /\ Started(srv) \in ServerSession /\ Started(srv).txn
           /\ Started(srv).pending = 0 /\ Started(srv).auto = srv.auto
BY DEF Started, ServerSession

LEMMA Commanded ==
    ASSUME NEW srv \in ServerSession, NEW cmd \in Commands
    PROVE  /\ Ran(cmd, srv) \in ServerSession /\ Keeps(cmd, srv) \in Nat
           /\ Ran(cmd, srv).auto = srv.auto
           /\ (srv.txn \/ srv.pending = 0) =>
                 Ran(cmd, srv).txn \/ Ran(cmd, srv).pending = 0
           /\ cmd = "start" => Ran(cmd, srv).txn /\ Ran(cmd, srv).pending = 0
           /\ cmd \in {"commit", "rollback", "ddl"} => ~Ran(cmd, srv).txn
           /\ cmd \in {"update", "read"} => (Ran(cmd, srv).txn <=> srv.txn)
           /\ cmd \in {"rollback", "read"} => Keeps(cmd, srv) = 0
           /\ (cmd = "update" /\ srv.txn) =>
                 Keeps(cmd, srv) = 0 /\ Ran(cmd, srv).pending = srv.pending + 1
           /\ cmd = "commit" => Keeps(cmd, srv) = srv.pending
           /\ cmd = "read" => Ran(cmd, srv) = srv
PROOF
<1>0. srv.txn \in BOOLEAN /\ srv.pending \in Nat
  BY DEF ServerSession
<1>1. CASE cmd = "read"
  BY <1>0, <1>1 DEF Ran, Keeps
<1>2. CASE cmd = "update" /\ srv.txn
  <2>1. Ran(cmd, srv) = [srv EXCEPT !.pending = srv.pending + 1]
    BY <1>2 DEF Ran
  <2>2. Keeps(cmd, srv) = 0
    BY <1>2 DEF Keeps
  <2>3. Ran(cmd, srv) \in ServerSession /\ Ran(cmd, srv).txn
        /\ Ran(cmd, srv).pending = srv.pending + 1 /\ Ran(cmd, srv).auto = srv.auto
    BY <1>0, <1>2, <2>1 DEF ServerSession
  <2> QED BY <1>2, <2>2, <2>3
<1>3. CASE cmd = "update" /\ ~srv.txn
  <2>1. Ran(cmd, srv) = srv /\ Keeps(cmd, srv) = 1
    BY <1>3 DEF Ran, Keeps
  <2> QED BY <1>3, <2>1
<1>4. CASE cmd = "start"
  <2>1. Ran(cmd, srv) = Started(srv)
    BY <1>4 DEF Ran, Started
  <2>2. Keeps(cmd, srv) = srv.pending
    BY <1>4 DEF Keeps
  <2> QED BY <1>0, <1>4, <2>1, <2>2, StartedWell
<1>5. CASE cmd \in {"commit", "rollback", "ddl"}
  <2>1. Ran(cmd, srv) = RolledBack(srv)
    BY <1>5 DEF Ran, RolledBack
  <2>2. Keeps(cmd, srv) = IF cmd = "rollback" THEN 0 ELSE srv.pending
    BY <1>5 DEF Keeps
  <2> QED BY <1>0, <1>5, <2>1, <2>2, RolledBackWell
<1> QED BY <1>1, <1>2, <1>3, <1>4, <1>5, <1>0 DEF Commands

(* The session before a command.                                           *)
Before(s) ==
    /\ mysql[s] \in Handle /\ server[s] \in ServerSession
    /\ m_inTransaction[s] \in Int /\ prog[s] \in Program
    /\ SessionInv(mysql[s], server[s], m_inTransaction[s], prog[s], asked[s])

LEMMA SuccessWell ==
    ASSUME NEW s \in Sessions, NEW cmd \in Commands, Before(s), NEW o \in Succeeds(s, cmd)
    PROVE  Well(s, cmd, TRUE, o) /\ o.h.db = mysql[s].db
PROOF
<1>1. PICK r \in Delivered(s) :
         o = [h |-> [r.h EXCEPT !.inTrans = Ran(cmd, r.srv).txn],
              srv |-> Ran(cmd, r.srv), gain |-> Keeps(cmd, r.srv)]
  BY DEF Succeeds
<1>2. /\ r.h \in Handle /\ r.srv \in ServerSession
      /\ r.h.link = "up" /\ r.h.db = mysql[s].db /\ r.h.reconnect = mysql[s].reconnect
      /\ Linked(r.h, r.srv) /\ Asked(r.h, r.srv, asked[s])
      /\ \/ r.h = mysql[s] /\ r.srv = server[s]
         \/ ~mysql[s].inTrans /\ ~r.srv.txn /\ ~r.h.inTrans /\ r.srv.pending = 0
  BY Delivery DEF Before, SessionInv
<1>3. /\ o.h \in Handle /\ o.h.link = "up" /\ o.h.db = mysql[s].db
      /\ o.h.reconnect = r.h.reconnect /\ o.h.inTrans = Ran(cmd, r.srv).txn
      /\ o.srv = Ran(cmd, r.srv) /\ o.gain = Keeps(cmd, r.srv)
  <2>1. Ran(cmd, r.srv).txn \in BOOLEAN
    BY <1>2, Commanded DEF ServerSession
  <2> QED BY <1>1, <1>2, <2>1 DEF Handle
<1>4. o.h # NULL /\ r.h # NULL /\ mysql[s] # NULL
  BY <1>2, <1>3, SessionAssumption DEF Before
<1>5. Linked(o.h, o.srv) /\ Asked(o.h, o.srv, asked[s])
  BY <1>2, <1>3, <1>4, Commanded DEF Linked, Asked
<1>6. ASSUME prog[s].orderly
      PROVE  Fits(mysql[s], server[s], m_inTransaction[s], prog[s], cmd, TRUE, o.h, o.srv, o.gain)
  <2>1. CASE r.h = mysql[s] /\ r.srv = server[s]
    BY <1>2, <1>3, <1>4, <1>6, <2>1, Commanded DEF Fits, Before, SessionInv, Counted, Commands
  <2>2. CASE ~mysql[s].inTrans /\ ~r.srv.txn /\ ~r.h.inTrans /\ r.srv.pending = 0
    BY <1>2, <1>3, <1>4, <1>6, <2>2, Commanded DEF Fits, Before, SessionInv, Counted, Commands
  <2> QED BY <1>2, <2>1, <2>2
<1>7. o.srv \in ServerSession /\ o.gain \in Nat
  BY <1>2, <1>3, Commanded
<1> QED BY <1>3, <1>5, <1>6, <1>7 DEF Well, Suits

(* A failure that leaves the program's transaction without a gain.         *)
LEMMA FailureFits ==
    ASSUME NEW s \in Sessions, NEW cmd \in Commands, Before(s),
           NEW h1, NEW srv1, NEW gain, ~srv1.txn, prog[s].orderly,
           \/ gain = 0
           \/ /\ cmd = "commit"
              /\ (m_inTransaction[s] = 1 /\ ~prog[s].told) =>
                    gain = prog[s].done
           \/ cmd \notin {"commit", "rollback"} /\ m_inTransaction[s] # 1
           \/ cmd \notin {"commit", "rollback"} /\ prog[s].told
    PROVE  Fits(mysql[s], server[s], m_inTransaction[s], prog[s], cmd, FALSE, h1, srv1, gain)
BY DEF Fits

LEMMA GoneWell ==
    ASSUME NEW h, NEW a
    PROVE  /\ Gone \in ServerSession /\ ~Gone.txn /\ Gone.pending = 0 /\ ~Gone.auto
           /\ Linked(h, Gone)
BY DEF Gone, NewServer, ServerSession, Linked

LEMMA UndeliveredWell ==
    ASSUME NEW s \in Sessions, NEW cmd \in Commands, Before(s), NEW h \in Undelivered(s)
    PROVE  /\ Well(s, cmd, FALSE, [h |-> h, srv |-> Gone, gain |-> 0])
           /\ h.db = mysql[s].db
PROOF
<1>1. h \in Handle /\ h.db = mysql[s].db /\ h.reconnect = mysql[s].reconnect
  <2>1. CASE mysql[s].link = "none"
    <3>1. h = [mysql[s] EXCEPT !.inTrans = FALSE]
      BY <2>1 DEF Undelivered
    <3> QED BY <3>1 DEF Before, Handle
  <2>2. CASE mysql[s].link = "dead"
    <3>1. PICK b \in {FALSE, mysql[s].inTrans} :
             h = [mysql[s] EXCEPT !.link = "none", !.inTrans = b]
      BY <2>2 DEF Undelivered
    <3>2. b \in BOOLEAN
      BY DEF Before, Handle
    <3> QED BY <3>1, <3>2 DEF Before, Handle
  <2>3. CASE mysql[s].link = "up"
    BY <2>3 DEF Undelivered
  <2> QED BY <2>1, <2>2, <2>3 DEF Before, Handle
<1>2. mysql[s] # NULL
  BY SessionAssumption DEF Before
<1>3. Asked(h, Gone, asked[s])
  BY <1>1, <1>2, GoneWell DEF Before, SessionInv, Asked
<1>4. prog[s].orderly =>
        Fits(mysql[s], server[s], m_inTransaction[s], prog[s], cmd, FALSE, h, Gone, 0)
  BY FailureFits, GoneWell
<1> QED BY <1>1, <1>3, <1>4, GoneWell DEF Well, Suits

LEMMA ReplyLostWell ==
    ASSUME NEW s \in Sessions, NEW cmd \in Commands, Before(s), NEW o \in ReplyLost(s, cmd)
    PROVE  Well(s, cmd, FALSE, o) /\ o.h.db = mysql[s].db
PROOF
<1>1. PICK r \in Delivered(s), ran \in BOOLEAN :
         o = [h |-> [r.h EXCEPT !.link = "none"], srv |-> Gone,
              gain |-> IF ran THEN Keeps(cmd, r.srv) ELSE 0]
  BY DEF ReplyLost
<1>2. /\ r.h \in Handle /\ r.srv \in ServerSession
      /\ r.h.link = "up" /\ r.h.db = mysql[s].db /\ r.h.reconnect = mysql[s].reconnect
      /\ Linked(r.h, r.srv) /\ Asked(r.h, r.srv, asked[s])
      /\ \/ r.h = mysql[s] /\ r.srv = server[s]
         \/ ~mysql[s].inTrans /\ ~r.srv.txn /\ ~r.h.inTrans /\ r.srv.pending = 0
  BY Delivery DEF Before, SessionInv
<1>3. /\ o.h \in Handle /\ o.h.db = mysql[s].db /\ o.h.reconnect = mysql[s].reconnect
      /\ o.srv = Gone /\ (o.gain = 0 \/ o.gain = Keeps(cmd, r.srv))
  BY <1>1, <1>2 DEF Handle
<1>4. mysql[s] # NULL
  BY SessionAssumption DEF Before
<1>5. Asked(o.h, Gone, asked[s])
  BY <1>3, <1>4, GoneWell DEF Before, SessionInv, Asked
<1>6. ASSUME prog[s].orderly, ~Breaks(s, cmd)
      PROVE  Fits(mysql[s], server[s], m_inTransaction[s], prog[s], cmd, FALSE, o.h, Gone, o.gain)
  <2>1. CASE o.gain = 0
    BY <1>6, <2>1, FailureFits, GoneWell
  <2>2. CASE o.gain = Keeps(cmd, r.srv) /\ o.gain # 0
    <3>1. cmd # "rollback"
      BY <1>2, <2>2, Commanded
    <3>2. ASSUME m_inTransaction[s] = 1, ~prog[s].told
          PROVE  cmd = "commit" /\ o.gain = prog[s].done
      <4>1. mysql[s].inTrans
        BY <1>4, <1>6, <3>2 DEF Before, SessionInv, Counted
      <4>2. r.h = mysql[s] /\ r.srv = server[s]
        BY <1>2, <4>1
      <4>3. server[s].txn /\ server[s].pending = prog[s].done
        BY <1>2, <1>4, <1>6, <3>2, <4>2 DEF Before, SessionInv, Counted
      <4>4. cmd \notin {"start", "ddl"}
        BY <1>6, <3>2 DEF Breaks
      <4> QED BY <2>2, <4>2, <4>3, <4>4, Commanded DEF Commands, Before
    <3> QED BY <1>6, <3>1, <3>2, FailureFits, GoneWell
  <2> QED BY <1>3, <2>1, <2>2
<1>7. o.gain \in Nat
  BY <1>2, <1>3, Commanded
<1> QED BY <1>3, <1>5, <1>6, <1>7, GoneWell DEF Well, Suits

LEMMA ErrorReplyWell ==
    ASSUME NEW s \in Sessions, NEW cmd \in Commands, Before(s), NEW o \in ErrorReply(s, cmd)
    PROVE  Well(s, cmd, FALSE, o) /\ o.h.db = mysql[s].db
PROOF
<1>1. PICK r \in Delivered(s) :
         /\ o.h = r.h
         /\ \/ cmd \in {"update", "read"} /\ o.srv \in {r.srv, RolledBack(r.srv)} /\ o.gain = 0
            \/ cmd = "ddl" /\ o.srv = Ran(cmd, r.srv) /\ o.gain = Keeps(cmd, r.srv)
  <2>1. CASE cmd \in {"update", "read"}
    <3>1. PICK r \in Delivered(s), deadlock \in BOOLEAN :
             o = [h |-> r.h, srv |-> IF deadlock THEN RolledBack(r.srv) ELSE r.srv,
                  gain |-> 0]
      BY <2>1 DEF ErrorReply
    <3> QED BY <2>1, <3>1
  <2>2. CASE cmd = "ddl"
    <3>1. PICK r \in Delivered(s) :
             o = [h |-> r.h, srv |-> Ran(cmd, r.srv), gain |-> Keeps(cmd, r.srv)]
      BY <2>2 DEF ErrorReply
    <3> QED BY <2>2, <3>1
  <2> QED BY <2>1, <2>2 DEF ErrorReply
<1>2. /\ r.h \in Handle /\ r.srv \in ServerSession
      /\ r.h.link = "up" /\ r.h.db = mysql[s].db /\ r.h.reconnect = mysql[s].reconnect
      /\ Linked(r.h, r.srv) /\ Asked(r.h, r.srv, asked[s])
      /\ \/ r.h = mysql[s] /\ r.srv = server[s]
         \/ ~mysql[s].inTrans /\ ~r.srv.txn /\ ~r.h.inTrans /\ r.srv.pending = 0
  BY Delivery DEF Before, SessionInv
<1>3. r.h # NULL
  BY <1>2, SessionAssumption
<1>4. /\ o.srv \in ServerSession /\ o.gain \in Nat /\ o.srv.auto = r.srv.auto
      /\ o.srv.txn \/ o.srv.pending = 0
      /\ o.srv.txn => r.srv.txn
      /\ cmd = "ddl" => ~o.srv.txn
  BY <1>1, <1>2, Commanded, RolledBackWell DEF Linked
<1>5. Linked(o.h, o.srv) /\ Asked(o.h, o.srv, asked[s])
  BY <1>1, <1>2, <1>3, <1>4 DEF Linked, Asked
<1>6. ASSUME prog[s].orderly, ~Breaks(s, cmd)
      PROVE  Fits(mysql[s], server[s], m_inTransaction[s], prog[s], cmd, FALSE, o.h, o.srv, o.gain)
  <2>1. o.srv.txn => m_inTransaction[s] = 1
    BY <1>2, <1>4, <1>6 DEF Before, SessionInv, Counted
  <2>2. cmd = "ddl" => m_inTransaction[s] # 1
    BY <1>6 DEF Breaks
  <2> QED BY <1>1, <2>1, <2>2 DEF Fits
<1> QED BY <1>1, <1>2, <1>4, <1>5, <1>6 DEF Well, Suits

LEMMA OutcomeWell ==
    ASSUME NEW s \in Sessions, NEW cmd \in Commands, NEW ok \in BOOLEAN, Before(s),
           NEW o \in Outcomes(s, cmd, ok)
    PROVE  Well(s, cmd, ok, o) /\ o.h.db = mysql[s].db
PROOF
<1>1. CASE ok
  BY <1>1, SuccessWell DEF Outcomes
<1>2. CASE ~ok
  <2>1. o \in Fails(s, cmd)
    BY <1>2 DEF Outcomes
  <2>2. CASE o \in {[h |-> h, srv |-> Gone, gain |-> 0] : h \in Undelivered(s)}
    <3>1. PICK h \in Undelivered(s) : o = [h |-> h, srv |-> Gone, gain |-> 0]
      BY <2>2
    <3>2. Well(s, cmd, FALSE, o) /\ o.h.db = mysql[s].db
      BY <3>1, UndeliveredWell
    <3> QED BY <1>2, <3>2
  <2>3. CASE o \in ReplyLost(s, cmd)
    BY <1>2, <2>3, ReplyLostWell
  <2>4. CASE o \in ErrorReply(s, cmd)
    BY <1>2, <2>4, ErrorReplyWell
  <2> QED BY <2>1, <2>2, <2>3, <2>4 DEF Fails
<1> QED BY <1>1, <1>2

-----------------------------------------------------------------------------
Updated(p, b, d, k, m) ==
    [p EXCEPT !.told = b, !.done = d, !.kept = k, !.committed = m]

LEMMA PhaseOf ==
    ASSUME NEW p \in Program, NEW c \in Int
    PROVE  /\ ~p.orderly => Phase(p, c) = "abandoned"
           /\ (p.orderly /\ c > 0) => Phase(p, c) = "working"
           /\ (p.orderly /\ ~(c > 0)) => Phase(p, c) = "idle"
PROOF
<1>1. ASSUME ~p.orderly PROVE Phase(p, c) = "abandoned"
  BY <1>1 DEF Phase
<1>2. ASSUME p.orderly, c > 0 PROVE Phase(p, c) = "working"
  BY <1>2 DEF Phase
<1>3. ASSUME p.orderly, ~(c > 0) PROVE Phase(p, c) = "idle"
  BY <1>3 DEF Phase
<1> QED BY <1>1, <1>2, <1>3

(* What the program notes of a command keeps the invariant and is a step   *)
(* of its unit of work.                                                    *)
LEMMA NotedWell ==
    ASSUME NEW s \in Sessions, NEW cmd \in Commands \union {"connect"}, NEW ok \in BOOLEAN, Before(s),
           NEW o, Suits(s, cmd, ok, o)
    PROVE  LET c1 == CountAfter(m_inTransaction[s], cmd, ok)
               p1 == Noted(s, cmd, ok, o.gain)
           IN  /\ p1 \in Program
               /\ Counted(o.h, o.srv, c1, p1)
               /\ UnitStep(prog[s], m_inTransaction[s], p1, c1)
PROOF
<1> DEFINE c == m_inTransaction[s]
           p == prog[s]
           c1 == CountAfter(c, cmd, ok)
           p1 == Noted(s, cmd, ok, o.gain)
           working == c > 0
<1>0. /\ c \in Int /\ p \in Program /\ o.gain \in Nat
      /\ p.orderly \in BOOLEAN /\ p.told \in BOOLEAN /\ p.done \in Nat /\ p.kept \in Nat
      /\ p.committed \in BOOLEAN
      /\ Counted(mysql[s], server[s], c, p)
  BY DEF Before, Suits, Program, SessionInv
<1>1. CASE ~p.orderly \/ Breaks(s, cmd)
  <2>1. p1 = Disorderly
    BY <1>1 DEF Noted
  <2>2. Disorderly \in Program /\ ~Disorderly.orderly /\ Disorderly.done = 0
        /\ Disorderly.kept = 0
    BY NewValues DEF Disorderly, NewProgram
  <2>3. Counted(o.h, o.srv, c1, p1)
    BY <2>1, <2>2 DEF Counted
  <2>4. c1 \in Int
    BY <1>0 DEF CountAfter
  <2>5. UnitStep(p, c, p1, c1)
    BY <1>0, <2>1, <2>2, <2>4, PhaseOf DEF Counted, UnitStep
  <2> QED BY <2>1, <2>2, <2>3, <2>5
<1>2. CASE p.orderly /\ ~Breaks(s, cmd) /\ cmd = "start" /\ ok
  <2>1. p1 = NewProgram
    BY <1>2 DEF Noted
  <2>2. NewProgram \in Program /\ NewProgram.orderly /\ ~NewProgram.told
        /\ NewProgram.done = 0 /\ NewProgram.kept = 0
    BY NewValues DEF NewProgram
  <2>3. c = 0
    BY <1>0, <1>2 DEF Breaks, Counted
  <2>4. c1 = 1
    BY <1>2, <2>3 DEF CountAfter
  <2>5. o.srv.txn /\ o.srv.pending = 0 /\ o.h.inTrans
    BY <1>2 DEF Suits, Fits
  <2>6. Counted(o.h, o.srv, c1, p1)
    <3>1. Counted(o.h, o.srv, 1, NewProgram)
      BY <2>2, <2>5 DEF Counted
    <3> QED BY <2>1, <2>4, <3>1
  <2>7. UnitStep(p, c, p1, c1)
    <3>1. Phase(p, c) = "idle" /\ Phase(NewProgram, 1) = "working"
      BY <1>0, <1>2, <2>2, <2>3, PhaseOf
    <3> QED BY <2>1, <2>2, <2>4, <3>1 DEF UnitStep
  <2> QED BY <2>1, <2>2, <2>6, <2>7
<1>3. CASE p.orderly /\ ~Breaks(s, cmd) /\ ~(cmd = "start" /\ ok)
  <2> DEFINE told1 == working /\ ~ok /\ cmd \notin {"commit", "rollback"}
             done1 == IF working /\ ok /\ cmd = "update" THEN p.done + 1 ELSE p.done
             kept1 == IF working THEN p.kept + o.gain ELSE p.kept
             committed1 == IF working /\ cmd \in {"commit", "rollback"}
                           THEN cmd = "commit" ELSE p.committed
  <2>1. p1 = Updated(p, told1, done1, kept1, committed1)
    BY <1>3 DEF Noted, Updated
  <2>2. /\ told1 \in BOOLEAN /\ committed1 \in BOOLEAN
        /\ done1 \in Nat /\ kept1 \in Nat
    <3>1. told1 \in BOOLEAN
      OBVIOUS
    <3>2. committed1 \in BOOLEAN
      BY <1>0
    <3>3. done1 \in Nat
      BY <1>0
    <3>4. kept1 \in Nat
      BY <1>0
    <3> QED BY <3>1, <3>2, <3>3, <3>4
  <2>3. /\ p1 \in Program /\ p1.orderly /\ (p1.told <=> told1)
        /\ p1.done = done1 /\ p1.kept = kept1
    <3> DEFINE new == Updated(p, told1, done1, kept1, committed1)
    <3>1. p \in Program /\ p.orderly
      BY <1>0, <1>3
    <3> HIDE DEF p, p1, told1, done1, kept1, committed1
    <3>2. /\ new \in Program /\ new.orderly = p.orderly /\ new.told = told1
          /\ new.done = done1 /\ new.kept = kept1
      BY <2>2, <3>1 DEF Program, Updated
    <3>3. p1 = new
      BY <2>1
    <3> HIDE DEF new
    <3> QED BY <3>1, <3>2, <3>3
  <2>4. Fits(mysql[s], server[s], c, p, cmd, ok, o.h, o.srv, o.gain)
    BY <1>3 DEF Suits
  <2>5. CASE c = 0
    <3>1. c1 = 0 /\ cmd \notin {"commit", "rollback"}
      BY <1>3, <2>5 DEF CountAfter, Breaks
    <3>2. ~told1 /\ done1 = p.done /\ kept1 = p.kept
      BY <2>5
    <3>3. ~o.srv.txn
      BY <1>3, <2>4, <2>5 DEF Fits
    <3> HIDE DEF p1, told1, done1, kept1, c1
    <3>4. Counted(o.h, o.srv, c1, p1)
      BY <2>3, <3>1, <3>3 DEF Counted
    <3>5. UnitStep(p, c, p1, c1)
      BY <1>0, <1>3, <2>3, <2>5, <3>1, <3>2, PhaseOf DEF UnitStep
    <3> QED BY <2>3, <3>4, <3>5 DEF p1, c1
  <2>6. CASE c = 1
    <3>1. /\ done1 = IF ok /\ cmd = "update" THEN p.done + 1 ELSE p.done
          /\ kept1 = p.kept + o.gain
          /\ told1 <=> (~ok /\ cmd \notin {"commit", "rollback"})
      BY <2>6
    <3>2. p.kept = 0 /\ kept1 = o.gain
      BY <1>0, <1>3, <2>6, <3>1 DEF Counted
    <3>3. cmd \notin {"start", "ddl", "connect"} /\ (p.told => cmd = "rollback")
      BY <1>3, <2>6 DEF Breaks
    <3> HIDE DEF p1, told1, done1, kept1
    <3>4. CASE cmd \in {"commit", "rollback"}
      <4>1. c1 = 0
        BY <2>6, <3>4 DEF CountAfter
      <4>2. ~o.srv.txn
        BY <2>4, <3>4 DEF Fits
      <4>3. o.gain = 0 \/ o.gain = p.done
        BY <2>4, <2>6, <3>3, <3>4, Commanded DEF Fits, Before, Commands
      <4>4. done1 = p.done
        BY <3>1, <3>4
      <4> HIDE DEF c1
      <4>5. Counted(o.h, o.srv, c1, p1)
        BY <2>3, <4>1, <4>2 DEF Counted
      <4>6. UnitStep(p, c, p1, c1)
        BY <1>0, <1>3, <2>3, <2>6, <3>2, <4>1, <4>3, <4>4, PhaseOf DEF UnitStep
      <4> QED BY <2>3, <4>5, <4>6 DEF p1, c1
    <3>5. CASE cmd \in {"update", "read"}
      <4>1. c1 = 1
        BY <2>6, <3>5 DEF CountAfter
      <4>2. ~p.told
        BY <3>3, <3>5
      <4>3. o.gain = 0
        BY <2>4, <2>6, <3>5, <4>2, Commanded DEF Fits, Before, Commands
      <4>4. ok => /\ o.srv.txn /\ o.h.inTrans
                  /\ o.srv.pending = done1
        BY <2>4, <2>6, <3>1, <3>5, <4>2, Commanded DEF Fits, Before, Commands
      <4> HIDE DEF c1
      <4>5. Counted(o.h, o.srv, c1, p1)
        BY <1>0, <1>3, <2>3, <3>1, <3>2, <3>5, <4>1, <4>3, <4>4 DEF Counted
      <4>6. UnitStep(p, c, p1, c1)
        BY <1>0, <1>3, <2>3, <2>6, <3>1, <3>2, <4>1, <4>3, PhaseOf DEF UnitStep
      <4> QED BY <2>3, <4>5, <4>6 DEF p1, c1
    <3> QED BY <3>3, <3>4, <3>5 DEF Commands
  <2> QED BY <1>0, <1>3, <2>5, <2>6 DEF Counted
<1> QED BY <1>1, <1>2, <1>3

-----------------------------------------------------------------------------
(* A step of one session, made of what becomes of its parts.               *)
OwnUnit == [Promise!Next]_(Promise!vars)

LEMMA UnitStepOwn ==
    ASSUME prog \in [Sessions -> Program], m_inTransaction \in [Sessions -> Int],
           NEW s \in Sessions, NEW p1, NEW c1,
           prog' = [prog EXCEPT ![s] = p1],
           m_inTransaction' = [m_inTransaction EXCEPT ![s] = c1],
           UnitStep(prog[s], m_inTransaction[s], p1, c1)
    PROVE  OwnUnit
PROOF
<1> DEFINE ph == [t \in Sessions |-> Phase(prog[t], m_inTransaction[t])]
           dn == [t \in Sessions |-> prog[t].done]
           kp == [t \in Sessions |-> prog[t].kept]
<1>1. /\ ph' = [ph EXCEPT ![s] = Phase(p1, c1)]
      /\ dn' = [dn EXCEPT ![s] = p1.done]
      /\ kp' = [kp EXCEPT ![s] = p1.kept]
  OBVIOUS
<1>2. ph[s] = Phase(prog[s], m_inTransaction[s]) /\ dn[s] = prog[s].done /\ kp[s] = prog[s].kept
  OBVIOUS
<1>3. CASE /\ Phase(p1, c1) = Phase(prog[s], m_inTransaction[s])
           /\ p1.done = prog[s].done /\ p1.kept = prog[s].kept
  <2>1. ph' = ph /\ dn' = dn /\ kp' = kp
    BY <1>1, <1>2, <1>3
  <2> QED BY <2>1 DEF OwnUnit, Promise!vars
<1>4. CASE ~(/\ Phase(p1, c1) = Phase(prog[s], m_inTransaction[s])
             /\ p1.done = prog[s].done /\ p1.kept = prog[s].kept)
  <2>1. Promise!Set(s, Phase(p1, c1), p1.done, p1.kept)
    BY <1>1 DEF Promise!Set
  <2> HIDE DEF ph, dn, kp
  <2>2. CASE Phase(prog[s], m_inTransaction[s]) = "idle" /\ Phase(p1, c1) = "working"
             /\ p1.done = 0 /\ p1.kept = 0
    <3>1. Promise!Begin(s)
      BY <1>2, <2>1, <2>2 DEF Promise!Begin, ph
    <3> QED BY <3>1 DEF OwnUnit, Promise!Next
  <2>3. CASE Phase(prog[s], m_inTransaction[s]) = "working" /\ Phase(p1, c1) = "working"
             /\ p1.done = prog[s].done + 1 /\ p1.kept = prog[s].kept
    <3>1. prog[s].done = dn[s] /\ p1.kept = kp[s]
      BY <1>2, <2>3
    <3>2. p1.done = dn[s] + 1
      BY <2>3, <3>1
    <3>3. /\ ph' = [ph EXCEPT ![s] = "working"]
          /\ dn' = [dn EXCEPT ![s] = dn[s] + 1]
          /\ kp' = [kp EXCEPT ![s] = kp[s]]
      BY <1>1, <2>3, <3>1, <3>2
    <3>4. ph[s] = "working"
      BY <1>2, <2>3
    <3>5. Promise!Update(s)
      BY <3>3, <3>4 DEF Promise!Update, Promise!Set, ph, dn, kp
    <3> QED BY <3>5 DEF OwnUnit, Promise!Next
  <2>4. CASE Phase(prog[s], m_inTransaction[s]) = "working" /\ Phase(p1, c1) = "idle"
             /\ p1.done = prog[s].done /\ p1.kept \in {0, prog[s].done}
    <3>1. Promise!End(s)
      BY <1>2, <2>1, <2>4 DEF Promise!End, ph, dn
    <3> QED BY <3>1 DEF OwnUnit, Promise!Next
  <2>5. CASE Phase(prog[s], m_inTransaction[s]) # "abandoned" /\ Phase(p1, c1) = "abandoned"
             /\ p1.done = 0 /\ p1.kept = 0
    <3>1. Promise!Abandon(s)
      BY <1>2, <2>1, <2>5 DEF Promise!Abandon, ph
    <3> QED BY <3>1 DEF OwnUnit, Promise!Next
  <2>6. CASE Phase(p1, c1) = "idle" /\ p1.done = 0 /\ p1.kept = 0
    <3>1. Promise!Renew(s)
      BY <2>1, <2>6 DEF Promise!Renew
    <3> QED BY <3>1 DEF OwnUnit, Promise!Next
  <2> QED BY <1>4, <2>2, <2>3, <2>4, <2>5, <2>6 DEF UnitStep
<1> QED BY <1>3, <1>4

(* How s_DBName and its session may change when s gets handle h.           *)
NameStep(s, h) ==
    \/ /\ s_DBName' = s_DBName /\ namedBy' = namedBy
       /\ h = NULL \/ h.db = NULL \/ namedBy # s
             \/ (mysql[s] # NULL /\ h.db = mysql[s].db)
    \/ s_DBName' = s_DBName /\ namedBy' = NULL
    \/ namedBy' = s /\ s_DBName' \in Databases \union {Empty}
          /\ (h.db = NULL \/ h.db = s_DBName')

LEMMA SessionStep ==
    ASSUME IInv, NEW s \in Sessions, NEW h \in Handle \union {NULL},
           NEW srv \in ServerSession, NEW c1 \in Int, NEW p1 \in Program,
           NEW a1 \in {"unset", "true", "false"},
           mysql' = [mysql EXCEPT ![s] = h],
           server' = [server EXCEPT ![s] = srv],
           m_inTransaction' = [m_inTransaction EXCEPT ![s] = c1],
           prog' = [prog EXCEPT ![s] = p1],
           asked' = [asked EXCEPT ![s] = a1],
           NameStep(s, h),
           SessionInv(h, srv, c1, p1, a1),
           UnitStep(prog[s], m_inTransaction[s], p1, c1)
    PROVE  IInv' /\ OwnUnit
PROOF
<1>1. OwnUnit
  BY UnitStepOwn DEF IInv, TypeOK
<1>2. TypeOK'
  <2>1. /\ mysql' \in [Sessions -> Handle \union {NULL}]
        /\ server' \in [Sessions -> ServerSession]
        /\ prog' \in [Sessions -> Program]
    BY DEF IInv, TypeOK
  <2>2. m_inTransaction' \in [Sessions -> Int]
    BY DEF IInv, TypeOK
  <2>3. asked' \in [Sessions -> {"unset", "true", "false"}]
    BY DEF IInv, TypeOK
  <2>4. s_DBName' \in Databases \union {Empty} /\ namedBy' \in Sessions \union {NULL}
    BY DEF IInv, TypeOK, NameStep
  <2> QED BY <2>1, <2>2, <2>3, <2>4 DEF TypeOK
<1>3. \A t \in Sessions :
         SessionInv(mysql'[t], server'[t], m_inTransaction'[t], prog'[t], asked'[t])
  <2> TAKE t \in Sessions
  <2>1. CASE t = s
    BY <2>1 DEF IInv, TypeOK
  <2>2. CASE t # s
    BY <2>2 DEF IInv, TypeOK
  <2> QED BY <2>1, <2>2
<1>4. NameInv'
  <2> SUFFICES ASSUME NEW t \in Sessions, namedBy' = t, mysql'[t] # NULL, mysql'[t].db # NULL
               PROVE  s_DBName' = mysql'[t].db
    BY DEF NameInv, AsksOwnDatabase, HasDB, AskedDatabase
  <2>1. \A u \in Sessions : (namedBy = u /\ mysql[u] # NULL /\ mysql[u].db # NULL)
            => s_DBName = mysql[u].db
    BY DEF IInv, NameInv, AsksOwnDatabase, HasDB, AskedDatabase
  <2>2. CASE t = s
    BY <2>1, <2>2, SessionAssumption DEF IInv, TypeOK, NameStep
  <2>3. CASE t # s
    BY <2>1, <2>3, SessionAssumption DEF IInv, TypeOK, NameStep
  <2> QED BY <2>2, <2>3
<1> QED BY <1>1, <1>2, <1>3, <1>4 DEF IInv

-----------------------------------------------------------------------------
LEMMA InvBefore ==
    ASSUME IInv, NEW s \in Sessions, mysql[s] # NULL
    PROVE  Before(s) /\ asked[s] \in {"unset", "true", "false"}
BY DEF IInv, TypeOK, Before

LEMMA CommandStep ==
    ASSUME IInv, NEW s \in Sessions, NEW cmd \in Commands, NEW ok \in BOOLEAN,
           mysql[s] # NULL, Command(s, cmd, ok), Unnamed,
           m_inTransaction' =
               [m_inTransaction EXCEPT ![s] = CountAfter(m_inTransaction[s], cmd, ok)]
    PROVE  IInv' /\ OwnUnit
PROOF
<1>1. PICK o \in Outcomes(s, cmd, ok) :
        /\ mysql' = [mysql EXCEPT ![s] = o.h]
        /\ server' = [server EXCEPT ![s] = o.srv]
        /\ prog' = [prog EXCEPT ![s] = Noted(s, cmd, ok, o.gain)]
  BY DEF Command
<1>2. Before(s) /\ asked[s] \in {"unset", "true", "false"}
  BY InvBefore
<1>3. Well(s, cmd, ok, o) /\ o.h.db = mysql[s].db
  BY <1>2, OutcomeWell
<1> DEFINE c1 == CountAfter(m_inTransaction[s], cmd, ok)
           p1 == Noted(s, cmd, ok, o.gain)
<1>4. /\ p1 \in Program
      /\ Counted(o.h, o.srv, c1, p1)
      /\ UnitStep(prog[s], m_inTransaction[s], p1, c1)
  <2>1. Suits(s, cmd, ok, o)
    BY <1>3 DEF Well
  <2> QED BY <1>2, <2>1, NotedWell
<1>5. c1 \in Int
  BY <1>2 DEF CountAfter, Before
<1>6. asked' = [asked EXCEPT ![s] = asked[s]] /\ NameStep(s, o.h)
  BY <1>3 DEF Unnamed, NameStep, IInv, TypeOK
<1>7. o.h \in Handle /\ o.srv \in ServerSession /\ SessionInv(o.h, o.srv, c1, p1, asked[s])
  BY <1>3, <1>4 DEF Well, Suits, SessionInv
<1> HIDE DEF c1, p1
<1> QED BY <1>1, <1>2, <1>4, <1>5, <1>6, <1>7, SessionStep DEF c1, p1

LEMMA CommandsOwn ==
    ASSUME IInv, NEW s \in Sessions,
           \/ StartTransaction(s) \/ CommitTransaction(s) \/ Rollback(s) \/ ExecDML(s)
           \/ Query(s) \/ SetCharacterSet(s) \/ CreateOrDropDB(s)
    PROVE  IInv' /\ OwnUnit
PROOF
<1>1. mysql[s] # NULL
  BY DEF StartTransaction, CommitTransaction, Rollback, EndTransaction, ExecDML, Query,
         SetCharacterSet, CreateOrDropDB, HasDB, HasHandle
<1>2. PICK cmd \in Commands, ok \in BOOLEAN :
        /\ Command(s, cmd, ok) /\ Unnamed
        /\ m_inTransaction' =
               [m_inTransaction EXCEPT ![s] = CountAfter(m_inTransaction[s], cmd, ok)]
  <2>0. m_inTransaction \in [Sessions -> Int]
    BY DEF IInv, TypeOK
  <2>1. CASE StartTransaction(s)
    BY <2>0, <2>1 DEF StartTransaction, CountAfter, Commands
  <2>2. CASE CommitTransaction(s)
    BY <2>2 DEF CommitTransaction, EndTransaction, CountAfter, Commands
  <2>3. CASE Rollback(s)
    BY <2>3 DEF Rollback, EndTransaction, CountAfter, Commands
  <2>4. CASE ExecDML(s)
    BY <2>0, <2>4 DEF ExecDML, CountAfter, Commands
  <2>5. CASE Query(s)
    BY <2>0, <2>5 DEF Query, CountAfter, Commands
  <2>6. CASE SetCharacterSet(s)
    BY <2>0, <2>6 DEF SetCharacterSet, CountAfter, Commands
  <2>7. CASE CreateOrDropDB(s)
    BY <2>0, <2>7 DEF CreateOrDropDB, CountAfter, Commands
  <2> QED BY <2>1, <2>2, <2>3, <2>4, <2>5, <2>6, <2>7
<1> QED BY <1>1, <1>2, CommandStep

(* What a program that was told of no failure notes of its commit, and     *)
(* when that is not all it has done: only with the link gone.              *)
LEMMA CommitNoted ==
    ASSUME NEW s \in Sessions, NEW ok \in BOOLEAN, Before(s), NEW gain \in Nat,
           prog[s].orderly, ~prog[s].told, m_inTransaction[s] > 0
    PROVE  /\ m_inTransaction[s] = 1 /\ ~Breaks(s, "commit")
           /\ Noted(s, "commit", ok, gain).kept = gain
           /\ Noted(s, "commit", ok, gain).done = prog[s].done
PROOF
<1>1. /\ m_inTransaction[s] = 1 /\ prog[s] \in Program
      /\ prog[s].kept = 0 /\ prog[s].done \in Nat
  BY DEF Before, SessionInv, Counted, Program
<1>2. ~Breaks(s, "commit")
  BY <1>1 DEF Breaks
<1>3. Noted(s, "commit", ok, gain) =
         Updated(prog[s], FALSE, prog[s].done, prog[s].kept + gain, TRUE)
  BY <1>1, <1>2 DEF Noted, Updated
<1>4. prog[s].kept + gain = gain
  BY <1>1
<1>5. /\ Updated(prog[s], FALSE, prog[s].done, gain, TRUE).kept = gain
      /\ Updated(prog[s], FALSE, prog[s].done, gain, TRUE).done = prog[s].done
  BY <1>1 DEF Updated, Program
<1>6. Noted(s, "commit", ok, gain) = Updated(prog[s], FALSE, prog[s].done, gain, TRUE)
  BY <1>3, <1>4, Zenon
<1> QED BY <1>1, <1>2, <1>5, <1>6

LEMMA FailedCommitLosesLink ==
    ASSUME NEW s \in Sessions, Before(s), NEW o \in Fails(s, "commit")
    PROVE  o.h.link # "up"
PROOF
<1>1. CASE o \in {[h |-> h, srv |-> Gone, gain |-> 0] : h \in Undelivered(s)}
  <2>1. PICK h \in Undelivered(s) : o.h = h
    BY <1>1
  <2> QED BY <2>1 DEF Undelivered, Before, Handle
<1>2. CASE o \in ReplyLost(s, "commit")
  <2>1. PICK r \in Delivered(s) : o.h = [r.h EXCEPT !.link = "none"]
    BY <1>2 DEF ReplyLost
  <2>2. r.h \in Handle
    BY Delivery DEF Before, SessionInv
  <2> QED BY <2>1, <2>2 DEF Handle
<1>3. CASE o \in ErrorReply(s, "commit")
  BY <1>3 DEF ErrorReply
<1> QED BY <1>1, <1>2, <1>3 DEF Fails

LEMMA CommitKeepsOrLosesLink ==
    ASSUME IInv, NEW s \in Sessions, CommitTransaction(s),
           prog[s].orderly, ~prog[s].told, m_inTransaction[s] > 0
    PROVE  prog'[s].kept = prog'[s].done \/ mysql'[s].link # "up"
PROOF
<1>1. PICK ok \in BOOLEAN : Command(s, "commit", ok)
  BY DEF CommitTransaction, EndTransaction
<1>2. PICK o \in Outcomes(s, "commit", ok) :
        /\ mysql' = [mysql EXCEPT ![s] = o.h]
        /\ prog' = [prog EXCEPT ![s] = Noted(s, "commit", ok, o.gain)]
  BY <1>1 DEF Command
<1>3. mysql'[s] = o.h /\ prog'[s] = Noted(s, "commit", ok, o.gain)
  BY <1>2 DEF IInv, TypeOK
<1>4. Before(s)
  BY InvBefore DEF CommitTransaction, EndTransaction, HasDB
<1>5. Suits(s, "commit", ok, o)
  BY <1>4, OutcomeWell DEF Well, Commands
<1>6. /\ m_inTransaction[s] = 1 /\ ~Breaks(s, "commit")
      /\ prog'[s].kept = o.gain /\ prog'[s].done = prog[s].done
  BY <1>3, <1>4, <1>5, CommitNoted DEF Suits
<1>7. CASE ok
  <2>1. server[s].pending = prog[s].done /\ o.gain = Keeps("commit", server[s])
    BY <1>5, <1>6, <1>7 DEF Suits, Fits
  <2>2. Keeps("commit", server[s]) = server[s].pending
    BY DEF Keeps
  <2> QED BY <1>6, <2>1, <2>2
<1>8. CASE ~ok
  BY <1>2, <1>3, <1>4, <1>8, FailedCommitLosesLink DEF Outcomes
<1> QED BY <1>7, <1>8

LEMMA OpenOwn ==
    ASSUME IInv, NEW s \in Sessions, NEW db \in Databases, Open(s, db)
    PROVE  IInv' /\ OwnUnit
PROOF
<1>0. mysql[s] # NULL
  BY DEF Open, HasHandle
<1>14. PICK ok \in BOOLEAN : \E o \in Outcomes(s, "read", ok) :
        /\ mysql' = [mysql EXCEPT ![s] = IF ok THEN [o.h EXCEPT !.db = db] ELSE o.h]
        /\ server' = [server EXCEPT ![s] = o.srv]
        /\ prog' = [prog EXCEPT ![s] = Noted(s, "read", ok, 0)]
        /\ s_DBName' = IF ok THEN db ELSE s_DBName
        /\ namedBy' = IF ok THEN s ELSE namedBy
  BY DEF Open
<1>1. PICK o \in Outcomes(s, "read", ok) :
        /\ mysql' = [mysql EXCEPT ![s] = IF ok THEN [o.h EXCEPT !.db = db] ELSE o.h]
        /\ server' = [server EXCEPT ![s] = o.srv]
        /\ prog' = [prog EXCEPT ![s] = Noted(s, "read", ok, 0)]
        /\ s_DBName' = IF ok THEN db ELSE s_DBName
        /\ namedBy' = IF ok THEN s ELSE namedBy
  BY <1>14
<1>2. Before(s) /\ asked[s] \in {"unset", "true", "false"}
  BY <1>0, InvBefore
<1>3. Well(s, "read", ok, o) /\ o.h.db = mysql[s].db
  BY <1>2, OutcomeWell DEF Commands
<1> DEFINE h == IF ok THEN [o.h EXCEPT !.db = db] ELSE o.h
           o0 == [h |-> h, srv |-> o.srv, gain |-> 0]
<1>4. /\ h \in Handle /\ h.inTrans = o.h.inTrans /\ h.reconnect = o.h.reconnect
      /\ h.link = o.h.link /\ h.db = IF ok THEN db ELSE mysql[s].db
  BY <1>3 DEF Well, Suits, Handle
<1>5. h # NULL /\ o.h # NULL
  BY <1>3, <1>4, SessionAssumption DEF Well, Suits
<1>6. Linked(h, o.srv) /\ Asked(h, o.srv, asked[s])
  <2> HIDE DEF h
  <2> QED BY <1>3, <1>4, <1>5 DEF Well, Suits, Linked, Asked
<1>7. (prog[s].orderly /\ ~Breaks(s, "read")) =>
        Fits(mysql[s], server[s], m_inTransaction[s], prog[s], "read", ok, h, o.srv, 0)
  <2>1. Keeps("read", server[s]) = 0
    BY <1>2, Commanded DEF Before, Commands
  <2> HIDE DEF h
  <2> QED BY <1>3, <1>4, <2>1 DEF Well, Suits, Fits
<1>8. Suits(s, "read", ok, o0)
  <2>1. o0.h = h /\ o0.srv = o.srv /\ o0.gain = 0
    OBVIOUS
  <2> HIDE DEF h, o0
  <2> QED BY <1>3, <1>4, <1>6, <1>7, <2>1 DEF Well, Suits
<1> DEFINE p1 == Noted(s, "read", ok, 0)
<1>9. /\ p1 \in Program
      /\ Counted(h, o.srv, m_inTransaction[s], p1)
      /\ UnitStep(prog[s], m_inTransaction[s], p1, m_inTransaction[s])
  <2>1. CountAfter(m_inTransaction[s], "read", ok) = m_inTransaction[s]
    BY DEF CountAfter
  <2>2. o0.h = h /\ o0.srv = o.srv /\ o0.gain = 0
    OBVIOUS
  <2> HIDE DEF h, o0
  <2> QED BY <1>2, <1>8, <2>1, <2>2, NotedWell DEF Commands
<1>10. NameStep(s, h)
  <2> HIDE DEF h
  <2> QED BY <1>0, <1>1, <1>4 DEF NameStep
<1>11. /\ asked' = [asked EXCEPT ![s] = asked[s]]
       /\ m_inTransaction' = [m_inTransaction EXCEPT ![s] = m_inTransaction[s]]
  BY DEF Open, IInv, TypeOK
<1>12. SessionInv(h, o.srv, m_inTransaction[s], p1, asked[s])
  BY <1>6, <1>9 DEF SessionInv
<1>13. m_inTransaction[s] \in Int /\ o.srv \in ServerSession
  BY <1>2, <1>3 DEF Before, Well, Suits
<1> HIDE DEF h, p1, o0
<1> QED BY <1>1, <1>2, <1>4, <1>9, <1>10, <1>11, <1>12, <1>13, SessionStep DEF h, p1

(* mysql_real_connect with the options of handle h0.                       *)
LEMMA RealConnectOwn ==
    ASSUME IInv, NEW s \in Sessions, mysql[s] # NULL, NEW h0 \in Handle,
           h0.link = mysql[s].link, h0.inTrans = mysql[s].inTrans, h0.db = mysql[s].db,
           NEW a1 \in {"unset", "true", "false"}, h0.reconnect => a1 # "unset",
           asked[s] # "unset" => a1 # "unset",
           NEW db \in Databases \union {NULL}, NEW ok \in BOOLEAN,
           RealConnect(s, h0, db, ok),
           asked' = [asked EXCEPT ![s] = a1], m_inTransaction' = m_inTransaction,
           \/ /\ ok /\ namedBy' = s /\ s_DBName' \in Databases \union {Empty}
              /\ db = NULL \/ db = s_DBName'
           \/ /\ ok /\ s_DBName' = s_DBName
              /\ namedBy' = NULL \/ (namedBy' = namedBy /\ namedBy # s)
           \/ ~ok /\ s_DBName' = s_DBName /\ namedBy' = namedBy
    PROVE  IInv' /\ OwnUnit
PROOF
<1>1. Before(s) /\ asked[s] \in {"unset", "true", "false"}
  BY InvBefore
<1>2. PICK h, srv :
        /\ mysql' = [mysql EXCEPT ![s] = h] /\ server' = [server EXCEPT ![s] = srv]
        /\ \/ /\ ok /\ h0.link = "none" /\ srv = NewServer(FALSE)
              /\ h = [h0 EXCEPT !.db = db, !.known = TRUE, !.inTrans = FALSE, !.link = "up"]
           \/ /\ ~ok /\ h0.link = "none" /\ srv = server[s]
              /\ h = [h0 EXCEPT !.db = NULL, !.known = FALSE]
           \/ ~ok /\ h0.link # "none" /\ srv = server[s] /\ h = h0
  <2>1. server' = [server EXCEPT ![s] = server[s]] \/ server' # server
    BY DEF IInv, TypeOK
  <2> QED BY <2>1 DEF RealConnect
<1>3. /\ h \in Handle /\ srv \in ServerSession /\ h.reconnect = h0.reconnect
      /\ ok => h.db = db
      /\ ~ok => h.db \in {NULL, mysql[s].db}
      /\ Linked(h, srv) /\ (srv.auto => server[s].auto)
      /\ srv.txn => server[s].txn
  <2>1. h0 # NULL /\ server[s] \in ServerSession /\ Linked(mysql[s], server[s])
        /\ mysql[s] # NULL
    BY <1>1, SessionAssumption DEF Before, SessionInv
  <2>2. CASE /\ ok /\ h0.link = "none" /\ srv = NewServer(FALSE)
             /\ h = [h0 EXCEPT !.db = db, !.known = TRUE, !.inTrans = FALSE, !.link = "up"]
    <3>1. h \in Handle /\ h.db = db /\ h.reconnect = h0.reconnect
      BY <2>2 DEF Handle
    <3>2. srv = Gone
      BY <2>2 DEF Gone
    <3> QED BY <2>2, <3>1, <3>2, GoneWell
  <2>3. CASE /\ ~ok /\ h0.link = "none" /\ srv = server[s]
             /\ h = [h0 EXCEPT !.db = NULL, !.known = FALSE]
    <3>1. h \in Handle /\ h.db = NULL /\ h.reconnect = h0.reconnect
      BY <2>3 DEF Handle
    <3>2. srv = Gone
      BY <2>1, <2>3 DEF Linked
    <3> QED BY <2>3, <3>1, <3>2, GoneWell
  <2>4. CASE ~ok /\ h0.link # "none" /\ srv = server[s] /\ h = h0
    BY <2>1, <2>4 DEF Linked
  <2> QED BY <1>2, <2>2, <2>3, <2>4
<1>4. Asked(h, srv, a1)
  BY <1>1, <1>3 DEF Asked, Before, SessionInv
<1> DEFINE p1 == Noted(s, "connect", ok, 0)
           o == [h |-> h, srv |-> srv, gain |-> 0]
<1>5. Suits(s, "connect", ok, o)
  <2>1. o.h = h /\ o.srv = srv /\ o.gain = 0
    OBVIOUS
  <2> HIDE DEF o
  <2>2. ASSUME prog[s].orderly, ~Breaks(s, "connect")
        PROVE  Fits(mysql[s], server[s], m_inTransaction[s], prog[s], "connect", ok, h, srv, 0)
    <3>1. m_inTransaction[s] = 0 /\ ~server[s].txn
      BY <1>1, <2>2 DEF Before, SessionInv, Counted, Breaks
    <3> QED BY <1>3, <3>1 DEF Fits
  <2> QED BY <1>3, <2>1, <2>2 DEF Suits
<1>6. /\ p1 \in Program /\ UnitStep(prog[s], m_inTransaction[s], p1, m_inTransaction[s])
      /\ Counted(h, srv, m_inTransaction[s], p1)
  <2>1. CountAfter(m_inTransaction[s], "connect", ok) = m_inTransaction[s]
    BY DEF CountAfter
  <2>2. o.h = h /\ o.srv = srv /\ o.gain = 0
    OBVIOUS
  <2> HIDE DEF o
  <2> QED BY <1>1, <1>5, <2>1, <2>2, NotedWell
<1>7. NameStep(s, h)
  BY <1>3 DEF NameStep
<1>8. m_inTransaction' = [m_inTransaction EXCEPT ![s] = m_inTransaction[s]]
      /\ m_inTransaction[s] \in Int
  BY DEF IInv, TypeOK
<1>9. prog' = [prog EXCEPT ![s] = p1]
  BY DEF RealConnect
<1>10. SessionInv(h, srv, m_inTransaction[s], p1, a1)
  BY <1>3, <1>4, <1>6 DEF SessionInv
<1> HIDE DEF p1, o
<1> QED BY <1>2, <1>3, <1>6, <1>7, <1>8, <1>9, <1>10, SessionStep

LEMMA ConnectOwn ==
    ASSUME IInv, NEW s \in Sessions, Connect(s)
    PROVE  IInv' /\ OwnUnit
PROOF
<1>1. mysql[s] # NULL /\ mysql[s] \in Handle /\ asked[s] \in {"unset", "true", "false"}
  BY InvBefore DEF Connect, HasHandle, Before
<1>2. PICK db \in Databases \union {NULL}, ok \in BOOLEAN :
        /\ RealConnect(s, mysql[s], db, ok)
        /\ namedBy' = IF ok /\ namedBy = s THEN NULL ELSE namedBy
  BY DEF Connect
<1>3. asked' = [asked EXCEPT ![s] = asked[s]] /\ m_inTransaction' = m_inTransaction
      /\ s_DBName' = s_DBName
  BY DEF Connect, IInv, TypeOK
<1>4. mysql[s].reconnect => asked[s] # "unset"
  BY <1>1, InvBefore DEF Before, SessionInv, Asked
<1> QED BY <1>1, <1>2, <1>3, <1>4, RealConnectOwn

LEMMA ConnectStringOwn ==
    ASSUME IInv, NEW s \in Sessions, NEW str \in ConnStrings, ConnectString(s, str)
    PROVE  IInv' /\ OwnUnit
PROOF
<1> DEFINE auto == Option(str, "auto-reconnect")
           name == Option(str, "db")
           db == IF name = Empty THEN NULL ELSE name
           h0 == WithOptions(mysql[s], str)
           a1 == IF IsSwitch(auto) THEN auto ELSE asked[s]
<1>1. Before(s) /\ mysql[s] # NULL /\ asked[s] \in {"unset", "true", "false"}
  BY InvBefore DEF ConnectString, HasHandle
<1>2. CASE WellFormed(str)
  <2>1. PICK ok \in BOOLEAN :
          /\ RealConnect(s, h0, db, ok)
          /\ s_DBName' = IF ok THEN name ELSE s_DBName
          /\ namedBy' = IF ok THEN s ELSE namedBy
    BY <1>2 DEF ConnectString
  <2>2. name \in Databases \union {Empty}
    BY ConnStringAssumption
  <2>3. asked' = [asked EXCEPT ![s] = a1] /\ a1 \in {"unset", "true", "false"}
        /\ (asked[s] # "unset" => a1 # "unset") /\ m_inTransaction' = m_inTransaction
    <3>1. asked' = IF IsSwitch(auto) THEN [asked EXCEPT ![s] = auto] ELSE asked
      BY <1>2 DEF ConnectString
    <3>2. m_inTransaction' = m_inTransaction
      BY DEF ConnectString
    <3>3. CASE IsSwitch(auto)
      BY <3>1, <3>2, <3>3 DEF IsSwitch
    <3>4. CASE ~IsSwitch(auto)
      <4> HIDE DEF auto
      <4> QED BY <1>1, <3>1, <3>2, <3>4 DEF IInv, TypeOK
    <3> QED BY <3>3, <3>4
  <2>4. /\ h0 \in Handle /\ h0.link = mysql[s].link /\ h0.inTrans = mysql[s].inTrans
        /\ h0.db = mysql[s].db
        /\ h0.reconnect => mysql[s].reconnect \/ IsSwitch(auto)
    <3>1. mysql[s] \in Handle
      BY <1>1 DEF Before
    <3>2. IsSwitch(auto) \in BOOLEAN
      BY DEF IsSwitch
    <3> HIDE DEF auto
    <3>3. h0 = [mysql[s] EXCEPT !.reconnect = mysql[s].reconnect \/ IsSwitch(auto)]
      BY DEF WithOptions, auto
    <3> HIDE DEF h0
    <3> QED BY <3>1, <3>2, <3>3 DEF Handle
  <2>5. h0.reconnect => a1 # "unset"
    <3>1. mysql[s].reconnect => asked[s] # "unset"
      BY <1>1 DEF Before, SessionInv, Asked
    <3> HIDE DEF h0, auto
    <3> QED BY <2>3, <2>4, <3>1 DEF IsSwitch
  <2>6. db \in Databases \union {NULL} /\ (db = NULL \/ db = name)
    BY <2>2
  <2> HIDE DEF h0, a1, db, name
  <2> QED BY <1>1, <2>1, <2>2, <2>3, <2>4, <2>5, <2>6, RealConnectOwn
<1>3. CASE ~WellFormed(str)
  <2>1. /\ prog' = [prog EXCEPT ![s] = Noted(s, "connect", FALSE, 0)]
        /\ mysql' = mysql /\ server' = server /\ asked' = asked
        /\ s_DBName' = s_DBName /\ namedBy' = namedBy /\ m_inTransaction' = m_inTransaction
    BY <1>3 DEF ConnectString
  <2>2. /\ mysql' = [mysql EXCEPT ![s] = mysql[s]]
        /\ server' = [server EXCEPT ![s] = server[s]]
        /\ asked' = [asked EXCEPT ![s] = asked[s]]
        /\ m_inTransaction' = [m_inTransaction EXCEPT ![s] = m_inTransaction[s]]
    BY <2>1 DEF IInv, TypeOK
  <2> DEFINE o == [h |-> mysql[s], srv |-> server[s], gain |-> 0]
             p1 == Noted(s, "connect", FALSE, 0)
  <2>3. o.h = mysql[s] /\ o.srv = server[s] /\ o.gain = 0
    OBVIOUS
  <2> HIDE DEF o
  <2>4. Suits(s, "connect", FALSE, o)
    <3>1. ASSUME prog[s].orderly, ~Breaks(s, "connect")
          PROVE  Fits(mysql[s], server[s], m_inTransaction[s], prog[s], "connect", FALSE,
                      o.h, o.srv, o.gain)
      <4>1. m_inTransaction[s] = 0 /\ ~server[s].txn
        BY <1>1, <3>1 DEF Before, SessionInv, Counted, Breaks
      <4> QED BY <2>3, <4>1 DEF Fits
    <3>2. o.h \in Handle /\ o.srv \in ServerSession /\ o.gain \in Nat /\ Linked(o.h, o.srv)
      BY <1>1, <2>3 DEF Before, SessionInv
    <3> QED BY <3>1, <3>2 DEF Suits
  <2>5. /\ p1 \in Program /\ UnitStep(prog[s], m_inTransaction[s], p1, m_inTransaction[s])
        /\ Counted(mysql[s], server[s], m_inTransaction[s], p1)
    <3>1. CountAfter(m_inTransaction[s], "connect", FALSE) = m_inTransaction[s]
      BY DEF CountAfter
    <3> QED BY <1>1, <2>3, <2>4, <3>1, NotedWell
  <2>6. NameStep(s, mysql[s])
    BY <1>1, <2>1 DEF NameStep
  <2>7. SessionInv(mysql[s], server[s], m_inTransaction[s], p1, asked[s])
    BY <1>1, <2>5 DEF SessionInv, Before
  <2>8. mysql[s] \in Handle /\ server[s] \in ServerSession /\ m_inTransaction[s] \in Int
    BY <1>1 DEF Before
  <2> HIDE DEF p1
  <2> QED BY <1>1, <2>1, <2>2, <2>5, <2>6, <2>7, <2>8, SessionStep DEF p1
<1> QED BY <1>2, <1>3

LEMMA OthersOwn ==
    ASSUME IInv, NEW s \in Sessions, Close(s) \/ Renew(s) \/ ServerDrops(s)
    PROVE  IInv' /\ OwnUnit
PROOF
<1>1. /\ m_inTransaction[s] \in Int /\ prog[s] \in Program
      /\ asked[s] \in {"unset", "true", "false"} /\ mysql[s] \in Handle \union {NULL}
      /\ SessionInv(mysql[s], server[s], m_inTransaction[s], prog[s], asked[s])
  BY DEF IInv, TypeOK
<1>2. m_inTransaction = [m_inTransaction EXCEPT ![s] = m_inTransaction[s]]
      /\ asked = [asked EXCEPT ![s] = asked[s]] /\ prog = [prog EXCEPT ![s] = prog[s]]
  BY DEF IInv, TypeOK
<1>3. UnitStep(prog[s], m_inTransaction[s], prog[s], m_inTransaction[s])
  BY DEF UnitStep
<1>4. CASE Close(s)
  <2>1. SessionInv(NULL, Gone, m_inTransaction[s], prog[s], asked[s])
    BY <1>1, GoneWell DEF SessionInv, Asked, Counted
  <2>2. NameStep(s, NULL)
    BY <1>4 DEF Close, NameStep
  <2> QED BY <1>1, <1>2, <1>3, <1>4, <2>1, <2>2, GoneWell, SessionStep DEF Close
<1>5. CASE Renew(s)
  <2>1. SessionInv(NewHandle, Gone, 0, NewProgram, "unset")
    BY NewSession
  <2>2. NameStep(s, NewHandle)
    BY <1>5 DEF Renew, NameStep, NewHandle
  <2>3. UnitStep(prog[s], m_inTransaction[s], NewProgram, 0)
    <3>1. NewProgram.orderly /\ NewProgram.done = 0 /\ NewProgram.kept = 0
      BY DEF NewProgram
    <3>2. Phase(NewProgram, 0) = "idle"
      BY <3>1, NewValues, PhaseOf
    <3> QED BY <3>1, <3>2 DEF UnitStep
  <2>4. /\ mysql' = [mysql EXCEPT ![s] = NewHandle]
        /\ server' = [server EXCEPT ![s] = Gone]
        /\ m_inTransaction' = [m_inTransaction EXCEPT ![s] = 0]
        /\ prog' = [prog EXCEPT ![s] = NewProgram]
        /\ asked' = [asked EXCEPT ![s] = "unset"]
    BY <1>5 DEF Renew
  <2>5. NewHandle \in Handle \union {NULL} /\ Gone \in ServerSession
        /\ NewProgram \in Program /\ 0 \in Int /\ "unset" \in {"unset", "true", "false"}
    BY NewValues
  <2> QED BY <2>1, <2>2, <2>3, <2>4, <2>5, SessionStep
<1>6. CASE ServerDrops(s)
  <2> DEFINE h == [mysql[s] EXCEPT !.link = "dead"]
  <2>1. mysql[s] # NULL /\ mysql[s] \in Handle
    BY <1>1, <1>6 DEF ServerDrops, HasHandle
  <2>2. h \in Handle /\ h.link = "dead" /\ h.db = mysql[s].db /\ h.inTrans = mysql[s].inTrans
        /\ h.reconnect = mysql[s].reconnect
    BY <2>1 DEF Handle
  <2>3. mysql' = [mysql EXCEPT ![s] = h] /\ server' = [server EXCEPT ![s] = Gone]
        /\ m_inTransaction' = m_inTransaction /\ prog' = prog /\ asked' = asked
        /\ s_DBName' = s_DBName /\ namedBy' = namedBy
    BY <1>6 DEF ServerDrops, Unnamed
  <2> HIDE DEF h
  <2>4. NameStep(s, h)
    BY <2>1, <2>2, <2>3 DEF NameStep
  <2>5. SessionInv(h, Gone, m_inTransaction[s], prog[s], asked[s])
    BY <1>1, <2>1, <2>2, GoneWell DEF SessionInv, Asked, Counted
  <2> QED BY <1>1, <1>2, <1>3, <2>2, <2>3, <2>4, <2>5, GoneWell, SessionStep
<1> QED BY <1>4, <1>5, <1>6

LEMMA StepOwn == IInv /\ [Next]_vars => IInv' /\ OwnUnit
PROOF
<1> SUFFICES ASSUME IInv, [Next]_vars PROVE IInv' /\ OwnUnit
  OBVIOUS
<1>1. CASE Next
  <2>1. PICK s \in Sessions : Step(s)
    BY <1>1 DEF Next
  <2>2. CASE Connect(s)
    BY <2>2, ConnectOwn
  <2>3. CASE \E str \in ConnStrings : ConnectString(s, str)
    BY <2>3, ConnectStringOwn
  <2>4. CASE \E db \in Databases : Open(s, db)
    BY <2>4, OpenOwn
  <2>5. CASE Close(s) \/ Renew(s) \/ ServerDrops(s)
    BY <2>5, OthersOwn
  <2>6. CASE \/ StartTransaction(s) \/ CommitTransaction(s) \/ Rollback(s) \/ ExecDML(s)
             \/ Query(s) \/ SetCharacterSet(s) \/ CreateOrDropDB(s)
    BY <2>6, CommandsOwn
  <2> QED BY <2>1, <2>2, <2>3, <2>4, <2>5, <2>6 DEF Step
<1>2. CASE UNCHANGED vars
  <2>1. /\ mysql' = mysql /\ m_inTransaction' = m_inTransaction /\ s_DBName' = s_DBName
        /\ server' = server /\ asked' = asked /\ namedBy' = namedBy /\ prog' = prog
    BY <1>2 DEF vars
  <2>2. IInv'
    BY <2>1 DEF IInv, TypeOK, NameInv, AsksOwnDatabase, HasDB, AskedDatabase
  <2>3. OwnUnit
    BY <2>1 DEF OwnUnit, Promise!vars
  <2> QED BY <2>2, <2>3
<1> QED BY <1>1, <1>2

-----------------------------------------------------------------------------
THEOREM Invariance == Spec => []IInv
PROOF
<1>1. IInv /\ [Next]_vars => IInv'
  BY StepOwn
<1> QED BY InitIInv, <1>1, PTL DEF Spec

(* The types of all variables, for any number of sessions.                 *)
THEOREM TypeCorrectness == Spec => []TypeOK
PROOF
<1>1. IInv => TypeOK
  BY DEF IInv
<1> QED BY Invariance, <1>1, PTL

(* The server has no transaction open, with its locks, that isTransaction()*)
(* does not tell of.                                                       *)
THEOREM NeverHiddenTransaction == Spec => []NoHiddenTransaction
PROOF
<1>1. IInv => NoHiddenTransaction
  BY DEF IInv, NoHiddenTransaction, SessionInv, Counted
<1> QED BY Invariance, <1>1, PTL

(* isTransaction() tells of a transaction that the server has, unless the  *)
(* program was told of a failure or the link has gone.                     *)
THEOREM RealTransaction == Spec => []TransactionIsReal
PROOF
<1>1. IInv => TransactionIsReal
  BY DEF IInv, TypeOK, TransactionIsReal, HasHandle, SessionInv, Counted
<1> QED BY Invariance, <1>1, PTL

(* The client reopens sessions only for a program that gave the            *)
(* "auto-reconnect" option.                                                *)
THEOREM OnlyAskedReopening == Spec => []ReopensOnlyWhenAsked
PROOF
<1>1. IInv => ReopensOnlyWhenAsked
  BY DEF IInv, ReopensOnlyWhenAsked, SessionInv, Asked
<1> QED BY Invariance, <1>1, PTL

(* tableExists() of the session that selected a database last asks for a   *)
(* table of that session's database.                                       *)
THEOREM OwnDatabase == Spec => []AsksOwnDatabase
PROOF
<1>1. IInv => AsksOwnDatabase
  BY DEF IInv, NameInv
<1> QED BY Invariance, <1>1, PTL

(* A commit that lost what the program was told is done, of which          *)
(* commitTransaction() says nothing, has left the session without a link.  *)
THEOREM LostCommitShows == Spec => LostCommitLosesLink
PROOF
<1>1. ASSUME IInv, NEW s \in Working,
             prog[s].orderly, ~prog[s].told, m_inTransaction[s] > 0, CommitTransaction(s)
      PROVE  prog'[s].kept = prog'[s].done \/ mysql'[s].link # "up"
  BY <1>1, CommitKeepsOrLosesLink, SessionAssumption
<1> DEFINE Shows == \A s \in Working :
              /\ prog[s].orderly /\ ~prog[s].told /\ m_inTransaction[s] > 0
              /\ CommitTransaction(s)
              => prog'[s].kept = prog'[s].done \/ mysql'[s].link # "up"
<1>2. IInv => [Shows]_vars
  BY <1>1
<1> QED BY Invariance, <1>2, PTL DEF Spec, LostCommitLosesLink

(* The transactions of a program that keeps the rules keep all of their    *)
(* updates or none: every session implements UnitOfWork.                   *)
THEOREM UnitsOfWork == Spec => AllOrNothing
PROOF
<1>1. Init => Promise!Init
  <2> SUFFICES ASSUME Init PROVE Promise!Init
    OBVIOUS
  <2>1. \A s \in Sessions : prog[s] = NewProgram /\ m_inTransaction[s] = 0
    BY DEF Init
  <2>2. NewProgram.done = 0 /\ NewProgram.kept = 0 /\ Phase(NewProgram, 0) = "idle"
    BY NewValues, PhaseOf DEF NewProgram
  <2> QED BY <2>1, <2>2 DEF Promise!Init
<1>2. IInv /\ [Next]_vars => [Promise!Next]_(Promise!vars)
  BY StepOwn DEF OwnUnit
<1> QED BY <1>1, <1>2, Invariance, PTL DEF AllOrNothing, Promise!Spec, Spec

(* What this means for the states: of the updates that the program was     *)
(* told are done, the database has none while the transaction goes on, and *)
(* none or all of them afterwards.                                         *)
THEOREM WholeTransactions == Spec => []Promise!Whole
PROOF
<1> DEFINE ph == [t \in Sessions |-> Phase(prog[t], m_inTransaction[t])]
           dn == [t \in Sessions |-> prog[t].done]
           kp == [t \in Sessions |-> prog[t].kept]
<1>1. Promise!Init => Promise!Whole
  BY DEF Promise!Init, Promise!Whole
<1>2. Promise!Whole /\ [Promise!Next]_(Promise!vars) => Promise!Whole'
  <2> SUFFICES ASSUME Promise!Whole, [Promise!Next]_(Promise!vars) PROVE Promise!Whole'
    OBVIOUS
  <2>1. \A s \in Sessions : kp[s] \in {0, dn[s]} /\ (ph[s] = "working" => kp[s] = 0)
    BY DEF Promise!Whole
  <2>2. ASSUME NEW s \in Sessions, NEW p, NEW d, NEW k,
               ph' = [ph EXCEPT ![s] = p], dn' = [dn EXCEPT ![s] = d],
               kp' = [kp EXCEPT ![s] = k],
               k \in {0, d}, p = "working" => k = 0
        PROVE  Promise!Whole'
    <3>2. /\ DOMAIN ph = Sessions /\ DOMAIN dn = Sessions /\ DOMAIN kp = Sessions
      OBVIOUS
    <3>3. ASSUME NEW t \in Sessions
          PROVE  kp'[t] \in {0, dn'[t]} /\ (ph'[t] = "working" => kp'[t] = 0)
      <4> HIDE DEF ph, dn, kp
      <4> QED BY <2>1, <2>2, <3>2
    <3> QED BY <3>3 DEF Promise!Whole
  <2>3. CASE UNCHANGED Promise!vars
    BY <2>1, <2>3 DEF Promise!vars, Promise!Whole
  <2>4. CASE Promise!Next
    <3>1. PICK s \in Sessions :
            \/ Promise!Begin(s) \/ Promise!Update(s) \/ Promise!End(s)
            \/ Promise!Abandon(s) \/ Promise!Renew(s)
      BY <2>4 DEF Promise!Next
    <3>2. CASE Promise!Update(s)
      <4>1. /\ ph[s] = "working" /\ ph' = [ph EXCEPT ![s] = "working"]
            /\ dn' = [dn EXCEPT ![s] = dn[s] + 1] /\ kp' = [kp EXCEPT ![s] = kp[s]]
        BY <3>2 DEF Promise!Update, Promise!Set
      <4> HIDE DEF ph, dn, kp
      <4> QED BY <2>1, <2>2, <4>1
    <3>3. CASE Promise!End(s)
      <4>1. PICK k \in {0, dn[s]} :
              /\ ph' = [ph EXCEPT ![s] = "idle"] /\ dn' = [dn EXCEPT ![s] = dn[s]]
              /\ kp' = [kp EXCEPT ![s] = k]
        BY <3>3 DEF Promise!End, Promise!Set
      <4> HIDE DEF ph, dn, kp
      <4> QED BY <2>2, <4>1
    <3>4. CASE Promise!Begin(s) \/ Promise!Abandon(s) \/ Promise!Renew(s)
      BY <2>2, <3>4 DEF Promise!Begin, Promise!Abandon, Promise!Renew, Promise!Set
    <3> QED BY <3>1, <3>2, <3>3, <3>4
  <2> QED BY <2>3, <2>4
<1> QED BY <1>1, <1>2, UnitsOfWork, PTL DEF AllOrNothing, Promise!Spec
=============================================================================
