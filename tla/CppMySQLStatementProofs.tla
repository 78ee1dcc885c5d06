---------------------- MODULE CppMySQLStatementProofs ----------------------
(* Proofs about CppMySQLStatement, for any number of objects, statements,  *)
(* parameters, strings and values.                                         *)
EXTENDS CppMySQLStatement, TLAPS

(* What an array points to is still what was asked for.                    *)
PendingIntact ==
    \A s \in Ss : m_pBindArray[s] # NULL =>
        \A i \in DOMAIN m_pBindArray[s] :
            mem[m_pBindArray[s][i].buffer] = m_pBindArray[s][i].value

(* The inductive invariant.  An execution sends what was asked for because *)
(* a careful program left every pending address alone, and because the     *)
(* array has an entry for each parameter of the statement it belongs to,   *)
(* which no other object can have changed: the handle has one owner.       *)
IInv ==
    /\ TypeOK
    /\ StatementHandles!Exclusive
    /\ MembersAgree
    /\ Careful => PendingIntact /\ SendsWhatWasBound

THEOREM InitIInv == Init => IInv
BY StatementAssumption
   DEF Init, IInv, TypeOK, StatementHandles!Exclusive, MembersAgree, Prepared,
       PendingIntact, SendsWhatWasBound, Addresses

-----------------------------------------------------------------------------
LEMMA EmptyArray == <<>> \in Seq(Entries) /\ <<>> # NULL /\ Len(<<>>) = 0
PROOF
<1>1. <<>> \in Seq(Entries)
  OBVIOUS
<1>2. <<>> # NULL
  BY <1>1, StatementAssumption
<1>3. Len(<<>>) = 0
  OBVIOUS
<1> QED BY <1>1, <1>2, <1>3

(* One more entry.                                                         *)
LEMMA AppendEntry ==
    ASSUME NEW array \in Seq(Entries), NEW e \in Entries
    PROVE  /\ Append(array, e) \in Seq(Entries)
           /\ Append(array, e) # NULL
           /\ Len(Append(array, e)) = Len(array) + 1
           /\ \A i \in DOMAIN Append(array, e) :
                 IF i \in DOMAIN array THEN Append(array, e)[i] = array[i]
                 ELSE Append(array, e)[i] = e
PROOF
<1>1. Append(array, e) \in Seq(Entries)
  OBVIOUS
<1>2. Append(array, e) # NULL
  BY <1>1, StatementAssumption
<1>3. Len(Append(array, e)) = Len(array) + 1
  OBVIOUS
<1>4. ASSUME NEW i \in DOMAIN Append(array, e)
      PROVE  IF i \in DOMAIN array THEN Append(array, e)[i] = array[i]
             ELSE Append(array, e)[i] = e
  <2>1. DOMAIN array = 1 .. Len(array) /\ Len(array) \in Nat
    OBVIOUS
  <2>2. i \in 1 .. (Len(array) + 1)
    BY <1>3, <1>1
  <2> QED BY <2>1, <2>2
<1> QED BY <1>1, <1>2, <1>3, <1>4

(* What an array points to is pending.                                     *)
LEMMA PendingBuffers ==
    ASSUME NEW s \in Ss, m_pBindArray[s] # NULL, NEW i \in DOMAIN m_pBindArray[s]
    PROVE  m_pBindArray[s][i].buffer \in Pending
PROOF
<1> DEFINE of(o) == IF m_pBindArray[o] = NULL THEN {}
                    ELSE {m_pBindArray[o][j] : j \in DOMAIN m_pBindArray[o]}
<1>1. m_pBindArray[s][i] \in of(s)
  OBVIOUS
<1>2. m_pBindArray[s][i] \in UNION {of(o) : o \in Ss}
  BY <1>1
<1> QED BY <1>2 DEF Pending

(* Writing where a careful program may write leaves the arrays intact.     *)
LEMMA ChangeKeepsPending ==
    ASSUME TypeOK, NEW a \in Addresses, NEW v, MayChange(a), Careful,
           PendingIntact, mem' = [mem EXCEPT ![a] = v]
    PROVE  \A s \in Ss : m_pBindArray[s] # NULL =>
              \A i \in DOMAIN m_pBindArray[s] :
                 mem'[m_pBindArray[s][i].buffer] = m_pBindArray[s][i].value
PROOF
<1> SUFFICES ASSUME NEW s \in Ss, m_pBindArray[s] # NULL,
                    NEW i \in DOMAIN m_pBindArray[s]
             PROVE  mem'[m_pBindArray[s][i].buffer] = m_pBindArray[s][i].value
  OBVIOUS
<1>1. m_pBindArray[s][i].buffer # a
  BY PendingBuffers DEF MayChange
<1>2. m_pBindArray[s][i].buffer \in Addresses
  <2>1. m_pBindArray[s] \in Seq(Entries)
    BY DEF TypeOK
  <2>2. m_pBindArray[s][i] \in Entries
    BY <2>1
  <2> QED BY <2>2 DEF Entries
<1>3. mem[m_pBindArray[s][i].buffer] = m_pBindArray[s][i].value
  BY DEF PendingIntact
<1> QED BY <1>1, <1>2, <1>3 DEF TypeOK

(* Steps of the abstract specification.                                    *)
OwnStep == [StatementHandles!Next]_(StatementHandles!vars)

LEMMA CompileOwns ==
    ASSUME IInv, NEW s \in Ss, Compile(s)
    PROVE  OwnStep
PROOF
<1>1. PICK h \in Stmts :
         /\ stmt[h] = "free"
         /\ stmt' = [stmt EXCEPT ![h] = "prepared"]
         /\ m_pStmt' = [m_pStmt EXCEPT ![s] = h]
  BY DEF Compile, SetMembers
<1>2. h \notin Prepared /\ Prepared' = Prepared \union {h}
  BY <1>1 DEF Prepared, IInv, TypeOK
<1> QED BY <1>1, <1>2
        DEF Compile, OwnStep, StatementHandles!Next, StatementHandles!Obtain

LEMMA CompileThrowsOwns ==
    ASSUME IInv, CompileThrows
    PROVE  OwnStep
PROOF
<1>1. Prepared' = Prepared
  BY DEF CompileThrows, Prepared, IInv, TypeOK
<1> QED BY <1>1
        DEF CompileThrows, members, OwnStep, StatementHandles!vars

LEMMA CopyOwns ==
    ASSUME IInv, NEW s \in Ss, NEW src \in Ss, Copy(s, src)
    PROVE  OwnStep
PROOF
<1>1. Prepared' = Prepared \ {m_pStmt[s]}
  BY StatementAssumption DEF Copy, Prepared
<1> QED BY <1>1
        DEF Copy, Move, OwnStep, StatementHandles!Next, StatementHandles!Move

LEMMA ReleaseOwns ==
    ASSUME IInv, NEW s \in Ss, Clear(s) \/ Destroy(s)
    PROVE  OwnStep
PROOF
<1>1. /\ stmt' = Closed(m_pStmt[s])
      /\ m_pStmt' = [m_pStmt EXCEPT ![s] = NULL]
  BY DEF Clear, Destroy, SetMembers
<1>2. Prepared' = Prepared \ {m_pStmt[s]}
  BY <1>1 DEF Prepared, Closed, IInv, TypeOK
<1>3. CASE m_pStmt[s] = NULL
  BY <1>1, <1>2, <1>3, StatementAssumption
     DEF OwnStep, StatementHandles!vars, IInv, TypeOK, Prepared
<1>4. CASE m_pStmt[s] # NULL
  BY <1>1, <1>2, <1>4
     DEF OwnStep, StatementHandles!Next, StatementHandles!Release
<1> QED BY <1>3, <1>4

(* Every step obtains, releases or moves at most one prepared statement.   *)
LEMMA StepOwns ==
    ASSUME IInv, [Next]_vars
    PROVE  OwnStep
PROOF
<1> USE DEF OwnStep, StatementHandles!vars, Prepared
<1>1. ASSUME NEW s \in Ss, Step(s) PROVE OwnStep
  <2>1. CASE Compile(s) BY <2>1, CompileOwns
  <2>2. CASE ExecDML(s) BY <2>2 DEF ExecDML, Executed
  <2>3. CASE Reset(s) BY <2>3 DEF Reset
  <2>4. CASE Clear(s) \/ Destroy(s) BY <2>4, ReleaseOwns
  <2>5. ASSUME NEW src \in Ss, Copy(s, src) PROVE OwnStep
    BY <2>5, CopyOwns
  <2>6. ASSUME NEW a, NEW v, BindStatic(s, a, v) PROVE OwnStep
    BY <2>6 DEF BindStatic
  <2>7. ASSUME NEW a, BindString(s, a) PROVE OwnStep
    BY <2>7 DEF BindString
  <2> QED BY <1>1, <2>1, <2>2, <2>3, <2>4, <2>5, <2>6, <2>7 DEF Step
<1>2. CASE CompileThrows BY <1>2, CompileThrowsOwns
<1>3. ASSUME NEW a, NEW v, ChangeString(a, v) PROVE OwnStep
  BY <1>3 DEF ChangeString, members
<1>4. CASE UNCHANGED vars BY <1>4 DEF vars, members
<1> QED BY <1>1, <1>2, <1>3, <1>4 DEF Next

-----------------------------------------------------------------------------
(* The rest of the invariant, action by action.                            *)
BindInv ==
    /\ TypeOK
    /\ MembersAgree
    /\ Careful => PendingIntact /\ SendsWhatWasBound

(* The number of parameters of a new statement changes under no object.    *)
LEMMA CompileBinds ==
    ASSUME IInv, NEW s \in Ss, Compile(s)
    PROVE  BindInv'
PROOF
<1>1. PICK h \in Stmts, n \in 0 .. MaxParams :
         /\ stmt[h] = "free"
         /\ stmt' = [stmt EXCEPT ![h] = "prepared"]
         /\ params' = [params EXCEPT ![h] = n]
         /\ SetMembers(s, h, STMT_COMPILED, n, <<>>, 0)
  BY DEF Compile
<1>2. \A o \in Ss : m_pStmt[o] # h
  BY <1>1, StatementAssumption DEF IInv, StatementHandles!Exclusive, Prepared
<1> USE <1>1, <1>2, EmptyArray DEF IInv, TypeOK, SetMembers, Compile
<1>3. TypeOK' BY DEF STMT_COMPILED
<1>4. MembersAgree' BY StatementAssumption DEF MembersAgree, STMT_COMPILED
<1>5. Careful => (PendingIntact /\ SendsWhatWasBound)'
  BY DEF PendingIntact, SendsWhatWasBound
<1> QED BY <1>3, <1>4, <1>5 DEF BindInv

LEMMA CopyBinds ==
    ASSUME IInv, NEW s \in Ss, NEW src \in Ss, Copy(s, src)
    PROVE  BindInv'
PROOF
<1> USE DEF IInv, TypeOK, Copy, Move
<1>1. TypeOK' OBVIOUS
<1>2. MembersAgree' BY DEF MembersAgree
<1>3. Careful => (PendingIntact /\ SendsWhatWasBound)'
  BY DEF PendingIntact, SendsWhatWasBound
<1> QED BY <1>1, <1>2, <1>3 DEF BindInv

(* A new entry, where the memory is what was asked for.                    *)
LEMMA BindBinds ==
    ASSUME IInv, NEW s \in Ss, NEW a \in Addresses, NEW v \in Values,
           RealBind(s, a, v),
           UNCHANGED <<stmt, params, m_pStmt, m_state, m_nParamsCount, sent>>,
           mem' \in [Addresses -> Values], mem'[a] = v,
           Careful => \A o \in Ss : m_pBindArray[o] # NULL =>
              \A i \in DOMAIN m_pBindArray[o] :
                 mem'[m_pBindArray[o][i].buffer] = m_pBindArray[o][i].value
    PROVE  BindInv'
PROOF
<1> DEFINE e == [buffer |-> a, value |-> v]
           array == m_pBindArray[s]
           new == Append(array, e)
<1>1. e \in Entries /\ e.buffer = a /\ e.value = v
  BY DEF Entries
<1>2. array \in Seq(Entries) /\ array # NULL
  BY DEF RealBind, IInv, TypeOK
<1>3. /\ new \in Seq(Entries) /\ new # NULL /\ Len(new) = Len(array) + 1
      /\ \A i \in DOMAIN new :
            IF i \in DOMAIN array THEN new[i] = array[i] ELSE new[i] = e
  BY <1>1, <1>2, AppendEntry
<1>4. /\ m_pBindArray' = [m_pBindArray EXCEPT ![s] = new]
      /\ m_nBindIndex' = [m_nBindIndex EXCEPT ![s] = m_nBindIndex[s] + 1]
  BY DEF RealBind, IInv, TypeOK
<1> HIDE DEF e, new
<1>5. TypeOK'
  BY <1>3, <1>4 DEF IInv, TypeOK
<1>6. MembersAgree'
  BY <1>2, <1>3, <1>4 DEF IInv, TypeOK, MembersAgree
<1>7. Careful => PendingIntact'
  <2> SUFFICES ASSUME Careful, NEW o \in Ss, m_pBindArray'[o] # NULL,
                      NEW i \in DOMAIN m_pBindArray'[o]
               PROVE  mem'[m_pBindArray'[o][i].buffer] = m_pBindArray'[o][i].value
    BY DEF PendingIntact
  <2>1. CASE o # s
    BY <1>4, <2>1 DEF IInv, TypeOK
  <2>2. CASE o = s
    BY <1>1, <1>2, <1>3, <1>4, <2>2 DEF IInv, TypeOK
  <2> QED BY <2>1, <2>2
<1>8. Careful => SendsWhatWasBound'
  BY DEF IInv, SendsWhatWasBound
<1> QED BY <1>5, <1>6, <1>7, <1>8 DEF BindInv

LEMMA BindStaticBinds ==
    ASSUME IInv, NEW s \in Ss, NEW a \in Statics, NEW v \in Values,
           BindStatic(s, a, v)
    PROVE  BindInv'
PROOF
<1>1. a \in Addresses
  BY DEF Addresses
<1>2. mem' = [mem EXCEPT ![a] = v] /\ MayChange(a)
  BY DEF BindStatic
<1>3. mem' \in [Addresses -> Values] /\ mem'[a] = v
  BY <1>1, <1>2 DEF IInv, TypeOK
<1>4. Careful => \A o \in Ss : m_pBindArray[o] # NULL =>
         \A i \in DOMAIN m_pBindArray[o] :
            mem'[m_pBindArray[o][i].buffer] = m_pBindArray[o][i].value
  BY <1>1, <1>2, ChangeKeepsPending DEF IInv
<1>5. CASE RealBind(s, a, v)
  BY <1>1, <1>3, <1>4, <1>5, BindBinds DEF BindStatic
<1>6. CASE UNCHANGED <<m_pBindArray, m_nBindIndex>>
  BY <1>3, <1>4, <1>6
     DEF BindStatic, IInv, BindInv, TypeOK, MembersAgree, PendingIntact,
         SendsWhatWasBound
<1> QED BY <1>5, <1>6 DEF BindStatic

LEMMA BindStringBinds ==
    ASSUME IInv, NEW s \in Ss, NEW a \in Strings, BindString(s, a)
    PROVE  BindInv'
PROOF
<1>1. a \in Addresses
  BY DEF Addresses
<1>2. mem' = mem /\ mem \in [Addresses -> Values] /\ mem[a] \in Values
  BY <1>1 DEF BindString, IInv, TypeOK
<1> QED BY <1>1, <1>2, BindBinds DEF BindString, IInv, PendingIntact

LEMMA ChangeStringBinds ==
    ASSUME IInv, NEW a \in Strings, NEW v \in Values, ChangeString(a, v)
    PROVE  BindInv'
PROOF
<1>1. a \in Addresses
  BY DEF Addresses
<1>2. Careful => PendingIntact'
  BY <1>1, ChangeKeepsPending DEF ChangeString, members, IInv, PendingIntact
<1> QED BY <1>1, <1>2
        DEF ChangeString, members, IInv, BindInv, TypeOK, MembersAgree,
            SendsWhatWasBound

(* An execution finds an entry for every parameter, and in each the value  *)
(* that was asked for.                                                     *)
LEMMA ExecDMLBinds ==
    ASSUME IInv, NEW s \in Ss, ExecDML(s)
    PROVE  BindInv'
PROOF
<1> USE EmptyArray DEF IInv, TypeOK, ExecDML, Executed
<1>1. TypeOK' BY DEF STMT_EXECUTED
<1>2. MembersAgree' BY DEF MembersAgree, STMT_COMPILED, STMT_EXECUTED
<1>3. Careful => PendingIntact' BY DEF PendingIntact
<1>4. Careful => SendsAsked(s)
  <2>1. params[m_pStmt[s]] = Len(m_pBindArray[s])
    BY DEF MembersAgree
  <2>2. m_pStmt[s] \in Stmts /\ params[m_pStmt[s]] \in Nat
    BY StatementAssumption
  <2>3. params[m_pStmt[s]] <= Len(m_pBindArray[s])
    BY <2>1, <2>2
  <2>4. m_pBindArray[s] # NULL
    OBVIOUS
  <2> QED BY <2>3, <2>4 DEF SendsAsked, PendingIntact
<1>5. Careful => SendsWhatWasBound'
  BY <1>4 DEF SendsWhatWasBound
<1> QED BY <1>1, <1>2, <1>3, <1>5 DEF BindInv

LEMMA ResetBinds ==
    ASSUME IInv, NEW s \in Ss, Reset(s)
    PROVE  BindInv'
PROOF
<1> USE EmptyArray DEF IInv, TypeOK, Reset
<1>1. TypeOK' OBVIOUS
<1>2. MembersAgree' BY DEF MembersAgree
<1>3. Careful => (PendingIntact /\ SendsWhatWasBound)'
  BY DEF PendingIntact, SendsWhatWasBound
<1> QED BY <1>1, <1>2, <1>3 DEF BindInv

LEMMA ReleaseBinds ==
    ASSUME IInv, NEW s \in Ss, Clear(s) \/ Destroy(s)
    PROVE  BindInv'
PROOF
<1>1. /\ stmt' = Closed(m_pStmt[s])
      /\ m_pStmt' = [m_pStmt EXCEPT ![s] = NULL]
      /\ m_pBindArray' = [m_pBindArray EXCEPT ![s] = NULL]
      /\ UNCHANGED <<params, mem, sent>>
  BY DEF Clear, Destroy, SetMembers
<1>2. /\ m_state' \in [Ss -> {0, STMT_COMPILED, STMT_EXECUTED}]
      /\ m_nParamsCount' \in [Ss -> 0 .. MaxParams]
      /\ m_nBindIndex' \in [Ss -> Nat]
      /\ \A o \in Ss \ {s} : /\ m_state'[o] = m_state[o]
                             /\ m_nParamsCount'[o] = m_nParamsCount[o]
                             /\ m_nBindIndex'[o] = m_nBindIndex[o]
  <2>1. CASE Clear(s)
    BY <2>1 DEF Clear, IInv, TypeOK
  <2>2. CASE Destroy(s)
    BY <2>2, StatementAssumption DEF Destroy, SetMembers, IInv, TypeOK
  <2> QED BY <2>1, <2>2
<1> USE <1>1, <1>2 DEF IInv, TypeOK
<1>3. stmt' \in [Stmts -> {"free", "prepared", "unprepared"}]
  BY DEF Closed
<1>4. TypeOK' BY <1>3
<1>5. MembersAgree' BY DEF MembersAgree
<1>6. Careful => (PendingIntact /\ SendsWhatWasBound)'
  BY DEF PendingIntact, SendsWhatWasBound
<1> QED BY <1>4, <1>5, <1>6 DEF BindInv

(* Every step preserves the inductive invariant.                           *)
LEMMA StepIInv ==
    ASSUME IInv, [Next]_vars
    PROVE  IInv'
PROOF
<1>1. StatementHandles!Exclusive'
  <2>1. OwnStep BY StepOwns
  <2> QED BY <2>1, StatementAssumption, StatementHandles!StepExclusive
          DEF IInv, OwnStep
<1>2. BindInv'
  <2>1. ASSUME NEW s \in Ss, Step(s) PROVE BindInv'
    <3>1. CASE Compile(s) BY <3>1, CompileBinds
    <3>2. CASE ExecDML(s) BY <3>2, ExecDMLBinds
    <3>3. CASE Reset(s) BY <3>3, ResetBinds
    <3>4. CASE Clear(s) \/ Destroy(s) BY <3>4, ReleaseBinds
    <3>5. ASSUME NEW src \in Ss, Copy(s, src) PROVE BindInv'
      BY <3>5, CopyBinds
    <3>6. ASSUME NEW a \in Statics, NEW v \in Values, BindStatic(s, a, v)
          PROVE  BindInv'
      BY <3>6, BindStaticBinds
    <3>7. ASSUME NEW a \in Strings, BindString(s, a) PROVE BindInv'
      BY <3>7, BindStringBinds
    <3> QED BY <2>1, <3>1, <3>2, <3>3, <3>4, <3>5, <3>6, <3>7 DEF Step
  <2>2. CASE CompileThrows
    BY <2>2
       DEF CompileThrows, members, IInv, BindInv, TypeOK, MembersAgree,
           PendingIntact, SendsWhatWasBound
  <2>3. ASSUME NEW a \in Strings, NEW v \in Values, ChangeString(a, v)
        PROVE  BindInv'
    BY <2>3, ChangeStringBinds
  <2>4. CASE UNCHANGED vars
    BY <2>4
       DEF vars, members, IInv, BindInv, TypeOK, MembersAgree, PendingIntact,
           SendsWhatWasBound
  <2> QED BY <2>1, <2>2, <2>3, <2>4 DEF Next
<1> QED BY <1>1, <1>2 DEF IInv, BindInv

THEOREM Invariance == Spec => []IInv
BY InitIInv, StepIInv, PTL DEF Spec

(* The members of every object and the library stay within their types.    *)
THEOREM TypeCorrectness == Spec => []TypeOK
BY Invariance, PTL DEF IInv

(* Handle, array, count and position of a statement object agree, whatever *)
(* was copied, bound, reset and executed.                                  *)
THEOREM MembersAlwaysAgree == Spec => []MembersAgree
BY Invariance, PTL DEF IInv

(* A careful program gets what it asked for: execDML() sends the values    *)
(* that bind() was given.                                                  *)
THEOREM SendsAsBound == Careful /\ Spec => []SendsWhatWasBound
PROOF
<1>1. CASE Careful
  <2>1. IInv => SendsWhatWasBound BY <1>1 DEF IInv
  <2> QED BY <2>1, Invariance, PTL
<1>2. CASE ~Careful
  BY <1>2, PTL
<1> QED BY <1>1, <1>2

-----------------------------------------------------------------------------
(* Any program, careful or not: what it takes to send something else.      *)
Overwritten == \E a \in Pending : mem'[a] # mem[a]

(* The entries of a step's arrays are old ones or agree with the memory.   *)
OldOrTrue(o) ==
    m_pBindArray'[o] # NULL => \A i \in DOMAIN m_pBindArray'[o] :
        LET e == m_pBindArray'[o][i]
        IN  \/ mem'[e.buffer] = e.value
            \/ \E p \in Ss : /\ m_pBindArray[p] # NULL
                             /\ \E j \in DOMAIN m_pBindArray[p] : m_pBindArray[p][j] = e

LEMMA OldOrTrueIntact ==
    ASSUME PendingIntact, ~Overwritten, \A o \in Ss : OldOrTrue(o)
    PROVE  PendingIntact'
PROOF
<1> SUFFICES ASSUME NEW o \in Ss, m_pBindArray'[o] # NULL,
                    NEW i \in DOMAIN m_pBindArray'[o]
             PROVE  mem'[m_pBindArray'[o][i].buffer] = m_pBindArray'[o][i].value
  BY DEF PendingIntact
<1> DEFINE e == m_pBindArray'[o][i]
<1>1. ASSUME NEW p \in Ss, m_pBindArray[p] # NULL,
             NEW j \in DOMAIN m_pBindArray[p], m_pBindArray[p][j] = e
      PROVE  mem'[e.buffer] = e.value
  <2>1. e.buffer \in Pending
    BY <1>1, PendingBuffers
  <2>2. mem[e.buffer] = e.value
    BY <1>1 DEF PendingIntact
  <2> HIDE DEF e
  <2> QED BY <2>1, <2>2 DEF Overwritten
<1> QED BY <1>1 DEF OldOrTrue

LEMMA BindOldOrTrue ==
    ASSUME IInv, NEW s \in Ss, NEW a \in Addresses, NEW v \in Values,
           RealBind(s, a, v), mem'[a] = v
    PROVE  \A o \in Ss : OldOrTrue(o)
PROOF
<1> DEFINE e == [buffer |-> a, value |-> v]
           array == m_pBindArray[s]
           new == Append(array, e)
<1>1. e \in Entries /\ e.buffer = a /\ e.value = v
  BY DEF Entries
<1>2. array \in Seq(Entries) /\ array # NULL
  BY DEF RealBind, IInv, TypeOK
<1>3. \A i \in DOMAIN new : new[i] = e \/ (i \in DOMAIN array /\ new[i] = array[i])
  BY <1>1, <1>2, AppendEntry
<1>4. m_pBindArray' = [m_pBindArray EXCEPT ![s] = new]
  BY DEF RealBind
<1> HIDE DEF e, new
<1>5. OldOrTrue(s)
  BY <1>1, <1>2, <1>3, <1>4 DEF OldOrTrue, IInv, TypeOK
<1>6. \A o \in Ss \ {s} : OldOrTrue(o)
  BY <1>4 DEF OldOrTrue, IInv, TypeOK
<1> QED BY <1>5, <1>6

LEMMA StepIntact ==
    ASSUME IInv, PendingIntact, Next, ~Overwritten
    PROVE  PendingIntact'
PROOF
<1> SUFFICES \A o \in Ss : OldOrTrue(o)
  BY OldOrTrueIntact
<1>1. ASSUME NEW s \in Ss, Compile(s) \/ ExecDML(s) \/ Reset(s) \/ Clear(s) \/ Destroy(s)
      PROVE  \A o \in Ss : OldOrTrue(o)
  <2>1. \E array \in {<<>>, NULL} : m_pBindArray' = [m_pBindArray EXCEPT ![s] = array]
    BY <1>1 DEF Compile, SetMembers, ExecDML, Executed, Reset, Clear, Destroy
  <2>2. DOMAIN <<>> = {}
    OBVIOUS
  <2> QED BY <2>1, <2>2 DEF OldOrTrue, IInv, TypeOK
<1>2. ASSUME NEW s \in Ss, NEW src \in Ss, Copy(s, src)
      PROVE  \A o \in Ss : OldOrTrue(o)
  BY <1>2 DEF Copy, Move, OldOrTrue, IInv, TypeOK
<1>3. ASSUME UNCHANGED m_pBindArray
      PROVE  \A o \in Ss : OldOrTrue(o)
  BY <1>3 DEF OldOrTrue
<1>4. ASSUME NEW s \in Ss, NEW a \in Statics, NEW v \in Values, BindStatic(s, a, v)
      PROVE  \A o \in Ss : OldOrTrue(o)
  BY <1>3, <1>4, BindOldOrTrue DEF BindStatic, Addresses, IInv, TypeOK
<1>5. ASSUME NEW s \in Ss, NEW a \in Strings, BindString(s, a)
      PROVE  \A o \in Ss : OldOrTrue(o)
  BY <1>5, BindOldOrTrue DEF BindString, Addresses, IInv, TypeOK
<1>6. CASE CompileThrows \/ \E a \in Strings, v \in Values : ChangeString(a, v)
  BY <1>3, <1>6 DEF CompileThrows, ChangeString, members
<1> QED BY <1>1, <1>2, <1>4, <1>5, <1>6 DEF Next, Step

LEMMA StepSends ==
    ASSUME IInv, SendsWhatWasBound, PendingIntact, Next
    PROVE  SendsWhatWasBound'
PROOF
<1>1. ASSUME NEW s \in Ss, ExecDML(s) PROVE SendsWhatWasBound'
  <2>1. /\ m_pStmt[s] \in Stmts /\ m_pBindArray[s] # NULL
        /\ params[m_pStmt[s]] = Len(m_pBindArray[s])
        /\ params[m_pStmt[s]] \in Nat
    BY <1>1, StatementAssumption DEF ExecDML, IInv, TypeOK, MembersAgree
  <2>2. SendsAsked(s)
    BY <2>1 DEF SendsAsked, PendingIntact
  <2> QED BY <1>1, <2>2 DEF ExecDML, Executed, SendsWhatWasBound
<1>2. ASSUME UNCHANGED sent PROVE SendsWhatWasBound'
  BY <1>2 DEF SendsWhatWasBound
<1> QED BY <1>1, <1>2
        DEF Next, Step, Compile, Reset, Clear, Destroy, Copy, BindStatic, BindString,
            CompileThrows, ChangeString

(* In any program, execDML() sends other values than bind() was given only *)
(* after one thing: an address that is in some array was written, by a     *)
(* bind() to the same static or by the program to its string.  Copies,     *)
(* resets, failures, refused calls and other objects never do it.          *)
THEOREM OnlyOverwritingMissends ==
    /\ Spec => [][PendingIntact /\ ~PendingIntact' => Overwritten]_vars
    /\ Spec => [][SendsWhatWasBound /\ ~SendsWhatWasBound' => ~PendingIntact]_vars
PROOF
<1>1. IInv /\ [Next]_vars => [PendingIntact /\ ~PendingIntact' => Overwritten]_vars
  BY StepIntact
<1>2. IInv /\ [Next]_vars
        => [SendsWhatWasBound /\ ~SendsWhatWasBound' => ~PendingIntact]_vars
  BY StepSends
<1> QED BY <1>1, <1>2, Invariance, PTL DEF Spec

(* Statement objects implement the ownership the source promises.          *)
THEOREM ImplementsOwnership == Spec => StatementOwnership
PROOF
<1>1. Init => StatementHandles!Init
  BY DEF Init, StatementHandles!Init, Prepared
<1>2. IInv /\ [Next]_vars => OwnStep
  BY StepOwns
<1> QED BY <1>1, <1>2, Invariance, PTL
        DEF Spec, StatementOwnership, StatementHandles!Spec, OwnStep
=============================================================================
