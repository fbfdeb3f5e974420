------------------------- MODULE RequestGuardProofs --------------------------
(***************************************************************************)
(* Theorems about RequestGuard, for any number of processes, requests and  *)
(* programs: the audit chain verifies, and without routes to add at        *)
(* startup every mutation commits on the state it has read.                *)
(***************************************************************************)
EXTENDS RequestGuard, FiniteSetTheorems, TLAPS

-----------------------------------------------------------------------------
(* The audit chain *)

\* Events are kept in sequences, of whatever events there are.
EventsKept == \E S : chain \in Seq(S) /\ pending \in [Tx -> Seq(S)]

\* Who has recorded events that are not committed holds the audit lock.
AuditLocked ==
    /\ lock \in [Lock -> Tx \cup {NoTx}]
    /\ \A t \in Tx : pending[t] # <<>> => lock["audit"] = t

ChainInv == EventsKept /\ AuditLocked /\ ChainVerifies

LEMMA VerifyAppend ==
    ASSUME NEW S, NEW s \in Seq(S), VerifyChain(s), NEW e \in S,
           e.sequence = Len(s) + 1,
           e.previous = IF s = <<>> THEN <<>> ELSE <<s[Len(s)]>>
    PROVE  VerifyChain(Append(s, e))
<1> DEFINE q == Append(s, e)
<1>1. Len(q) = Len(s) + 1 /\ Len(s) \in Nat
  OBVIOUS
<1>2. \A i \in 1..Len(s) : q[i] = s[i]
  OBVIOUS
<1>3. q[Len(s) + 1] = e
  OBVIOUS
<1>4. s = <<>> <=> Len(s) = 0
  OBVIOUS
<1> HIDE DEF q
<1> SUFFICES ASSUME NEW i \in 1..Len(q)
             PROVE  /\ q[i].sequence = i
                    /\ q[i].previous = IF i = 1 THEN <<>> ELSE <<q[i - 1]>>
  BY DEF VerifyChain, q
<1>5. CASE i \in 1..Len(s)
  <2>1. s[i].sequence = i /\ s[i].previous = IF i = 1 THEN <<>> ELSE <<s[i - 1]>>
    BY <1>5 DEF VerifyChain
  <2>2. i # 1 => i - 1 \in 1..Len(s)
    BY <1>1, <1>5
  <2>3. q[i] = s[i] /\ (i # 1 => q[i - 1] = s[i - 1])
    BY <1>2, <1>5, <2>2
  <2> QED  BY <2>1, <2>3
<1>6. CASE i = Len(s) + 1
  <2>1. q[i] = e
    BY <1>3, <1>6
  <2>2. CASE s = <<>>
    <3>1. i = 1
      BY <1>4, <1>6, <2>2
    <3> QED  BY <2>1, <2>2, <3>1, <1>6
  <2>3. CASE s # <<>>
    <3>1. i # 1 /\ Len(s) \in 1..Len(s) /\ i - 1 = Len(s)
      BY <1>1, <1>4, <1>6, <2>3
    <3>2. q[i - 1] = s[Len(s)]
      BY <1>2, <3>1
    <3> QED  BY <2>1, <2>3, <3>1, <3>2, <1>6
  <2> QED  BY <2>2, <2>3
<1> QED  BY <1>1, <1>5, <1>6

LEMMA SeqGrows ==
    ASSUME NEW S, NEW T, S \subseteq T, NEW s \in Seq(S)
    PROVE  s \in Seq(T)
OBVIOUS

\* record: the event that is appended continues the chain.
LEMMA RecordKeepsChain ==
    ASSUME ChainInv, NEW t \in Tx, Record(t), UNCHANGED chain
    PROVE  ChainInv'
<1>1. PICK S : chain \in Seq(S) /\ pending \in [Tx -> Seq(S)]
  BY DEF ChainInv, EventsKept
<1> DEFINE e == NextEvent(t)
           T == S \cup {e}
           s == chain \o pending[t]
<1>2. /\ pending' = [pending EXCEPT ![t] = Append(pending[t], e)]
      /\ lock["audit"] \in {NoTx, t} /\ lock' = [lock EXCEPT !["audit"] = t]
  BY DEF Record, Acquire
<1>3. /\ chain \in Seq(T) /\ pending \in [Tx -> Seq(T)] /\ s \in Seq(T) /\ e \in T
      /\ s \in Seq(S)
  <2> HIDE DEF e
  <2>1. \A q \in Seq(S) : q \in Seq(T)
    BY SeqGrows
  <2>2. s \in Seq(S)
    BY <1>1
  <2> QED  BY <1>1, <2>1, <2>2
<1>4. /\ e.sequence = Len(s) + 1
      /\ e.previous = IF s = <<>> THEN <<>> ELSE <<s[Len(s)]>>
  <2> HIDE DEF s
  <2>1. /\ LastEvent(t) = IF s = <<>> THEN <<>> ELSE <<s[Len(s)]>>
    BY DEF LastEvent, Last, s
  <2>2. VerifyChain(s)
    BY DEF ChainInv, ChainVerifies, s
  <2>3. e = [sequence |-> IF LastEvent(t) = <<>> THEN 1 ELSE LastEvent(t)[1].sequence + 1,
             by |-> t, previous |-> LastEvent(t)]
    BY DEF NextEvent
  <2> HIDE DEF e
  <2>4. CASE s = <<>>
    <3>1. LastEvent(t) = <<>> /\ Len(s) = 0
      BY <2>1, <2>4
    <3> QED  BY <2>3, <2>4, <3>1
  <2>5. CASE s # <<>>
    <3>1. LastEvent(t) = <<s[Len(s)]>> /\ LastEvent(t) # <<>>
      BY <2>1, <2>5
    <3>2. Len(s) \in 1..Len(s)
      BY <1>3, <2>5
    <3>3. s[Len(s)].sequence = Len(s)
      BY <2>2, <3>2 DEF VerifyChain
    <3> QED  BY <2>3, <2>5, <3>1, <3>3
  <2> QED  BY <2>4, <2>5
<1>5. VerifyChain(Append(s, e))
  <2>1. VerifyChain(s)
    BY DEF ChainInv, ChainVerifies
  <2> HIDE DEF e, s, T
  <2> QED  BY <2>1, <1>3, <1>4, VerifyAppend
<1> HIDE DEF e, T
<1>6. \A u \in Tx : u # t => pending[u] = <<>>
  BY <1>2, SortAssumption DEF ChainInv, AuditLocked
<1>7. EventsKept'
  BY <1>2, <1>3 DEF EventsKept
<1>8. AuditLocked'
  <2>1. lock' \in [Lock -> Tx \cup {NoTx}] /\ lock'["audit"] = t
    BY <1>2 DEF ChainInv, AuditLocked, Lock
  <2>2. \A u \in Tx : u # t => pending'[u] = <<>>
    BY <1>1, <1>2, <1>6
  <2> QED  BY <2>1, <2>2 DEF AuditLocked
<1>9. ChainVerifies'
  <2> SUFFICES ASSUME NEW u \in Tx PROVE VerifyChain(chain \o pending'[u])
    BY DEF ChainVerifies
  <2>1. CASE u = t
    <3>1. chain \o Append(pending[t], e) = Append(chain \o pending[t], e)
      BY <1>3
    <3>2. pending'[t] = Append(pending[t], e)
      BY <1>1, <1>2
    <3> QED  BY <2>1, <3>1, <3>2, <1>5
  <2>2. CASE u # t
    <3>1. pending'[u] = pending[u]
      BY <2>2, <1>1, <1>2
    <3> QED  BY <3>1 DEF ChainInv, ChainVerifies
  <2> QED  BY <2>1, <2>2
<1> QED  BY <1>7, <1>8, <1>9 DEF ChainInv

\* Another lock than the audit lock, or none, is taken.
LEMMA LockKeepsChain ==
    ASSUME ChainInv, NEW t \in Tx, NEW k, k # "audit",
           lock' = lock \/ Acquire(t, k), UNCHANGED <<pending, chain>>
    PROVE  ChainInv'
<1>1. lock' \in [Lock -> Tx \cup {NoTx}] /\ lock'["audit"] = lock["audit"]
  BY DEF ChainInv, AuditLocked, Acquire, Lock
<1>2. EventsKept' /\ ChainVerifies'
  BY DEF ChainInv, EventsKept, ChainVerifies
<1>3. AuditLocked'
  BY <1>1 DEF ChainInv, AuditLocked
<1> QED  BY <1>2, <1>3 DEF ChainInv

\* Transactions that end without a commit (rollback, crash) leave nothing.
LEMMA DropKeepsChain ==
    ASSUME ChainInv, NEW dead, UNCHANGED chain,
           lock' = [k \in Lock |-> IF lock[k] \in dead THEN NoTx ELSE lock[k]],
           pending' = [t \in Tx |-> IF t \in dead THEN <<>> ELSE pending[t]]
    PROVE  ChainInv'
<1>1. PICK S : chain \in Seq(S) /\ pending \in [Tx -> Seq(S)]
  BY DEF ChainInv, EventsKept
<1>2. <<>> \in Seq(S)
  OBVIOUS
<1>3. EventsKept'
  <2>1. pending' \in [Tx -> Seq(S)]
    BY <1>1, <1>2
  <2> QED  BY <1>1, <2>1 DEF EventsKept
<1>4. AuditLocked'
  BY DEF ChainInv, AuditLocked, Lock
<1>5. chain \o <<>> = chain
  BY <1>1
<1>6. ChainVerifies'
  <2> SUFFICES ASSUME NEW t \in Tx PROVE VerifyChain(chain \o pending'[t])
    BY DEF ChainVerifies
  <2>1. VerifyChain(chain \o pending[t])
    BY DEF ChainInv, ChainVerifies
  <2>2. CASE t \notin dead
    BY <2>1, <2>2
  <2>3. CASE t \in dead
    <3>1. pending'[t] = <<>>
      BY <2>3
    <3>2. Len(chain) \in Nat /\ Len(chain \o pending[t]) >= Len(chain)
      BY <1>1
    <3>3. \A i \in 1..Len(chain) : (chain \o pending[t])[i] = chain[i]
      BY <1>1
    <3>4. VerifyChain(chain)
      <4> DEFINE q == chain \o pending[t]
      <4>1. /\ Len(q) \in Nat /\ Len(q) >= Len(chain)
            /\ \A i \in 1..Len(chain) : q[i] = chain[i]
        BY <1>1, <3>2, <3>3
      <4> HIDE DEF q
      <4>2. VerifyChain(q)
        BY <2>1 DEF q
      <4>3. ASSUME NEW i \in 1..Len(chain)
            PROVE  /\ chain[i].sequence = i
                   /\ chain[i].previous = IF i = 1 THEN <<>> ELSE <<chain[i - 1]>>
        <5>1. i \in 1..Len(q) /\ (i # 1 => i - 1 \in 1..Len(chain))
          BY <4>1, <3>2
        <5>2. q[i].sequence = i /\ q[i].previous = IF i = 1 THEN <<>> ELSE <<q[i - 1]>>
          BY <4>2, <5>1 DEF VerifyChain
        <5>3. q[i] = chain[i] /\ (i # 1 => q[i - 1] = chain[i - 1])
          BY <4>1, <5>1
        <5> QED  BY <5>2, <5>3
      <4> QED  BY <4>3 DEF VerifyChain
    <3> QED  BY <3>1, <3>4, <1>5
  <2> QED  BY <2>2, <2>3
<1> QED  BY <1>3, <1>4, <1>6 DEF ChainInv

LEMMA RollbackKeepsChain ==
    ASSUME ChainInv, NEW t \in Tx, Rollback(t)
    PROVE  ChainInv'
<1>1. lock' = [k \in Lock |-> IF lock[k] \in {t} THEN NoTx ELSE lock[k]]
  BY DEF Rollback, Release
<1>2. pending' = [u \in Tx |-> IF u \in {t} THEN <<>> ELSE pending[u]]
  BY DEF Rollback, ChainInv, EventsKept
<1>3. UNCHANGED chain
  BY DEF Rollback
<1> QED  BY <1>1, <1>2, <1>3, DropKeepsChain

\* Whoever commits events is the only one who has any.
LEMMA CommitKeepsChain ==
    ASSUME ChainInv, NEW t \in Tx, Commit(t)
    PROVE  ChainInv'
<1>1. PICK S : chain \in Seq(S) /\ pending \in [Tx -> Seq(S)]
  BY DEF ChainInv, EventsKept
<1>2. /\ chain' = chain \o pending[t] /\ pending' = [pending EXCEPT ![t] = <<>>]
      /\ lock' = [k \in Lock |-> IF lock[k] = t THEN NoTx ELSE lock[k]]
  BY DEF Commit, Release
<1>3. EventsKept'
  <2>1. <<>> \in Seq(S) /\ chain \o pending[t] \in Seq(S)
    BY <1>1
  <2>2. chain' \in Seq(S) /\ pending' \in [Tx -> Seq(S)]
    BY <1>1, <1>2, <2>1
  <2> QED  BY <2>2 DEF EventsKept
<1>4. AuditLocked'
  BY <1>1, <1>2 DEF ChainInv, AuditLocked, Lock
<1>5. ChainVerifies'
  <2> SUFFICES ASSUME NEW u \in Tx PROVE VerifyChain(chain' \o pending'[u])
    BY DEF ChainVerifies
  <2>1. CASE pending[t] = <<>>
    <3>1. chain' = chain
      BY <1>1, <1>2, <2>1
    <3>2. pending'[u] = pending[u]
      BY <1>1, <1>2, <2>1
    <3> QED  BY <3>1, <3>2 DEF ChainInv, ChainVerifies
  <2>2. CASE pending[t] # <<>>
    <3>1. pending'[u] = <<>>
      BY <1>1, <1>2, <2>2 DEF ChainInv, AuditLocked
    <3>2. chain' \o <<>> = chain \o pending[t]
      BY <1>1, <1>2
    <3> QED  BY <3>1, <3>2 DEF ChainInv, ChainVerifies
  <2> QED  BY <2>1, <2>2
<1> QED  BY <1>3, <1>4, <1>5 DEF ChainInv

LEMMA WorkKeepsChain ==
    ASSUME ChainInv, NEW t \in Tx, Work(t), UNCHANGED chain
    PROVE  ChainInv'
<1>1. CASE Head(todo[t]) = "audit"
  BY <1>1, RecordKeepsChain DEF Work
<1>2. CASE Head(todo[t]) = "read"
  BY <1>2, LockKeepsChain DEF Work
<1>3. CASE Head(todo[t]) # "audit" /\ Head(todo[t]) # "read"
  BY <1>3, LockKeepsChain DEF Work
<1> QED  BY <1>1, <1>2, <1>3

LEMMA ChainInvInit == Init => ChainInv
<1> SUFFICES ASSUME Init PROVE ChainInv
  OBVIOUS
<1>1. chain \in Seq({}) /\ pending \in [Tx -> Seq({})]
  BY DEF Init
<1>2. EventsKept
  BY <1>1 DEF EventsKept
<1>3. AuditLocked
  BY DEF Init, AuditLocked, Lock
<1>4. ChainVerifies
  <2>1. \A t \in Tx : chain \o pending[t] = <<>>
    BY DEF Init
  <2>2. VerifyChain(<<>>)
    BY DEF VerifyChain
  <2> QED  BY <2>1, <2>2 DEF ChainVerifies
<1> QED  BY <1>2, <1>3, <1>4 DEF ChainInv

LEMMA ChainInvStep == ChainInv /\ [Next]_vars => ChainInv'
<1> SUFFICES ASSUME ChainInv, [Next]_vars PROVE ChainInv'
  OBVIOUS
<1>1. ASSUME UNCHANGED <<lock, pending, chain>> PROVE ChainInv'
  BY <1>1 DEF ChainInv, EventsKept, AuditLocked, ChainVerifies
<1>2. ASSUME NEW r \in Request, Receive(r) \/ Progress(r) \/ Refuse(r) \/ RefuseCommitted(r)
      PROVE  ChainInv'
  <2>1. r \in Tx
    BY DEF Tx
  <2>2. CASE \/ Receive(r) \/ Enter(r) \/ Connect(r) \/ PoolTimeout(r) \/ Run(r)
             \/ Query(r) \/ Answer(r)
    BY <2>2, <1>1
    DEF Receive, Enter, Connect, PoolTimeout, Run, Query, Answer
  <2>3. CASE LockMutation(r)
    BY <2>1, <2>3, LockKeepsChain DEF LockMutation
  <2>4. CASE Handle(r)
    BY <2>1, <2>4, WorkKeepsChain DEF Handle
  <2>5. CASE Refuse(r) \/ Abort(r)
    BY <2>1, <2>5, RollbackKeepsChain DEF Refuse, Abort
  <2>6. CASE RefuseCommitted(r)
    BY <2>1, <2>6, CommitKeepsChain DEF RefuseCommitted
  <2>7. CASE Finish(r)
    BY <2>1, <2>7, CommitKeepsChain, <1>1 DEF Finish
  <2> QED  BY <1>2, <2>2, <2>3, <2>4, <2>5, <2>6, <2>7 DEF Progress
<1>3. ASSUME NEW w \in Worker, ProcessProgress(w) \/ Crash(w)
      PROVE  ChainInv'
  <2>1. w \in Tx
    BY DEF Tx
  <2>2. CASE Start(w)
    BY <2>2, <1>1 DEF Start
  <2>3. CASE Boot(w)
    BY <2>1, <2>3, WorkKeepsChain DEF Boot
  <2>4. CASE BootDone(w)
    BY <2>1, <2>4, CommitKeepsChain, <1>1 DEF BootDone
  <2>5. CASE BootFails(w)
    BY <2>1, <2>5, RollbackKeepsChain DEF BootFails
  <2>6. CASE Crash(w)
    BY <2>6, DropKeepsChain DEF Crash
  <2> QED  BY <1>3, <2>2, <2>3, <2>4, <2>5, <2>6 DEF ProcessProgress
<1>4. CASE UNCHANGED vars
  BY <1>4, <1>1 DEF vars
<1> QED  BY <1>2, <1>3, <1>4 DEF Next

\* record: no crash, rollback or race leaves a gap or a fork in the chain, whatever
\* the processes and the programs.
THEOREM AuditChainVerifies == Spec => []ChainVerifies
<1>1. ChainInv => ChainVerifies
  BY DEF ChainInv
<1> QED  BY ChainInvInit, ChainInvStep, <1>1, PTL DEF Spec

-----------------------------------------------------------------------------
(* Mutations see each other *)

Types ==
    /\ lock \in [Lock -> Tx \cup {NoTx}]
    /\ todo \in [Tx -> Seq(Step)]
    /\ stage \in [Request -> Stage]
    /\ basis \in [Tx -> Seq(Tx)]
    /\ history \in Seq(Tx)
    /\ pending = [t \in Tx |-> pending[t]]

\* A process that finds its routes writes nothing, and queries write nothing.
NothingToSeed ==
    /\ \A w \in Worker : todo[w] = <<>> /\ pending[w] = <<>>
    /\ \A r \in Read : stage[r] # "locking" /\ todo[r] = <<>>

\* Between its lock and its commit a mutation holds the lock, and what it has read
\* is all that was committed.
MutationLocked ==
    \A r \in Write : stage[r] \in {"entered", "running", "answered"} => lock["mutation"] = r

Current ==
    \A r \in Write :
        /\ stage[r] = "running" =>
              basis[r] = history \/ (todo[r] # <<>> /\ Head(todo[r]) = "read")
        /\ stage[r] = "answered" => basis[r] = history

SerialInv == Types /\ NothingToSeed /\ MutationLocked /\ Current

LEMMA Sorts == \A r \in Request : r \in Tx /\ r \notin Worker /\ r # NoTx
BY SortAssumption DEF Tx

LEMMA SerialInvInit == Init => SerialInv
<1> SUFFICES ASSUME Init PROVE SerialInv
  OBVIOUS
<1>1. Types
  BY DEF Init, Types, Stage
<1>2. NothingToSeed /\ MutationLocked /\ Current
  BY DEF Init, NothingToSeed, MutationLocked, Current, Tx, Request
<1> QED  BY <1>1, <1>2 DEF SerialInv

\* A request moves without a statement that changes locks or data; a mutation that
\* begins has read nothing yet.
LEMMA MovesKeepSerial ==
    ASSUME SerialInv, NEW r \in Request, UNCHANGED <<lock, todo, basis, pending, history>>,
           NEW s \in Stage, stage' = [stage EXCEPT ![r] = s],
           r \in Write =>
               \/ s \notin {"entered", "running", "answered"}
               \/ (s = "answered" /\ stage[r] = "running" /\ todo[r] = <<>>),
           r \in Read => s # "locking"
    PROVE  SerialInv'
<1>1. Types'
  BY DEF SerialInv, Types
<1>2. NothingToSeed'
  <2>1. ASSUME NEW q \in Read PROVE stage'[q] # "locking"
    <3>1. q \in Request
      BY DEF Request
    <3>2. stage'[q] = IF q = r THEN s ELSE stage[q]
      BY <3>1 DEF SerialInv, Types
    <3> QED  BY <3>2 DEF SerialInv, NothingToSeed
  <2> QED  BY <2>1 DEF SerialInv, NothingToSeed
<1>3. MutationLocked'
  BY DEF SerialInv, Types, MutationLocked
<1>4. Current'
  BY DEF SerialInv, Types, Current
<1> QED  BY <1>1, <1>2, <1>3, <1>4 DEF SerialInv

LEMMA LockKeepsSerial ==
    ASSUME SerialInv, NEW r \in Request, LockMutation(r)
    PROVE  SerialInv'
<1>1. r \in Write /\ r \in Tx /\ r # NoTx
  BY Sorts DEF SerialInv, NothingToSeed, LockMutation, Request
<1>2. /\ lock["mutation"] \in {NoTx, r} /\ lock' = [lock EXCEPT !["mutation"] = r]
      /\ stage' = [stage EXCEPT ![r] = "entered"]
      /\ UNCHANGED <<todo, basis, pending, history>>
  BY DEF LockMutation, Acquire
<1>3. Types'
  BY <1>1, <1>2 DEF SerialInv, Types, Lock, Stage
<1>4. NothingToSeed'
  BY <1>1, <1>2 DEF SerialInv, Types, NothingToSeed
<1>5. MutationLocked'
  BY <1>1, <1>2, Sorts DEF SerialInv, Types, MutationLocked, Lock, Request
<1>6. Current'
  BY <1>1, <1>2 DEF SerialInv, Types, Current
<1> QED  BY <1>3, <1>4, <1>5, <1>6 DEF SerialInv

LEMMA RunKeepsSerial ==
    ASSUME SerialInv, NEW r \in Request, Run(r)
    PROVE  SerialInv'
<1>1. r \in Tx
  BY Sorts
<1>2. /\ stage[r] = "entered" /\ stage' = [stage EXCEPT ![r] = "running"]
      /\ UNCHANGED <<lock, basis, pending, history>>
  BY DEF Run
<1>3. PICK program \in Program :
         todo' = IF r \in Write THEN [todo EXCEPT ![r] = program] ELSE todo
  BY DEF Run
<1>4. program \in Seq(Step) /\ program # <<>> /\ Head(program) = "read"
  BY ProgramAssumption, SeqGrows
<1>5. Types'
  BY <1>1, <1>2, <1>3, <1>4 DEF SerialInv, Types, Stage
<1>6. NothingToSeed'
  BY <1>2, <1>3, Sorts, SortAssumption DEF SerialInv, Types, NothingToSeed, Tx
<1>7. MutationLocked'
  BY <1>2 DEF SerialInv, Types, MutationLocked
<1>8. Current'
  BY <1>1, <1>2, <1>3, <1>4 DEF SerialInv, Types, Current
<1> QED  BY <1>5, <1>6, <1>7, <1>8 DEF SerialInv

\* Handle: reading takes the history as it is, and no statement takes the mutation
\* lock.
LEMMA HandleKeepsSerial ==
    ASSUME SerialInv, NEW r \in Request, Handle(r)
    PROVE  SerialInv'
<1>1. r \in Tx /\ r \notin Worker
  BY Sorts
<1>2. /\ stage[r] = "running" /\ todo[r] # <<>> /\ todo' = [todo EXCEPT ![r] = Tail(todo[r])]
      /\ UNCHANGED <<stage, history>>
  BY DEF Handle, Work
<1>3. r \in Write /\ r \notin Read
  BY <1>2, SortAssumption DEF SerialInv, NothingToSeed, Request
<1>4. todo[r] \in Seq(Step) /\ Tail(todo[r]) \in Seq(Step) /\ Head(todo[r]) \in Step
  BY <1>1, <1>2 DEF SerialInv, Types
<1>5. /\ lock' \in [Lock -> Tx \cup {NoTx}] /\ lock'["mutation"] = lock["mutation"]
      /\ \A w \in Worker : pending'[w] = pending[w]
      /\ \/ (Head(todo[r]) = "read" /\ basis' = [basis EXCEPT ![r] = history])
         \/ (Head(todo[r]) # "read" /\ UNCHANGED basis)
      /\ pending' = [t \in Tx |-> pending'[t]]
  <2>1. CASE Head(todo[r]) = "read"
    BY <2>1 DEF Handle, Work, SerialInv, Types
  <2>2. CASE Head(todo[r]) = "audit"
    <3>1. /\ lock' = [lock EXCEPT !["audit"] = r] /\ UNCHANGED basis
          /\ pending' = [pending EXCEPT ![r] = Append(pending[r], NextEvent(r))]
      BY <2>2 DEF Handle, Work, Record, Acquire
    <3>2. pending' = [t \in Tx |-> pending'[t]] /\ \A t \in Tx \ {r} : pending'[t] = pending[t]
      BY <3>1 DEF SerialInv, Types
    <3>3. \A w \in Worker : w \in Tx \ {r}
      BY <1>1 DEF Tx
    <3> QED  BY <2>2, <3>1, <3>2, <3>3, <1>1 DEF SerialInv, Types, Lock
  <2>3. CASE Head(todo[r]) \in {"plans", "seed"}
    BY <2>3, <1>1 DEF Handle, Work, Acquire, SerialInv, Types, Lock
  <2> QED  BY <1>4, <2>1, <2>2, <2>3 DEF Step
<1>6. Types'
  BY <1>1, <1>2, <1>4, <1>5 DEF SerialInv, Types
<1>7. NothingToSeed'
  <2>1. \A t \in Tx : t # r => todo'[t] = todo[t]
    BY <1>2 DEF SerialInv, Types
  <2>2. \A w \in Worker : w \in Tx /\ w # r
    BY <1>1 DEF Tx
  <2>3. \A q \in Read : q \in Tx /\ q # r
    BY <1>3 DEF Tx, Request
  <2> QED  BY <2>1, <2>2, <2>3, <1>2, <1>5 DEF SerialInv, NothingToSeed
<1>8. MutationLocked'
  BY <1>2, <1>5 DEF SerialInv, MutationLocked
<1>9. Current'
  <2> SUFFICES ASSUME NEW q \in Write
               PROVE  /\ stage[q] = "running" =>
                            basis'[q] = history \/ (todo'[q] # <<>> /\ Head(todo'[q]) = "read")
                      /\ stage[q] = "answered" => basis'[q] = history
    BY <1>2 DEF Current
  <2>1. q \in Tx
    BY Sorts DEF Request
  <2>2. CASE q = r
    BY <2>1, <2>2, <1>2, <1>3, <1>5 DEF SerialInv, Current, Types
  <2>3. CASE q # r
    BY <2>1, <2>3, <1>2, <1>5 DEF SerialInv, Current, Types
  <2> QED  BY <2>2, <2>3
<1> QED  BY <1>6, <1>7, <1>8, <1>9 DEF SerialInv

LEMMA PrefixOfAppend ==
    ASSUME NEW S, NEW h \in Seq(S), NEW t \in S
    PROVE  IsPrefix(h, Append(h, t))
<1>1. Len(h) <= Len(Append(h, t))
  OBVIOUS
<1>2. SubSeq(h, 1, Len(h)) = SubSeq(Append(h, t), 1, Len(h))
  OBVIOUS
<1> QED  BY <1>1, <1>2 DEF IsPrefix

\* get_db: the commit extends the very history that was read.
LEMMA CommitKeepsSerial ==
    ASSUME SerialInv, NEW r \in Write, Commit(r), UNCHANGED <<todo, basis>>,
           basis[r] = history, stage[r] \in {"running", "answered"},
           NEW s \in Final, stage' = [stage EXCEPT ![r] = s]
    PROVE  SerialInv' /\ IsPrefix(history, history')
<1>1. r \in Tx /\ r \in Request /\ r \notin Worker /\ r \notin Read
  BY Sorts, SortAssumption DEF Request
<1>2. /\ history' = Append(history, r) /\ history \in Seq(Tx)
      /\ lock' = [k \in Lock |-> IF lock[k] = r THEN NoTx ELSE lock[k]]
      /\ pending' = [pending EXCEPT ![r] = <<>>]
  BY DEF Commit, Release, SerialInv, Types
<1>3. IsPrefix(history, history')
  BY <1>1, <1>2, PrefixOfAppend
<1>4. lock["mutation"] = r
  BY DEF SerialInv, MutationLocked
<1>5. \A q \in Request : stage'[q] = IF q = r THEN s ELSE stage[q]
  BY DEF SerialInv, Types
<1>6. \A q \in Write : q # r => stage[q] \notin {"entered", "running", "answered"}
  BY <1>4 DEF SerialInv, MutationLocked
<1>7. \A q \in Write : stage'[q] \notin {"entered", "running", "answered"}
  BY <1>5, <1>6 DEF Final, Request
<1>8. Types'
  <2>1. history' \in Seq(Tx)
    BY <1>1, <1>2
  <2>2. lock' \in [Lock -> Tx \cup {NoTx}]
    BY <1>2 DEF SerialInv, Types
  <2>3. stage' \in [Request -> Stage]
    BY DEF SerialInv, Types, Final, Stage
  <2>4. pending' = [t \in Tx |-> pending'[t]]
    BY <1>1, <1>2 DEF SerialInv, Types
  <2> QED  BY <2>1, <2>2, <2>3, <2>4 DEF SerialInv, Types
<1>9. NothingToSeed'
  <2>1. \A w \in Worker : w \in Tx /\ w # r
    BY <1>1 DEF Tx
  <2>2. \A t \in Tx : t # r => pending'[t] = pending[t]
    BY <1>2 DEF SerialInv, Types
  <2>3. \A q \in Read : q \in Request /\ q # r
    BY <1>1 DEF Request
  <2> QED  BY <2>1, <2>2, <2>3, <1>5 DEF SerialInv, NothingToSeed
<1>10. MutationLocked' /\ Current'
  BY <1>7 DEF MutationLocked, Current
<1> QED  BY <1>3, <1>8, <1>9, <1>10 DEF SerialInv

\* Transactions end without a commit: a refusal, an abort, a crash.
LEMMA DropKeepsSerial ==
    ASSUME SerialInv, NEW dead, UNCHANGED <<basis, history>>,
           stage' = [r \in Request |-> IF r \in dead THEN "failed" ELSE stage[r]],
           lock' = [k \in Lock |-> IF lock[k] \in dead THEN NoTx ELSE lock[k]],
           todo' = [t \in Tx |-> IF t \in dead THEN <<>> ELSE todo[t]],
           pending' = [t \in Tx |-> IF t \in dead THEN <<>> ELSE pending[t]]
    PROVE  SerialInv'
<1>1. Types'
  BY DEF SerialInv, Types, Stage
<1>2. NothingToSeed'
  BY DEF SerialInv, NothingToSeed, Tx, Request
<1>3. \A r \in Write : r \in Request /\ r \in Tx
  BY DEF Tx, Request
<1>4. MutationLocked'
  BY <1>3 DEF SerialInv, MutationLocked, Lock
<1>5. Current'
  BY <1>3 DEF SerialInv, Current
<1> QED  BY <1>1, <1>2, <1>4, <1>5 DEF SerialInv

LEMMA RollbackKeepsSerial ==
    ASSUME SerialInv, NEW r \in Request, Rollback(r), UNCHANGED basis,
           stage' = [stage EXCEPT ![r] = "failed"]
    PROVE  SerialInv'
<1> DEFINE dead == {r}
<1>1. stage' = [q \in Request |-> IF q \in dead THEN "failed" ELSE stage[q]]
  BY DEF SerialInv, Types
<1>2. lock' = [k \in Lock |-> IF lock[k] \in dead THEN NoTx ELSE lock[k]]
  BY DEF Rollback, Release
<1>3. todo' = [t \in Tx |-> IF t \in dead THEN <<>> ELSE todo[t]]
  BY DEF Rollback, SerialInv, Types
<1>4. pending' = [t \in Tx |-> IF t \in dead THEN <<>> ELSE pending[t]]
  BY DEF Rollback, SerialInv, Types
<1>5. UNCHANGED <<basis, history>>
  BY DEF Rollback
<1> HIDE DEF dead
<1> QED  BY <1>1, <1>2, <1>3, <1>4, <1>5, DropKeepsSerial

LEMMA SerialInvStep ==
    ASSUME ~RoutesMissing, SerialInv, [Next]_vars
    PROVE  SerialInv' /\ (history' # history => IsPrefix(history, history'))
<1>1. ASSUME UNCHANGED <<lock, todo, stage, basis, history, pending>>
      PROVE  SerialInv' /\ history' = history
  BY <1>1 DEF SerialInv, Types, NothingToSeed, MutationLocked, Current
<1>2. ASSUME NEW r \in Request, Receive(r) \/ Progress(r) \/ Refuse(r) \/ RefuseCommitted(r)
      PROVE  SerialInv' /\ (history' # history => IsPrefix(history, history'))
  <2>1. r \in Tx
    BY DEF Tx
  <2>2. r \in Write \/ r \in Read
    BY DEF Request
  <2>3. CASE Receive(r) \/ Enter(r) \/ PoolTimeout(r)
    <3>1. PICK s \in {"accepted", "entering", "failed"} : stage' = [stage EXCEPT ![r] = s]
      BY <2>3 DEF Receive, Enter, PoolTimeout
    <3>2. UNCHANGED <<lock, todo, basis, pending, history>>
      BY <2>3 DEF Receive, Enter, PoolTimeout
    <3>3. s \in Stage /\ s \notin {"entered", "running", "answered"} /\ s # "locking"
      BY <3>1 DEF Stage
    <3> QED  BY <3>1, <3>2, <3>3, MovesKeepSerial
  <2>4. CASE Connect(r)
    <3> DEFINE s == IF r \in Write THEN "locking" ELSE "entered"
    <3>1. stage' = [stage EXCEPT ![r] = s] /\ UNCHANGED <<lock, todo, basis, pending, history>>
      BY <2>4 DEF Connect
    <3>2. /\ s \in Stage /\ (r \in Write => s \notin {"entered", "running", "answered"})
          /\ (r \in Read => s # "locking")
      BY SortAssumption DEF Stage
    <3> HIDE DEF s
    <3> QED  BY <3>1, <3>2, MovesKeepSerial
  <2>5. CASE LockMutation(r)
    BY <2>5, LockKeepsSerial DEF LockMutation
  <2>6. CASE Run(r)
    BY <2>6, RunKeepsSerial DEF Run
  <2>7. CASE Handle(r)
    BY <2>7, HandleKeepsSerial DEF Handle
  <2>8. CASE Query(r)
    BY <2>8, <1>1 DEF Query
  <2>9. CASE Refuse(r) \/ Abort(r)
    <3>1. Rollback(r) /\ UNCHANGED basis /\ stage' = [stage EXCEPT ![r] = "failed"]
      BY <2>9 DEF Refuse, Abort
    <3>2. history' = history
      BY <3>1 DEF Rollback
    <3> QED  BY <3>1, <3>2, RollbackKeepsSerial
  <2>10. CASE RefuseCommitted(r)
    <3>1. /\ r \in Write /\ stage[r] = "running" /\ todo[r] = <<>> /\ Commit(r)
          /\ UNCHANGED <<todo, basis>> /\ stage' = [stage EXCEPT ![r] = "failed"]
      BY <2>10 DEF RefuseCommitted
    <3>2. basis[r] = history
      BY <3>1 DEF SerialInv, Current
    <3>3. "failed" \in Final
      BY DEF Final
    <3> QED  BY <3>1, <3>2, <3>3, CommitKeepsSerial
  <2>11. CASE Answer(r)
    <3>1. /\ stage[r] = "running" /\ todo[r] = <<>> /\ stage' = [stage EXCEPT ![r] = "answered"]
          /\ UNCHANGED <<lock, todo, basis, pending, history>>
      BY <2>11 DEF Answer
    <3>2. "answered" \in Stage
      BY DEF Stage
    <3> QED  BY <3>1, <3>2, MovesKeepSerial
  <2>12. CASE Finish(r)
    <3>1. stage[r] = "answered" /\ stage' = [stage EXCEPT ![r] = "done"] /\ UNCHANGED <<todo, basis>>
      BY <2>12 DEF Finish
    <3>2. "done" \in Final /\ "done" \in Stage
      BY DEF Final, Stage
    <3>3. CASE r \in Write
      <4>1. basis[r] = history /\ Commit(r)
        BY <3>1, <3>3, <2>12 DEF SerialInv, Current, Finish
      <4> QED  BY <3>1, <3>2, <3>3, <4>1, CommitKeepsSerial
    <3>4. CASE r \notin Write
      <4>1. UNCHANGED <<lock, todo, basis, pending, history>>
        BY <3>4, <2>12 DEF Finish
      <4> QED  BY <3>1, <3>2, <3>4, <4>1, MovesKeepSerial
    <3> QED  BY <3>3, <3>4
  <2> QED  BY <1>2, <2>3, <2>4, <2>5, <2>6, <2>7, <2>8, <2>9, <2>10, <2>11, <2>12 DEF Progress
<1>3. ASSUME NEW w \in Worker, ProcessProgress(w) \/ Crash(w)
      PROVE  SerialInv' /\ history' = history
  <2>1. w \in Tx /\ w \notin Request /\ todo[w] = <<>> /\ pending[w] = <<>>
    BY SortAssumption DEF Tx, SerialInv, NothingToSeed
  <2>2. CASE Start(w)
    <3>1. todo' = [todo EXCEPT ![w] = <<>>] /\ UNCHANGED <<lock, stage, basis, history, pending>>
      BY <2>2 DEF Start
    <3>2. todo' = todo
      BY <2>1, <3>1 DEF SerialInv, Types
    <3> QED  BY <3>1, <3>2, <1>1
  <2>3. CASE Boot(w)
    BY <2>1, <2>3 DEF Boot, Work
  <2>4. CASE BootDone(w)
    BY <2>1, <2>4, <1>1 DEF BootDone
  <2>5. CASE BootFails(w)
    BY <2>1, <2>5 DEF BootFails, SeedConflict, Victim, WaitsFor
  <2>6. CASE Crash(w)
    BY <2>6, DropKeepsSerial DEF Crash
  <2> QED  BY <1>3, <2>2, <2>3, <2>4, <2>5, <2>6 DEF ProcessProgress
<1>4. CASE UNCHANGED vars
  BY <1>4, <1>1 DEF vars
<1> QED  BY <1>2, <1>3, <1>4 DEF Next

\* get_db: where startup has nothing to add, every mutation commits on the very state
\* it has read, whatever the processes, requests, programs and crashes.
THEOREM NothingGoesUnseen ==
    ASSUME ~RoutesMissing PROVE Spec => MutationsSerialized
<1>1. SerialInv /\ [Next]_vars => SerialInv'
  BY SerialInvStep
<1>2. SerialInv /\ [Next]_vars => [IsPrefix(history, history')]_history
  BY SerialInvStep
<1> QED  BY SerialInvInit, <1>1, <1>2, PTL DEF Spec, MutationsSerialized

-----------------------------------------------------------------------------
(* One process with one connection *)

OneProcess == \A v, w \in Worker : v = w

HoldsConnection == {"locking", "entered", "running", "answered"}

\* One request at a time holds the connection.
Alone ==
    \A r, q \in Request :
        stage[r] \in HoldsConnection /\ stage[q] \in HoldsConnection => r = q

\* What a running query has seen is what is committed now.
Views ==
    /\ view \in [Read -> Seq(Seq(Tx))]
    /\ \A r \in Read :
          /\ stage[r] = "running" => \A i \in 1..Len(view[r]) : view[r][i] = history
          /\ view[r] # <<>> => stage[r] \in {"running", "answered"} \cup Final

OneInv == SerialInv /\ Alone /\ Views /\ ReadsOneState

\* What changes beside the parts of SerialInv, of a request.
LEMMA Stages ==
    ASSUME SerialInv, NEW r \in Request, Receive(r) \/ Progress(r) \/ Refuse(r) \/ RefuseCommitted(r)
    PROVE  \E s \in Stage :
              /\ stage' = [stage EXCEPT ![r] = s]
              /\ s \in HoldsConnection =>
                    \/ stage[r] \in HoldsConnection
                    \/ stage[r] = "entering" /\ HasConnection(On[r])
              /\ s = "running" => stage[r] \in {"entered", "running"}
              /\ stage[r] \in {"running", "answered"} \cup Final
                    => s \in {"running", "answered"} \cup Final
              /\ stage[r] = "answered" \/ s \in {"answered", "done"}
                    => s \in {"answered", "done"} /\ stage[r] \in {"running", "answered"}
              /\ history' # history => stage[r] \in {"running", "answered"} /\ s \in Final
              /\ stage[r] \notin Final
<1> DEFINE Goal(s) ==
              /\ stage' = [stage EXCEPT ![r] = s]
              /\ s \in HoldsConnection =>
                    \/ stage[r] \in HoldsConnection
                    \/ stage[r] = "entering" /\ HasConnection(On[r])
              /\ s = "running" => stage[r] \in {"entered", "running"}
              /\ stage[r] \in {"running", "answered"} \cup Final
                    => s \in {"running", "answered"} \cup Final
              /\ stage[r] = "answered" \/ s \in {"answered", "done"}
                    => s \in {"answered", "done"} /\ stage[r] \in {"running", "answered"}
              /\ history' # history => stage[r] \in {"running", "answered"} /\ s \in Final
              /\ stage[r] \notin Final
<1>1. stage \in [Request -> Stage]
  BY DEF SerialInv, Types
<1>2. CASE Receive(r)
  <2>1. Goal("accepted")
    BY <1>2 DEF Receive, HoldsConnection, Final
  <2> QED  BY <2>1 DEF Stage
<1>3. CASE Enter(r)
  <2>1. Goal("entering")
    BY <1>3 DEF Enter, HoldsConnection, Final
  <2> QED  BY <2>1 DEF Stage
<1>4. CASE Connect(r)
  <2>1. stage[r] = "entering" /\ HasConnection(On[r]) /\ history' = history
    BY <1>4 DEF Connect
  <2>2. stage' = [stage EXCEPT ![r] = "locking"] \/ stage' = [stage EXCEPT ![r] = "entered"]
    BY <1>4 DEF Connect
  <2> HIDE DEF HasConnection
  <2>3. Goal("locking") \/ Goal("entered")
    BY <2>1, <2>2 DEF Final
  <2> HIDE DEF Goal
  <2>4. \E s \in Stage : Goal(s)
    BY <2>3 DEF Stage
  <2> QED  BY <2>4 DEF Goal
<1>5. CASE PoolTimeout(r)
  <2>1. Goal("failed")
    BY <1>5 DEF PoolTimeout, HoldsConnection, Final
  <2> QED  BY <2>1 DEF Stage
<1>6. CASE LockMutation(r)
  <2>1. Goal("entered")
    BY <1>6 DEF LockMutation, HoldsConnection, Final
  <2> QED  BY <2>1 DEF Stage
<1>7. CASE Run(r)
  <2>1. Goal("running")
    BY <1>7 DEF Run, HoldsConnection, Final
  <2> QED  BY <2>1 DEF Stage
<1>8. CASE Handle(r) \/ Query(r)
  <2>1. stage[r] = "running" /\ stage' = stage /\ history' = history
    BY <1>8 DEF Handle, Query
  <2>2. stage' = [stage EXCEPT ![r] = "running"]
    BY <2>1, <1>1
  <2>3. Goal("running")
    BY <2>1, <2>2 DEF HoldsConnection, Final
  <2> QED  BY <2>3 DEF Stage
<1>9. CASE Refuse(r) \/ RefuseCommitted(r) \/ Abort(r)
  <2>1. Goal("failed")
    BY <1>9 DEF Refuse, RefuseCommitted, Abort, Rollback, HoldsConnection, Final
  <2> QED  BY <2>1 DEF Stage
<1>10. CASE Answer(r)
  <2>1. Goal("answered")
    BY <1>10 DEF Answer, HoldsConnection, Final
  <2> QED  BY <2>1 DEF Stage
<1>11. CASE Finish(r)
  <2>1. Goal("done")
    BY <1>11 DEF Finish, HoldsConnection, Final
  <2> QED  BY <2>1 DEF Stage
<1> QED  BY <1>2, <1>3, <1>4, <1>5, <1>6, <1>7, <1>8, <1>9, <1>10, <1>11 DEF Progress

LEMMA NobodyConnected ==
    ASSUME PoolSize = 1, NEW w, HasConnection(w)
    PROVE  Connected(w) = {}
<1>1. IsFiniteSet(Request)
  BY SizeAssumption
<1>2. Connected(w) \subseteq Request
  BY DEF Connected
<1>3. IsFiniteSet(Connected(w))
  BY <1>1, <1>2, FS_Subset
<1>4. Cardinality(Connected(w)) \in Nat
  BY <1>3, FS_CardinalityType
<1>5. Cardinality(Connected(w)) = 0
  BY <1>4 DEF HasConnection
<1> QED  BY <1>3, <1>5, FS_EmptySet

LEMMA ProcessesLeaveStages ==
    ASSUME SerialInv, NEW w \in Worker, ProcessProgress(w) \/ Crash(w)
    PROVE  /\ UNCHANGED <<view, acked>>
           /\ \A r \in Request : stage'[r] \in {stage[r], "failed"}
<1>1. stage \in [Request -> Stage]
  BY DEF SerialInv, Types
<1> QED  BY <1>1 DEF ProcessProgress, Start, Boot, BootDone, BootFails, Crash

LEMMA AloneStep ==
    ASSUME OneProcess, PoolSize = 1, SerialInv, Alone, [Next]_vars
    PROVE  Alone'
<1>1. stage \in [Request -> Stage]
  BY DEF SerialInv, Types
<1>2. ASSUME NEW r \in Request, Receive(r) \/ Progress(r) \/ Refuse(r) \/ RefuseCommitted(r)
      PROVE  Alone'
  <2>1. PICK s \in Stage :
          /\ stage' = [stage EXCEPT ![r] = s]
          /\ s \in HoldsConnection =>
                \/ stage[r] \in HoldsConnection
                \/ stage[r] = "entering" /\ HasConnection(On[r])
    BY <1>2, Stages
  <2>2. CASE s \notin HoldsConnection \/ stage[r] \in HoldsConnection
    BY <2>1, <2>2, <1>1 DEF Alone
  <2>3. CASE s \in HoldsConnection /\ stage[r] \notin HoldsConnection
    <3>1. Connected(On[r]) = {}
      BY <2>1, <2>3, NobodyConnected
    <3>2. \A q \in Request : On[q] = On[r]
      BY OnAssumption DEF OneProcess
    <3>3. \A q \in Request : stage[q] \notin HoldsConnection
      BY <3>1, <3>2 DEF Connected, HoldsConnection
    <3> QED  BY <2>1, <3>3, <1>1 DEF Alone
  <2> QED  BY <2>2, <2>3
<1>3. ASSUME NEW w \in Worker, ProcessProgress(w) \/ Crash(w)
      PROVE  Alone'
  BY <1>3, ProcessesLeaveStages DEF Alone, HoldsConnection
<1>4. CASE UNCHANGED vars
  BY <1>4 DEF vars, Alone
<1> QED  BY <1>2, <1>3, <1>4 DEF Next

\* A query's next statement sees the state its first one saw.
LEMMA ViewsStep ==
    ASSUME ~RoutesMissing, SerialInv, Alone, Views, ReadsOneState, [Next]_vars
    PROVE  Views' /\ ReadsOneState'
<1>1. /\ stage \in [Request -> Stage] /\ history \in Seq(Tx)
      /\ history' \in Seq(Tx)
  BY SerialInvStep DEF SerialInv, Types
<1>2. \A q \in Read : q \in Request
  BY DEF Request
<1>3. ASSUME NEW r \in Request, Receive(r) \/ Progress(r) \/ Refuse(r) \/ RefuseCommitted(r),
             ~Query(r)
      PROVE  Views' /\ ReadsOneState'
  <2>1. view' = view
    BY <1>3 DEF Receive, Progress, Refuse, RefuseCommitted, Enter, Connect, PoolTimeout,
                LockMutation, Run, Handle, Abort, Answer, Finish
  <2>2. PICK s \in Stage :
          /\ stage' = [stage EXCEPT ![r] = s]
          /\ s = "running" => stage[r] \in {"entered", "running"}
          /\ stage[r] \in {"running", "answered"} \cup Final
                => s \in {"running", "answered"} \cup Final
          /\ history' # history => stage[r] \in {"running", "answered"} /\ s \in Final
    BY <1>3, Stages
  <2>3. ASSUME NEW q \in Read
        PROVE  /\ stage'[q] = "running" => \A i \in 1..Len(view[q]) : view[q][i] = history'
               /\ view[q] # <<>> => stage'[q] \in {"running", "answered"} \cup Final
    <3>1. /\ stage[q] = "running" => \A i \in 1..Len(view[q]) : view[q][i] = history
          /\ view[q] # <<>> => stage[q] \in {"running", "answered"} \cup Final
          /\ q \in Request
      BY <1>2 DEF Views
    <3>2. CASE q = r
      <4>1. stage'[q] = s
        BY <1>1, <2>2, <3>1, <3>2
      <4>2. view[q] # <<>> => s \in {"running", "answered"} \cup Final
        BY <2>2, <3>1, <3>2
      <4>3. ASSUME s = "running"
            PROVE  \A i \in 1..Len(view[q]) : view[q][i] = history'
        <5>1. history' = history
          BY <4>3, <2>2 DEF Final
        <5>2. CASE stage[q] = "running"
          BY <5>1, <5>2, <3>1
        <5>3. CASE stage[q] = "entered"
          <6>1. view[q] = <<>>
            BY <5>3, <3>1 DEF Final
          <6> QED  BY <6>1
        <5> QED  BY <5>2, <5>3, <4>3, <2>2, <3>2
      <4> QED  BY <4>1, <4>2, <4>3
    <3>3. CASE q # r
      <4>1. stage'[q] = stage[q]
        BY <1>1, <2>2, <3>1, <3>3
      <4>2. stage[q] = "running" => history' = history
        BY <2>2, <3>1, <3>3 DEF Alone, HoldsConnection
      <4> QED  BY <4>1, <4>2, <3>1
    <3> QED  BY <3>2, <3>3
  <2> QED  BY <2>1, <2>3 DEF Views, ReadsOneState
<1>4. ASSUME NEW r \in Request, Query(r)
      PROVE  Views' /\ ReadsOneState'
  <2>1. /\ r \in Read /\ stage[r] = "running" /\ view' = [view EXCEPT ![r] = Append(view[r], history)]
        /\ stage' = stage /\ history' = history
    BY <1>4 DEF Query
  <2>2. view[r] \in Seq(Seq(Tx)) /\ \A i \in 1..Len(view[r]) : view[r][i] = history
    BY <2>1 DEF Views
  <2> DEFINE new == Append(view[r], history)
  <2>3. new \in Seq(Seq(Tx)) /\ \A i \in 1..Len(new) : new[i] = history
    <3>1. Len(new) = Len(view[r]) + 1 /\ new[Len(view[r]) + 1] = history
      BY <2>2
    <3>2. \A i \in 1..Len(view[r]) : new[i] = view[r][i]
      BY <2>2
    <3>3. new \in Seq(Seq(Tx)) /\ Len(view[r]) \in Nat
      BY <1>1, <2>2
    <3> HIDE DEF new
    <3>4. ASSUME NEW i \in 1..Len(new) PROVE new[i] = history
      <4>1. i \in 1..Len(view[r]) \/ i = Len(view[r]) + 1
        BY <3>1, <3>3
      <4>2. CASE i \in 1..Len(view[r])
        <5>1. new[i] = view[r][i]
          BY <3>2, <4>2
        <5>2. view[r][i] = history
          BY <2>2, <4>2
        <5> QED  BY <5>1, <5>2
      <4> QED  BY <3>1, <4>1, <4>2
    <3> QED  BY <3>3, <3>4
  <2> HIDE DEF new
  <2>4. view' \in [Read -> Seq(Seq(Tx))] /\ view'[r] = new /\ \A q \in Read \ {r} : view'[q] = view[q]
    BY <2>1, <2>3 DEF Views, new
  <2>5. Views'
    BY <2>1, <2>3, <2>4 DEF Views
  <2>6. ReadsOneState'
    <3> SUFFICES ASSUME NEW q \in Read, NEW i \in 1..Len(view'[q]), NEW j \in 1..Len(view'[q])
                 PROVE  view'[q][i] = view'[q][j]
      BY DEF ReadsOneState
    <3>1. CASE q = r
      BY <3>1, <2>3, <2>4
    <3>2. CASE q # r
      <4>1. view'[q] = view[q]
        BY <3>2, <2>4
      <4>2. i \in 1..Len(view[q]) /\ j \in 1..Len(view[q])
        BY <4>1
      <4>3. view[q][i] = view[q][j]
        BY <4>2 DEF ReadsOneState
      <4> QED  BY <4>1, <4>3
    <3> QED  BY <3>1, <3>2
  <2> QED  BY <2>5, <2>6
<1>5. ASSUME NEW w \in Worker, ProcessProgress(w) \/ Crash(w)
      PROVE  Views' /\ ReadsOneState'
  <2>1. UNCHANGED <<view, history>>
    <3>1. todo[w] = <<>> /\ pending[w] = <<>>
      BY DEF SerialInv, NothingToSeed
    <3> QED  BY <1>5, <3>1, ProcessesLeaveStages
             DEF ProcessProgress, Start, Boot, BootDone, BootFails, Rollback, Crash
  <2>2. \A r \in Read : stage'[r] \in {stage[r], "failed"}
    BY <1>2, <1>5, ProcessesLeaveStages
  <2> QED  BY <2>1, <2>2 DEF Views, ReadsOneState, Final
<1>6. CASE UNCHANGED vars
  BY <1>6 DEF vars, Views, ReadsOneState
<1> QED  BY <1>3, <1>4, <1>5, <1>6 DEF Next

LEMMA OneInvInit == Init => OneInv
<1> SUFFICES ASSUME Init PROVE OneInv
  OBVIOUS
<1>1. Alone /\ Views /\ ReadsOneState
  BY DEF Init, Alone, Views, ReadsOneState, HoldsConnection, Request
<1> QED  BY <1>1, SerialInvInit DEF OneInv

LEMMA OneInvStep ==
    ASSUME ~RoutesMissing, OneProcess, PoolSize = 1, OneInv, [Next]_vars
    PROVE  OneInv'
BY SerialInvStep, AloneStep, ViewsStep DEF OneInv

\* get_db: with one process and one connection (the default DB_POOL_SIZE) the
\* statements of a query see one state, whatever else is requested or crashes.
THEOREM QueriesReadOneState ==
    ASSUME ~RoutesMissing, OneProcess, PoolSize = 1
    PROVE  Spec => []ReadsOneState
<1>1. OneInv /\ [Next]_vars => OneInv'
  BY OneInvStep
<1>2. OneInv => ReadsOneState
  BY DEF OneInv
<1> QED  BY OneInvInit, <1>1, <1>2, PTL DEF Spec

\* Without crashes an answered mutation is committed in the end, and before the
\* query it precedes gets the connection.
Acknowledged ==
    /\ boots \in [Worker -> Nat]
    /\ acked \in [Read -> SUBSET Write]
    /\ \A r \in Read : \A q \in acked[r] : stage[q] \in {"answered", "done"}
    /\ \A q \in Write : stage[q] = "done" => Contains(history, q)
    /\ AnsweredIsVisible

AckInv == OneInv /\ Acknowledged

LEMMA ContainedInLonger ==
    ASSUME NEW S, NEW h \in Seq(S), NEW g \in Seq(S), IsPrefix(h, g), NEW q, Contains(h, q)
    PROVE  Contains(g, q)
<1>1. PICK i \in 1..Len(h) : h[i] = q
  BY DEF Contains
<1>2. Len(h) <= Len(g) /\ SubSeq(h, 1, Len(h)) = SubSeq(g, 1, Len(h))
  BY DEF IsPrefix
<1>3. SubSeq(h, 1, Len(h))[i] = h[i] /\ SubSeq(g, 1, Len(h))[i] = g[i]
  BY <1>1, <1>2
<1>4. i \in 1..Len(g) /\ g[i] = q
  BY <1>1, <1>2, <1>3
<1> QED  BY <1>4 DEF Contains

LEMMA AcknowledgedStep ==
    ASSUME ~RoutesMissing, MaxBoot = 0, OneInv, Acknowledged, [Next]_vars
    PROVE  Acknowledged'
<1>1. /\ stage \in [Request -> Stage] /\ history \in Seq(Tx) /\ history' \in Seq(Tx)
      /\ history' # history => IsPrefix(history, history')
  BY SerialInvStep DEF OneInv, SerialInv, Types
<1>2. /\ \A q \in Read : q \in Request /\ q \notin Write
      /\ \A q \in Write : q \in Request /\ q \in Tx /\ q \notin Read
  BY SortAssumption DEF Request, Tx
<1>3. \A q \in Write : Contains(history, q) => Contains(history', q)
  BY <1>1, ContainedInLonger
<1>4. ASSUME NEW r \in Request, Receive(r) \/ Progress(r) \/ Refuse(r) \/ RefuseCommitted(r)
      PROVE  Acknowledged'
  <2>1. PICK s \in Stage :
          /\ stage' = [stage EXCEPT ![r] = s]
          /\ stage[r] = "answered" \/ s \in {"answered", "done"}
                => s \in {"answered", "done"} /\ stage[r] \in {"running", "answered"}
          /\ stage[r] \notin Final
    BY <1>4, Stages DEF OneInv
  <2>2. \A q \in Request : stage'[q] = IF q = r THEN s ELSE stage[q]
    BY <1>1, <2>1
  <2>3. \A q \in Write : stage[q] \in {"answered", "done"} => stage'[q] \in {"answered", "done"}
    BY <1>2, <2>1, <2>2 DEF Final
  <2>4. boots' = boots
    BY <1>4 DEF Receive, Progress, Refuse, RefuseCommitted, Enter, Connect, PoolTimeout,
                LockMutation, Run, Handle, Query, Abort, Answer, Finish
  <2>5. ASSUME NEW q \in Write, stage'[q] = "done" PROVE Contains(history', q)
    <3>1. CASE q # r \/ stage[q] = "done"
      <4>1. stage[q] = "done"
        BY <1>2, <2>2, <2>5, <3>1
      <4> QED  BY <4>1, <1>3 DEF Acknowledged
    <3>2. CASE q = r /\ stage[q] # "done"
      <4>1. Finish(r)
        BY <1>1, <1>2, <1>4, <2>5, <3>2 DEF Receive, Progress, Refuse, RefuseCommitted, Enter, Connect, PoolTimeout,
                LockMutation, Run, Handle, Query, Abort, Answer
      <4>2. history' = Append(basis[r], r) /\ basis[r] \in Seq(Tx)
        BY <1>2, <3>2, <4>1 DEF Finish, Commit, OneInv, SerialInv, Types
      <4>3. Len(history') = Len(basis[r]) + 1 /\ history'[Len(basis[r]) + 1] = r
            /\ Len(basis[r]) + 1 \in 1..Len(history')
        BY <4>2
      <4> QED  BY <3>2, <4>3 DEF Contains
    <3> QED  BY <3>1, <3>2
  <2>6. CASE Receive(r)
    <3>1. /\ stage[r] = "idle" /\ view' = view
          /\ acked' = IF r \in Read
                THEN [acked EXCEPT ![r] = {q \in Write : stage[q] \in {"answered", "done"}}]
                ELSE acked
      BY <2>6 DEF Receive
    <3>2. acked' \in [Read -> SUBSET Write]
      BY <3>1 DEF Acknowledged
    <3>3. ASSUME NEW p \in Read, NEW q \in acked'[p]
          PROVE  /\ stage'[q] \in {"answered", "done"}
                 /\ \A i \in 1..Len(view'[p]) : Contains(view'[p][i], q)
      <4>1. q \in Write
        BY <3>2
      <4>2. CASE p = r
        <5>1. stage[q] \in {"answered", "done"}
          BY <3>1, <3>3, <4>2 DEF Acknowledged
        <5>2. view[p] = <<>>
          BY <3>1, <4>2 DEF OneInv, Views, Final
        <5>3. Len(view'[p]) = 0
          BY <3>1, <5>2
        <5> QED  BY <4>1, <5>1, <5>3, <2>3
      <4>3. CASE p # r
        <5>1. q \in acked[p]
          BY <3>1, <3>3, <4>3 DEF Acknowledged
        <5> QED  BY <4>1, <5>1, <3>1, <2>3 DEF Acknowledged, AnsweredIsVisible
      <4> QED  BY <4>2, <4>3
    <3> QED  BY <2>4, <2>5, <3>2, <3>3 DEF Acknowledged, AnsweredIsVisible
  <2>7. CASE Query(r)
    <3>1. /\ r \in Read /\ stage[r] = "running" /\ acked' = acked /\ stage' = stage
          /\ view' = [view EXCEPT ![r] = Append(view[r], history)]
      BY <2>7 DEF Query
    <3>2. ASSUME NEW p \in Read, NEW q \in acked[p], NEW i \in 1..Len(view'[p])
          PROVE  Contains(view'[p][i], q)
      <4>0. q \in Write /\ stage[q] \in {"answered", "done"}
        BY DEF Acknowledged
      <4>1. CASE p = r
        <5>1. stage[q] = "done"
          BY <1>2, <3>1, <4>0, <4>1 DEF OneInv, Alone, HoldsConnection
        <5>2. Contains(history, q)
          BY <4>0, <5>1 DEF Acknowledged
        <5>3. view[r] \in Seq(Seq(Tx)) /\ view'[r] = Append(view[r], history)
          BY <3>1 DEF OneInv, Views
        <5>4. i \in 1..(Len(view[r]) + 1) /\ Len(view[r]) \in Nat
          BY <4>1, <5>3
        <5>5. CASE i \in 1..Len(view[r])
          <6>1. view'[p][i] = view[p][i]
            BY <4>1, <5>3, <5>5
          <6> QED  BY <4>1, <5>5, <6>1 DEF Acknowledged, AnsweredIsVisible
        <5>6. CASE i = Len(view[r]) + 1
          <6>1. view'[p][i] = history
            BY <4>1, <5>3, <5>6
          <6> QED  BY <5>2, <6>1
        <5> QED  BY <5>4, <5>5, <5>6
      <4>2. CASE p # r
        <5>1. view'[p] = view[p]
          BY <3>1, <4>2 DEF OneInv, Views
        <5>2. i \in 1..Len(view[p])
          BY <5>1
        <5>3. Contains(view[p][i], q)
          BY <5>2 DEF Acknowledged, AnsweredIsVisible
        <5> QED  BY <5>1, <5>3
      <4> QED  BY <4>1, <4>2
    <3>3. AnsweredIsVisible'
      BY <3>1, <3>2 DEF AnsweredIsVisible
    <3> QED  BY <2>4, <2>5, <3>1, <3>3 DEF Acknowledged
  <2>8. CASE ~Receive(r) /\ ~Query(r)
    <3>1. UNCHANGED <<acked, view>>
      BY <1>4, <2>8 DEF Progress, Refuse, RefuseCommitted, Enter, Connect, PoolTimeout,
                LockMutation, Run, Handle, Abort, Answer, Finish
    <3>2. \A p \in Read : \A q \in acked[p] : stage'[q] \in {"answered", "done"}
      BY <2>3 DEF Acknowledged
    <3> QED  BY <2>4, <2>5, <3>1, <3>2 DEF Acknowledged, AnsweredIsVisible
  <2> QED  BY <2>6, <2>7, <2>8
<1>5. ASSUME NEW w \in Worker, ProcessProgress(w) \/ Crash(w)
      PROVE  Acknowledged'
  <2>1. boots[w] \in Nat /\ todo[w] = <<>> /\ pending[w] = <<>>
    BY DEF OneInv, SerialInv, NothingToSeed, Acknowledged
  <2>2. BootDone(w)
    BY <1>5, <2>1 DEF ProcessProgress, Start, Crash, Boot, Work, BootFails, SeedConflict, Victim, WaitsFor
  <2>3. UNCHANGED <<boots, acked, stage, view, history>>
    BY <2>1, <2>2 DEF BootDone
  <2> QED  BY <2>3 DEF Acknowledged, AnsweredIsVisible
<1>6. CASE UNCHANGED vars
  BY <1>6 DEF vars, Acknowledged, AnsweredIsVisible
<1> QED  BY <1>4, <1>5, <1>6 DEF Next

\* get_db: with one process and one connection a query sees every mutation that was
\* answered before it arrived, although it commits only after the answer - unless
\* the process dies in between.
THEOREM AnswersAreVisible ==
    ASSUME ~RoutesMissing, OneProcess, PoolSize = 1, MaxBoot = 0
    PROVE  Spec => []AnsweredIsVisible
<1>1. Init => AckInv
  <2> SUFFICES ASSUME Init PROVE AckInv
    OBVIOUS
  <2>1. Acknowledged
    BY DEF Init, Acknowledged, AnsweredIsVisible, Request
  <2> QED  BY <2>1, OneInvInit DEF AckInv
<1>2. AckInv /\ [Next]_vars => AckInv'
  BY OneInvStep, AcknowledgedStep DEF AckInv
<1>3. AckInv => AnsweredIsVisible
  BY DEF AckInv, Acknowledged
<1> QED  BY <1>1, <1>2, <1>3, PTL DEF Spec
=============================================================================
