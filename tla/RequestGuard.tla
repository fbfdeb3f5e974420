---------------------------- MODULE RequestGuard ----------------------------
(***************************************************************************)
(* How requests reach the database (apps/api/main.py request_guard and     *)
(* lifespan, lattice_core/db.py get_db, lattice_core/audit/service.py      *)
(* record): the ASGI write guard of each worker process, the worker        *)
(* threads, the connection pool, the advisory transaction lock taken       *)
(* before a mutation reads, the audit lock taken by the first event, and   *)
(* the commit that the framework runs after the answer has been sent.      *)
(*                                                                         *)
(* What a handler computes is left out: the committed data is the history  *)
(* of the transactions it reflects, and a transaction writes the history   *)
(* it read extended with itself.  The other modules take each handler as   *)
(* one step; MutationsSerialized and ChainVerifies are what they rely on.  *)
(***************************************************************************)
EXTENDS Integers, Sequences, FiniteSets, SequencesExt

CONSTANTS
    Worker,         \* API processes
    Write, Read,    \* mutating requests and queries
    NoTx,           \* stands for: no transaction
    On,             \* On[r]: the process that receives request r
    Program,        \* what mutations do with the database, as sequences of steps
    Threads,        \* threads of a process for synchronous code
    PoolSize,       \* connections of a process (DB_POOL_SIZE, no overflow)
    Running,        \* the processes that serve when the model starts
    RoutesMissing,  \* whether lifespan finds accounts or routes to add
    MaxBoot         \* bound: number of starts of a process

Request == Write \cup Read
Tx == Request \cup Worker
Lock == {"mutation", "audit", "plans", "seed"}
Step == {"read", "audit", "plans", "seed"}

ASSUME SortAssumption == Write \cap Read = {} /\ Request \cap Worker = {} /\ NoTx \notin Tx
ASSUME OnAssumption == On \in [Request -> Worker]
\* Every mutation reads first: current_actor and login look up the account.
ASSUME ProgramAssumption ==
    /\ Program \subseteq Seq(Step \ {"seed"})
    /\ \A p \in Program : p # <<>> /\ Head(p) = "read"
ASSUME SizeAssumption == /\ Threads \in Nat \ {0}
                         /\ PoolSize \in Nat \ {0}
                         /\ Running \subseteq Worker
                         /\ RoutesMissing \in BOOLEAN
                         /\ MaxBoot \in Nat
                         /\ IsFiniteSet(Request)

VARIABLES
    process,    \* process[w]: "down", "up" or "starting"
    boots,      \* boots[w]: how often process w has been started
    guard,      \* guard[w]: the holder of the write guard of w
    stage,      \* stage[r]: how far request r has come
    todo,       \* todo[t]: the steps the transaction t still has to make
    lock,       \* lock[k]: the transaction that holds the database lock k
    basis,      \* basis[t]: the history the transaction t has read
    pending,    \* pending[t]: its audit events, not committed yet
    view,       \* view[r]: the histories seen by the statements of query r
    acked,      \* acked[r]: the mutations answered before query r arrived
    history,    \* the committed transactions, in the order of their effects
    chain       \* the committed audit events

vars == <<process, boots, guard, stage, todo, lock, basis, pending, view, acked,
          history, chain>>

Stage == {"idle", "accepted", "entering", "locking", "entered", "running",
          "answered", "done", "failed"}
Final == {"done", "failed"}

Init ==
    /\ process = [w \in Worker |-> IF w \in Running THEN "up" ELSE "down"]
    /\ boots = [w \in Worker |-> 0]
    /\ guard = [w \in Worker |-> NoTx]
    /\ stage = [r \in Request |-> "idle"]
    /\ todo = [t \in Tx |-> <<>>]
    /\ lock = [k \in Lock |-> NoTx]
    /\ basis = [t \in Tx |-> <<>>]
    /\ pending = [t \in Tx |-> <<>>]
    /\ view = [r \in Read |-> <<>>]
    /\ acked = [r \in Read |-> {}]
    /\ history = <<>>
    /\ chain = <<>>

-----------------------------------------------------------------------------
(* Threads, connections and locks *)

Busy(w) == {r \in Request : On[r] = w /\ stage[r] \in {"entering", "locking", "running"}}
\* Mutant: a connection returns to the pool when the answer leaves.
ConnectedUntilAnswered(w) == {r \in Request : On[r] = w /\
                                 stage[r] \in {"locking", "entered", "running"}}

\* The connection is held until the commit, after the answer.
Connected(w) == {r \in Request : On[r] = w /\
                    stage[r] \in {"locking", "entered", "running", "answered"}}

HasThread(w) == Cardinality(Busy(w)) < Threads
HasConnection(w) == Cardinality(Connected(w)) < PoolSize

\* Mutant: session locks instead of transaction locks; only row locks go.
ReleaseRowLocks(locks, t) ==
    [k \in Lock |-> IF locks[k] = t /\ k \in {"plans", "seed"} THEN NoTx ELSE locks[k]]

Release(locks, t) == [k \in Lock |-> IF locks[k] = t THEN NoTx ELSE locks[k]]
Unguard(t) == [w \in Worker |-> IF guard[w] = t THEN NoTx ELSE guard[w]]

\* A rolled back transaction leaves nothing, not even a gap in the chain.
Rollback(t) ==
    /\ lock' = Release(lock, t)
    /\ pending' = [pending EXCEPT ![t] = <<>>]
    /\ todo' = [todo EXCEPT ![t] = <<>>]
    /\ UNCHANGED <<history, chain>>

Commit(t) ==
    /\ history' = Append(basis[t], t)
    /\ chain' = chain \o pending[t]
    /\ lock' = Release(lock, t)
    /\ pending' = [pending EXCEPT ![t] = <<>>]

-----------------------------------------------------------------------------
(* The steps of a transaction *)

\* record: the next sequence number and the hash of the last event, the own
\* uncommitted events included.
LastEvent(t) ==
    IF chain \o pending[t] = <<>> THEN <<>> ELSE <<Last(chain \o pending[t])>>

NextEvent(t) ==
    [sequence |-> IF LastEvent(t) = <<>> THEN 1 ELSE LastEvent(t)[1].sequence + 1,
     by |-> t, previous |-> LastEvent(t)]

Acquire(t, k) ==
    /\ lock[k] \in {NoTx, t}
    /\ lock' = [lock EXCEPT ![k] = t]

\* Mutant: the last event is read without the audit lock.
RecordUnlocked(t) ==
    /\ pending' = [pending EXCEPT ![t] = Append(@, NextEvent(t))]
    /\ UNCHANGED lock

Record(t) ==
    /\ Acquire(t, "audit")
    /\ pending' = [pending EXCEPT ![t] = Append(@, NextEvent(t))]

\* One database statement of a running transaction.
Work(t) ==
    /\ todo[t] # <<>>
    /\ todo' = [todo EXCEPT ![t] = Tail(@)]
    /\ CASE Head(todo[t]) = "read" ->
              basis' = [basis EXCEPT ![t] = history] /\ UNCHANGED <<lock, pending>>
         [] Head(todo[t]) = "audit" -> Record(t) /\ UNCHANGED basis
         [] OTHER -> Acquire(t, Head(todo[t])) /\ UNCHANGED <<basis, pending>>

\* The database's deadlock detection aborts one of two transactions that wait
\* for each other.
WaitsFor(t, u) ==
    /\ todo[t] # <<>>
    /\ Head(todo[t]) \in Lock
    /\ lock[Head(todo[t])] = u
    /\ t # u

Victim(t) == \E u \in Tx : WaitsFor(t, u) /\ WaitsFor(u, t)

-----------------------------------------------------------------------------
(* Requests *)

\* request_guard: one mutation at a time passes the guard of its process.
Receive(r) ==
    /\ stage[r] = "idle"
    /\ process[On[r]] = "up"
    /\ r \in Write => guard[On[r]] = NoTx
    /\ guard' = IF r \in Write THEN [guard EXCEPT ![On[r]] = r] ELSE guard
    /\ acked' = IF r \in Read
                THEN [acked EXCEPT ![r] = {q \in Write : stage[q] \in {"answered", "done"}}]
                ELSE acked
    /\ stage' = [stage EXCEPT ![r] = "accepted"]
    /\ UNCHANGED <<process, boots, todo, lock, basis, pending, view, history, chain>>

\* get_db and current_actor run in a thread; the first statement takes a
\* connection and fails when none is returned in time.
Enter(r) ==
    /\ stage[r] = "accepted"
    /\ HasThread(On[r])
    /\ stage' = [stage EXCEPT ![r] = "entering"]
    /\ UNCHANGED <<process, boots, guard, todo, lock, basis, pending, view, acked, history, chain>>

Connect(r) ==
    /\ stage[r] = "entering"
    /\ HasConnection(On[r])
    /\ stage' = [stage EXCEPT ![r] = IF r \in Write THEN "locking" ELSE "entered"]
    /\ UNCHANGED <<process, boots, guard, todo, lock, basis, pending, view, acked, history, chain>>

\* Mutant: the pool waits without a limit.
NoPoolTimeout(r) == r \notin Request /\ UNCHANGED vars

PoolTimeout(r) ==
    /\ stage[r] = "entering"
    /\ ~HasConnection(On[r])
    /\ stage' = [stage EXCEPT ![r] = "failed"]
    /\ guard' = Unguard(r)
    /\ UNCHANGED <<process, boots, todo, lock, basis, pending, view, acked, history, chain>>

\* Mutant: the advisory lock is left out, the write guard is trusted.
GuardAlone(r) ==
    /\ stage[r] = "locking"
    /\ stage' = [stage EXCEPT ![r] = "entered"]
    /\ UNCHANGED <<process, boots, guard, todo, lock, basis, pending, view, acked, history, chain>>

LockMutation(r) ==
    /\ stage[r] = "locking"
    /\ Acquire(r, "mutation")
    /\ stage' = [stage EXCEPT ![r] = "entered"]
    /\ UNCHANGED <<process, boots, guard, todo, basis, pending, view, acked, history, chain>>

\* The handler itself needs a thread again, while it holds its connection.
Run(r) ==
    /\ stage[r] = "entered"
    /\ HasThread(On[r])
    /\ stage' = [stage EXCEPT ![r] = "running"]
    /\ \E program \in Program :
          todo' = IF r \in Write THEN [todo EXCEPT ![r] = program] ELSE todo
    /\ UNCHANGED <<process, boots, guard, lock, basis, pending, view, acked, history, chain>>

Handle(r) ==
    /\ stage[r] = "running"
    /\ Work(r)
    /\ UNCHANGED <<process, boots, guard, stage, view, acked, history, chain>>

\* A query of several statements (get_graph reads the state, then the plan).
Query(r) ==
    /\ r \in Read
    /\ stage[r] = "running"
    /\ Len(view[r]) < 2
    /\ view' = [view EXCEPT ![r] = Append(@, history)]
    /\ UNCHANGED <<process, boots, guard, stage, todo, lock, basis, pending, acked, history, chain>>

\* An HTTPException: the transaction is rolled back, then the answer is sent.
Refuse(r) ==
    /\ r \in Write
    /\ stage[r] = "running"
    /\ Rollback(r)
    /\ stage' = [stage EXCEPT ![r] = "failed"]
    /\ guard' = Unguard(r)
    /\ UNCHANGED <<process, boots, basis, view, acked>>

\* blocked: the refusal and its event are committed, then the answer is sent.
RefuseCommitted(r) ==
    /\ r \in Write
    /\ stage[r] = "running"
    /\ todo[r] = <<>>
    /\ pending[r] # <<>>
    /\ Commit(r)
    /\ stage' = [stage EXCEPT ![r] = "failed"]
    /\ guard' = Unguard(r)
    /\ UNCHANGED <<process, boots, todo, basis, view, acked>>

Abort(r) ==
    /\ stage[r] = "running"
    /\ Victim(r)
    /\ Rollback(r)
    /\ stage' = [stage EXCEPT ![r] = "failed"]
    /\ guard' = Unguard(r)
    /\ UNCHANGED <<process, boots, basis, view, acked>>

\* The handler has returned: the answer leaves and the guard opens before the
\* dependency commits, which happens while the connection is still held.
Answer(r) ==
    /\ stage[r] = "running"
    /\ todo[r] = <<>>
    /\ r \in Read => Len(view[r]) = 2
    /\ stage' = [stage EXCEPT ![r] = "answered"]
    /\ guard' = Unguard(r)
    /\ UNCHANGED <<process, boots, todo, lock, basis, pending, view, acked, history, chain>>

Finish(r) ==
    /\ stage[r] = "answered"
    /\ IF r \in Write THEN Commit(r) ELSE UNCHANGED <<lock, pending, history, chain>>
    /\ stage' = [stage EXCEPT ![r] = "done"]
    /\ UNCHANGED <<process, boots, guard, todo, basis, view, acked>>

-----------------------------------------------------------------------------
(* Processes *)

SeedsCommitted == \E v \in Worker : Contains(history, v)

\* lifespan takes no mutation lock.  When routes are missing it inserts them (a
\* second process waits for the same keys), retires the plans it sees and
\* records that.
Start(w) ==
    /\ process[w] = "down"
    /\ boots[w] < MaxBoot
    /\ process' = [process EXCEPT ![w] = "starting"]
    /\ boots' = [boots EXCEPT ![w] = @ + 1]
    /\ todo' = [todo EXCEPT ![w] =
          IF RoutesMissing /\ ~SeedsCommitted
          THEN <<"seed", "read", "plans", "audit">> ELSE <<>>]
    /\ UNCHANGED <<guard, stage, lock, basis, pending, view, acked, history, chain>>

\* The keys another process committed in the meantime cannot be inserted again.
SeedConflict(w) ==
    /\ todo[w] # <<>>
    /\ Head(todo[w]) = "seed"
    /\ SeedsCommitted

Boot(w) ==
    /\ process[w] = "starting"
    /\ ~SeedConflict(w)
    /\ Work(w)
    /\ UNCHANGED <<process, boots, guard, stage, view, acked, history, chain>>

BootDone(w) ==
    /\ process[w] = "starting"
    /\ todo[w] = <<>>
    /\ IF pending[w] # <<>> THEN Commit(w) ELSE UNCHANGED <<lock, pending, history, chain>>
    /\ process' = [process EXCEPT ![w] = "up"]
    /\ UNCHANGED <<boots, guard, stage, todo, basis, view, acked>>

BootFails(w) ==
    /\ process[w] = "starting"
    /\ SeedConflict(w) \/ Victim(w)
    /\ Rollback(w)
    /\ process' = [process EXCEPT ![w] = "down"]
    /\ UNCHANGED <<boots, guard, stage, basis, view, acked>>

\* A process dies: its requests fail, the database rolls its transactions back.
Crash(w) ==
    LET dead == {w} \cup {r \in Request : On[r] = w /\ stage[r] \notin {"idle"} \cup Final}
    IN  /\ process[w] # "down"
        /\ boots[w] < MaxBoot
        /\ process' = [process EXCEPT ![w] = "down"]
        /\ guard' = [guard EXCEPT ![w] = NoTx]
        /\ stage' = [r \in Request |-> IF r \in dead THEN "failed" ELSE stage[r]]
        /\ lock' = [k \in Lock |-> IF lock[k] \in dead THEN NoTx ELSE lock[k]]
        /\ todo' = [t \in Tx |-> IF t \in dead THEN <<>> ELSE todo[t]]
        /\ pending' = [t \in Tx |-> IF t \in dead THEN <<>> ELSE pending[t]]
        /\ UNCHANGED <<boots, basis, view, acked, history, chain>>

-----------------------------------------------------------------------------

\* What a request does once it is accepted; refusals and crashes may happen.
Progress(r) ==
    \/ Enter(r) \/ Connect(r) \/ PoolTimeout(r) \/ LockMutation(r) \/ Run(r)
    \/ Handle(r) \/ Query(r) \/ Abort(r) \/ Answer(r) \/ Finish(r)

ProcessProgress(w) == Start(w) \/ Boot(w) \/ BootDone(w) \/ BootFails(w)

Next ==
    \/ \E r \in Request : Receive(r) \/ Progress(r) \/ Refuse(r) \/ RefuseCommitted(r)
    \/ \E w \in Worker : ProcessProgress(w) \/ Crash(w)

Spec == Init /\ [][Next]_vars

\* Threads, the pool's 30 s timeout, the event loop and the database go on; a
\* process that went down is started again.
FairSpec ==
    /\ Spec
    /\ \A r \in Request : WF_vars(Progress(r))
    /\ \A w \in Worker : WF_vars(ProcessProgress(w))

-----------------------------------------------------------------------------
(* Properties *)

VerifyChain(events) ==
    \A i \in 1..Len(events) :
        /\ events[i].sequence = i
        /\ events[i].previous = IF i = 1 THEN <<>> ELSE <<events[i - 1]>>

\* record: the committed chain verifies, and so does its extension by whatever any
\* running transaction has recorded - no crash, rollback or race leaves a gap or a
\* fork, and no commit is refused for a sequence number that was taken meanwhile.
ChainVerifies == \A t \in Tx : VerifyChain(chain \o pending[t])

\* get_db: a mutation commits on the very state it has read; nothing that another
\* process committed in between went unseen.
MutationsSerialized == [][IsPrefix(history, history')]_history

\* get_db: the statements of a query see one state, although another request may
\* commit between them.
ReadsOneState ==
    \A r \in Read : \A i, j \in 1..Len(view[r]) : view[r][i] = view[r][j]

\* get_db: a query that arrives after a mutation was answered sees its effect,
\* although the mutation commits only after its answer.
AnsweredIsVisible ==
    \A r \in Read : \A i \in 1..Len(view[r]), q \in acked[r] : Contains(view[r][i], q)

\* request_guard: no accepted request waits for ever on the guard, a thread, a
\* connection or a lock that is held by one that waits for it.
EveryRequestEnds ==
    \A r \in Request : stage[r] = "accepted" ~> stage[r] \in Final
=============================================================================
