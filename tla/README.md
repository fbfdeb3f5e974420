# LATTICE: TLA+ models, model checking and proofs

LATTICE plans a student's money: funding sources (her own and her family's)
are matched to obligations, a solver proposes a plan, and a payment is
prepared, approved by everyone whose money it takes, and executed in a sandbox.
Documents and life events bring in new rows; a rescue repairs a plan that does not
cover what is due.
This directory models the Python core (apps/api, lattice_core, lattice_ai,
optimizer) and what makes it correct.

## Inventory

| Component | State | Operations | Interacts with | Hard behaviour | What makes it correct |
|---|---|---|---|---|---|
| Payment flow (`routes_actions.py`, `policy/engine.py`) | `PreparedAction`: status, frozen debits, base and required approvers, approvals, state hash, `executed_at` | prepare, approve, execute; `blocked()` commits a refusal | state hash, plans, permissions, sources | refusal in the middle of a debit loop is committed; late approvals; competing actions | consent of all payers, paid once and in full, nothing moved by a refusal |
| Sources, obligations, permissions (`routes_data.py`, `permissions/service.py`) | rows with balances, reserves, statuses; obligations with beneficiary, hold, version; permissions with revocation | add, patch, verify_beneficiary, grant, revoke | every edit invalidates; APPROVE_ACTION changes approvers of actions | edits between prepare and execute | live actions stand as frozen |
| Planning and invalidation (`planning.py`, `routes_plans.py`, `state.py`) | `Plan` with status, version, hash, allocations | generate, activate, invalidate, simulate, rescue | called by almost every handler | hash is a value: an old state can come back | one active plan; stale stays stale |
| Optimizer (`solver.py`) | none | optimize, coverage_for, safe_to_spend, constraint_violations | planning | rounding, fees against capacity | allocations respect capacities and what is due |
| Rescue planner (`rescue/planner.py`) | candidates of a plan | variants, rescue, generate_rescue; a rescue action executes one | optimizer, plans, actions, obligations, sources | tried on a copy, executed later by other code | the execution covers what the trial covered; every change is consented; no debt vanishes |
| Request guard and database (`main.py`, `db.py`) | write guard, threads, pool, advisory lock | request_guard, get_db, lifespan | carries every handler | processes, commit after answer, starvation, deadlock, crash | mutations serialized, queries consistent, every request ends |
| Audit chain (`audit/service.py`) | `AuditEvent` sequence and hashes | record, verify_chain | every handler | races for the next number | no gap, no fork |
| Documents (`routes_documents.py`, `extraction/service.py`) | document with flags, a status per fact, holds | upload, extract, confirm, reject | creates obligations and sources, sets holds, invalidates | facts confirmed one by one while the ledger changes; flags raised in the middle of a text | no row without confirmed evidence; a hold is lifted only by the owner |
| Life events (`routes_life.py`, `lattice_core/life`) | `LifeEvent` with status, version, links | capture, review, confirm, apply, received, resolve, remind, dismiss | create financial rows, invalidate | retried application, versions, recurrence window | applied once; a hypothetical changes nothing |
| Identity (`auth.py`, `deps.py`) | accounts, sessions | login, logout, current_actor | every handler | one absolute limit of eight hours, compared per request | no use after expiry |
| Demo data (`demo.py`) | - | reset, load_maya | replaces all rows | no invalidation | seeds once |
| Budget, analysis, scenarios, graph | none | pure functions, a Monte Carlo sample | read the state | numeric edges | bounds of the result |
| Web client, migrations, benchmark, scripts | - | - | the API | proxy timeout | not modelled |

`PROJECT.json` lists the same parts with their status, and every hazard at its
line.

## Modules

| Module | Models |
|---|---|
| `PlanState` | the rows, permissions, canonical state, the planner's admissible results, invalidation |
| `ActionFlow` | one action per handler of the payment flow and of the edits around it; its properties |
| `ConsentedPayments` | the abstract promise: debts fall due, requests gather consent, a settlement needs both |
| `ActionFlowProofs` | theorems about ActionFlow |
| `PaymentMoneyProofs` | theorems about the money of ActionFlow: funding, execution, refusals |
| `SumTheorems` | what a sum over a finite set does, for the proofs about money |
| `RequestGuard` | how requests reach the database: guard, threads, pool, locks, commit after answer, startup, crashes |
| `RequestGuardProofs` | theorems about RequestGuard |
| `LifeEvents` | one action per handler of the life-event ledger, with the plans and payments it meets; its properties |
| `LifeEventsProofs` | theorems about LifeEvents |
| `Documents` | upload, extraction, confirmation and rejection, the owner's corrections, and the payments they meet; its properties |
| `DocumentsProofs` | theorems about Documents |
| `RescueFlow` | the planner's variants and its search, and the preparation, approval and execution of a candidate; its properties |
| `RescueFlowProofs` | theorems about RescueFlow |
| `MCActionFlow`, `MCRequestGuard`, `MCLifeEvents`, `MCDocuments`, `MCRescueFlow` | constants for TLC |

### ActionFlow and the code

A handler is one action: validation and early returns are guards, everything it
writes, the invalidation and the new plan included, is its effect. That is
justified by RequestGuard, which models how handlers interleave. An HTTP error
rolls its transaction back and is a step that does not happen; the exception is
`blocked()`, which commits the refusal and whatever the handler had written
before it, and has actions of its own (`ApproveBlocked`, `ExecuteBlocked`, the
second branch of `Execute`). In that branch the debited subset is any subset of
the sources that fit, since the loop's order is that of the frozen list.

* Rows are slots; "NONE" marks a row not yet created. A plan's number is its version.
* The state hash (SHA-256 of canonical JSON) is the value it digests.
* The solver is any allocation that meets its hard constraints (`Allocations`):
  it has a time limit and returns the best found, possibly the empty one.
  Currency, dates and goals are left out; a transfer costs the fixed `Fee`.
* A source AVAILABLE stands for AVAILABLE or PLANNED, EXPECTED for EXPECTED or
  CONDITIONAL, LOCKED for LOCKED or DISPUTED.
* The administrator acts as the student through `require_student`.

### RequestGuard and the code

A mutation passes the write guard of its process, enters `get_db` on a worker
thread, takes a connection (or fails after the pool's timeout), waits for the
advisory lock, and then runs its statements. The answer leaves, and the guard
opens, before the dependency commits: FastAPI runs the exit of a `yield`
dependency after the response, while the connection is still held.
The committed data is the history of transactions it reflects; a transaction
that has read `basis` commits `basis` extended by itself, so a change it has not
seen is visible as a lost element. The programs of the instances are the orders
in which activation, a data change and login use the database.

### LifeEvents and the code

A captured sentence is a proposal; the text patterns that make one are left out,
and a request carries any member of `Proposals`. Each handler is one action again:
`Capture`, `PurchaseCheck`, `Simulate` and `Confirm` review it, the five `Apply`
actions are the branches of `transform` inside the one handler `apply` (all start
from `Applicable`), and `Dismiss`, `Receive`, `Resolve`, `Reminder` and
`ChangeRecurrence` follow. `PatchFund`, `GeneratePlan`, `Prepare` and `Pay` stand
for the rest of the application, so that events meet what they can disturb.

* A request carries the version of the event it was made for, and an old one
  raises; so an action has no version argument, it only raises it.
* `add_financial` derives the identifier of a row from the event's identifier.
  An event therefore stands for the source it creates, `<<event, n>>` for its n-th
  commitment, and creating the row again means the key is taken.
* `linked` is the column `linked_funding_source_id`; `fund` is the link in the
  stored proposal. They differ after an application, which is the point of the run life_expectation.
* `hash` is the confirmed state itself, kept only while the event is confirmed, since
  nothing reads it otherwise. Pending events are in the state with
  their versions, as `financial_state` lists them.
* A live plan is the state it was generated from, a live action the state, the
  bill and one source of the student's own. Fees, shared debits and approvals are
  in ActionFlow.
* One type stands for those the code treats alike (FUNDING_EXPECTED for
  REFUND_EXPECTED, TRANSFER_PENDING and FAMILY_SUPPORT; NEW_OBLIGATION for the
  education, housing, health and emergency types; ACCOUNT_UNAVAILABLE for
  TRANSFER_FAILED). Dates and what only concerns them (FUNDING_DELAYED, the
  recurrence window, dates in the future), the TRAVEL_PLAN envelope, SAVINGS_GOAL,
  FX_CONCERN, currencies and the demo reset are left out.

### Documents and the code

An uploaded text is the list of its labelled lines with the verdict of the
validation on each (`supported`), and whether its wording raises flags
(`injected`); which texts those are is the business of patterns that are left out.
`Extract` is the handler extraction(): it reads the lines once (`ReadText`), or
returns the facts there are, and invalidates when the document carries flags.
Reading order matters, so it is kept: `FactOf` gives a fact the status the code has
in hand when it reaches its line, with the flags raised so far (`FlaggedUpTo`), and
a line that is not supported gives no fact but may set the hold.
confirm() is split by its outcome: `ConfirmPart` (facts are missing), `ConfirmNotice`
and `ConfirmInvoice`; the refusals change nothing.

* Amount, currency, date and beneficiary are opaque values; `Fractional` lists the
  amounts that have more decimals than their currency.
* The facts load_maya seeds are confirmed already and belong to complete documents; they are not modelled.
* `VerifyBeneficiary` and `PatchObligation` are the owner's corrections of
  routes_data.py; plans and payments are those of LifeEvents.
* The query for the amount fact of a notice has no order, so `ConfirmNotice` takes any of them.

### RescueFlow and the code

`Candidate(kind, state)` is one round of the loop of rescue(): the variant as it is
disclosed (`Split`, `Deadlines`, `Released`, `Advanced`), its `Trial` on a copy of
the state, the binary search for the contribution, and the actors who must agree.
`Execute` makes the same change on the ledger in the way routes_actions.py does it,
which is other code than `Trial` - the properties compare the two. `offers` are the
stored candidates of live plans; those of retired plans can never be prepared.

* One currency and one route without fees that settles on the same day. `Feasible`
  is then exact: for every due date, what is due by then fits into the capacity that has
  arrived by then, and a held commitment is not covered.
* The second part and the fee of an installment are rows derived from the commitment (`<<b, "part2">>`, `<<b, "fee">>`).
  Only the seed gives a commitment an option, on critical debt and with a first date inside the horizon.
* CRITICAL and OPTIONAL are the priorities the variants ask for; HIGH and NORMAL,
  which no candidate's feasibility depends on, are left out. The score only sorts.
* Approvals that arrive late, delegation and competing actions are in ActionFlow.

## Runs

| Run | Question | Bounds |
|---|---|---|
| payment_flow | type invariant, one active plan, live actions intact, consent, no revival of a stale hash | two sources of two owners, one obligation, two actions |
| payment_money | sources bear live actions, paid in full, a refusal moves nothing | one action, fee 1, a protected reserve, money certain, expected or locked |
| promise | no double payment; refinement of ConsentedPayments | two obligations, two actions on one source |
| guard_local | queries consistent and current, every request ends | one process, 2 threads, pool of 1, 2 mutations, 2 queries |
| guard_workers | mutations of processes are serialized | 2 processes, one crash and restart each |
| guard_deploy | audit chain, progress through deadlock and failed starts | one process serving, one starting |
| life_money | money counts once, no payment beside a pending event, plans know the money, flagged events never count, a dismissal reverses nothing | two events of seven kinds, one account with a reserve, one bill, two dates |
| life_settling | a commitment is settled by one expense, in full; plans know the owner's correction | three events (expense, borrowing, increase), own and family money, one correction |
| life_expectation | violation: changing a recurring expectation cuts its link | one event |
| documents | flagged evidence is inert, rows rest on confirmed evidence, one commitment per document, payments know holds, agreement at completion, nothing overwritten | two uploads of seven texts, one commitment and two slots for new ones, four lines |
| rescue | candidates know the state, least contribution, the execution covers what the trial covered, consent, holds survive a split, critical debt stays inside, no debt vanishes | three commitments, three sources, one received contribution, one action, a horizon of four days |
| rescue_principal | violation: an installment after a corrected amount loses principal | same, with a correction of the amount |

Why the bounds suffice: the conflicts are pairwise. Two actions on one
obligation or one source compete, two owners are the least that makes consent
of another necessary, and one free permission row after the seeded ones suffices
for a grant, its revocation and their effect on an action in between. For life events the conflicts
are pairwise too: two expectations on one source, two expenses on one commitment
(with the event that created it, three), an event and a payment, two reports on one
source. Versions up to 4 allow a capture, a review, a confirmation and an
application or its reopening, a dismissal and a reminder in between; 3 in the run
with three events. Two documents are the least that can name one commitment differently; the seven texts are one
of each kind the code tells apart (a copy of the commitment, the same without a target, injected
wording, another beneficiary, one that is not supported, a fraction, a notice).
A rescue is executed alone, since its execution retires every other action; with the
proportions of the seed each kind of repair is applicable, a deadline is moved to the edge of the horizon, and
version 3 lets a commitment be held, attested and split. Every bound
is a guard on creating one more row (`MaxPlan`, `MaxAction`, `MaxPerm`,
`MaxVersion`, `MaxAmount`, `MaxBoot`, `MaxLines`, `MaxActions`, the slots `Bill` and `Receipt`). A handler that needs a row beyond the bound
is not taken.

The guard runs switch the deadlock check off because each request is made once
and the system stops when all have ended.

AnsweredIsVisible and ReadsOneState hold because the pool has one connection
(`DB_POOL_SIZE` 1, the default): a query waits for the connection that the
answered mutation still holds. With a larger pool, as `render.yaml` sets, they do
not hold; no document claims that they do.

### Fairness

Only RequestGuard states liveness. Weak fairness of each request's next step:
the event loop resumes tasks, threads run, PostgreSQL answers, and its deadlock
detector and the pool's timeout act. Weak fairness of each process's startup: the
platform starts a process again. No fairness for arrivals, refusals or crashes.
Weak fairness suffices although locks are contended, because the number of
requests is finite. ActionFlow, LifeEvents, Documents and RescueFlow
need no fairness: nothing obliges a person to approve or to confirm.

## Proofs

For all constants that satisfy the named assumptions, `ActionFlowProofs` proves:

* `TypeCorrect` (TypeOK). Balances are naturals: a debit is taken only from
  sources it fits.
* `AtMostOneActivePlan`.
* `ExecutionIsConsented`, from the inductive `ApprovalInv`: required = base with
  the delegates in force for every live action, base contains the owners of the
  frozen sources and the student, and an approved or executed action has all
  required approvals. Consent alone is not inductive: it needs to know what was
  required at the time.
* `LiveActionsStayIntact`, from `PlanSound` (a plan takes only usable money) and
  `SeedSound` (seeded obligations come with seeded sources, so load_maya,
  which invalidates nothing, never meets a live action).
* `PromiseKept`: the initial state and every step map to ConsentedPayments.
* `NeverPaidTwice`, by refinement from `PaidOnceHolds`, which `ConsentedPayments`
  proves of the promise itself.
* `StaleForEver` (StaleStaysStale), from an order of states: without an invalidation a
  visible source only loses money (a refused execution), and a source or a seeded
  bill only appears (shared, or loaded with the demo data). What is live was built on an earlier or
  the present state (`RowsBefore`), and an order has no way back.

`PaymentMoneyProofs` adds the money of the payment flow:

* `FundedCorrect`: every plan is an allocation of its snapshot (`PlanAllocates`), and
  every live payment takes, from certain money, shares which with their fees make up
  its debits and without them the amount due (`Funded`).
* `SourcesAlwaysBear` (LiveSourcesBear) and `PaymentsAreWhole` (PaidInFull) follow:
  since the state of a live payment is the present one, what its plan allocated still fits.
* `PaymentsHavePlans`: a live plan stands beside every live payment, so whatever
  retires payments because the state changes makes a new plan, and is no refusal.
* `RefusalsMoveNothing` (BlockedMovesNothing), from the same invariant: a payment whose
  sources are known to bear it is never refused in the middle of its debits.

`SumTheorems` proves by well-founded induction on finite sets what the library's
folds are not equipped with: that `SumFunctionOnSet` exists and does not depend on the
order in which its elements are taken, changes by what one term changes, and splits
over parts. The proofs about money in the other modules cite it; it needs the sets of rows to
be finite, which the named assumptions say.

`DocumentsProofs` proves every property of Documents, from one inductive invariant:
the rows are typed (`TypeInv`); each document is in a state its own text explains
(`ReadInv`: a document not yet read has no facts, a fact that may be confirmed belongs to a supported line,
flags go with SECURITY_REVIEW, confirmed facts of one field agree); versions start at
one; and the six invariants of the run, which need each other - that a document
makes no second commitment rests on the first one keeping its document, that a row
rests on evidence rests on confirmed facts staying confirmed. The two action
properties follow from it.

`LifeEventsProofs` proves TypeOK, NoPaymentBesidePending, PlansKnowTheMoney,
FlaggedNeverCounts, SettledOnce and DismissalReversesNothing. The invariant adds
to them what each row of an event guarantees (`Sound`: flags once captured are kept, a
report weighs only when applied, links have the kind of the type that made them) and that the commitments of an event
exist only once it is applied (`Born`), without which a repeated application could
settle a commitment again. That a dismissal takes back nothing rests on the type
of the source it disputes: expected money only.

`MoneyIsAccounted` (MoneyAccounted) assumes that the owner corrects no balance
(`Corrections = {}`, as in the run life_money): a correction is money that no event
explains. Its invariant `Books` adds to the one above a `Ledger` (an expected source still
shows what its event posted, an event's source is there only once it was applied or received, an
applied expectation has one) and that a prepared payment was prepared for an open bill from
available money of the student's own (`Backed`). Without the former, a receipt could
bring in another sum than the one that counts as received.

`RescueFlowProofs` proves OffersKnowTheState, ChangesAreConsented,
HoldIsNotSplitAway and CriticalStaysInside. The invariant adds to the first that
what is offered and prepared was computed by the planner from the state it names
(`Computed`), and that a commitment stays open and has an option only while it has
no second part (`Rows`): without it a split could replace a critical part by a later
one. That a hold is not split away rests on the trial: the planner's copy keeps the
hold on the first part, which is critical and inside the horizon (an assumption on
the options), so the candidate is infeasible and is not prepared.

The rest of its theorems are about amounts, from the invariant `TInv`, which adds that sources
are typed, that rows which do not exist are blank and that approvals come from those who must agree:

* `RowsAreTyped` (TypeOK), which needs that a trial is a state and that the search returns a number.
* `TheLeastIsAsked` (ContributionIsLeast). `SearchFinds`: where feasibility grows with the amount,
  the binary search, a recursive function, exists and finds the least feasible number, by a
  smallest counterexample on the width of the interval. `MoreIsEnough`: feasibility does grow.
* `WhatIsExecutedCovers` (RepairCovers). The rows that execute leaves are those of the trial but for
  their version, and a hold that the new rows drop (`SameDebt`); the sources are those of the trial with
  the contribution in a blank row (`Brings`); so by every day the two sides of `Fits` differ by nothing but the
  contribution, which the trial counted.
* `OnlyFeesAreAdded`: an execution whose parts make up the commitments changes what is owed by its fees only.
  `NoDebtIsLost` (DebtIsKept) concludes the same of every execution where `OptionsAreWhole`: the parts of each option
  make up its commitment, and no amount is corrected under an option. The run rescue meets this; the run
  rescue_principal, which does not, shows that the code needs it (disagreement 2).

`RequestGuardProofs` proves every safety property of RequestGuard. ChainVerifies
needs no assumption: a transaction with uncommitted events holds the audit lock, so
nobody else appends to the chain it extends. MutationsSerialized assumes that nothing
has to be seeded (`~RoutesMissing`, disagreement 5 below): a mutation holds the mutation
lock from before its first read, which every program makes (`current_actor` and
`login` look up the account), until its commit, and what it has read is the history.
ReadsOneState and AnsweredIsVisible further assume one process with one connection,
the configuration they are claimed for: at most one request is connected, so nothing
commits between two statements of a query. AnsweredIsVisible assumes moreover that no
process dies (`MaxBoot = 0`), since an answered mutation is not committed yet.

Only model-checked: EveryRequestEnds, which is liveness and out of the prover's reach.
Every other property of a passing run is a theorem.

## Disagreements found

With a run that shows them:

1. Changing the amount of an applied recurring expectation resets its linked source
   (`routes_life.py:249`); it can then neither be received (the key is taken)
   nor cancelled properly (run life_expectation).
2. A correction of the amount leaves the installment option as it was, and the
   execution of the installment takes its parts from the option
   (`routes_actions.py:219`, `routes_data.py:119`): principal disappears, against
   `docs/architecture.md:69` (run rescue_principal). The demo's own tuition shows it: 3200
   corrected to 4000 becomes two parts of 1600.

Met while modelling, and modelled as the code has them:

3. A late approval of an executed action sets its status to BLOCKED
   (`routes_actions.py:154`), against "unique executed state refuses replay"
   (`docs/threat-model.md:20`). The replay is still refused, by `executed_at`: NoDoublePayment
   and KeepsPromise hold with such approvals.
4. Sharing a source does not invalidate (`routes_data.py:224`), against
   `docs/architecture.md:23`; a plan then stays live on the old state. No action
   can be prepared from it, and LiveActionIsIntact holds.
5. Startup is not under the mutation lock (`main.py:37`), against
   `docs/architecture.md:79`: MutationsSerialized holds only where nothing has to be
   seeded, which guard_workers says in its constants. The audit chain survives it (guard_deploy).
6. Dismissing a confirmed idea invalidates plans and actions (`routes_life.py:88`, against
   `docs/architecture.md:91`), a reminder raises the version of a pending event and
   so the state hash (`routes_life.py:177`, against `docs/api.md:125`), and a reduction by
   an amount is stored as a cap over earlier reports (`effects.py:216`), so resolving
   the earlier one does not remove its effect (against `docs/architecture.md:95`). All stay conservative.
7. A notice that states its amount twice can become two expected sources
   (`extraction/service.py:142`): the source is looked up by one of the two amount facts, in the
   order the database returns them. `ConfirmNotice` allows it; expected money pays nothing.
8. An invoice uploaded twice without a target makes two commitments; its checksum is stored and compared with nothing.
9. A weekly recurrence that starts in the past ends before the window does, because
   `recurrence_dates` stops after 54 dates from its start (`effects.py:32`, against
   `docs/architecture.md:93`). Dates of life events are not modelled.

## Plan

Next, in order:

1. An abstract ledger (each attested fact posted once, nothing hypothetical posted)
   that LifeEvents and Documents implement.
2. `Recurrence` and the arithmetic of quotes (rounded units of the solver against its validator,
   debits of a fixed destination), as functions against reference definitions.

Not modelled: simulation statistics, the text patterns of interpretation, decimals of
fees and rates, the budget screen, the web client, migrations, the benchmark; see `PROJECT.json`.
