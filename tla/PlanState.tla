----------------------------- MODULE PlanState -----------------------------
(***************************************************************************)
(* The shared state of LATTICE and the three services every handler calls: *)
(* the canonical financial state (lattice_core/state.py), the planner      *)
(* (apps/api/planning.py generate over optimizer/model/solver.py) and the  *)
(* invalidation of plans and prepared actions (apps/api/planning.py).      *)
(*                                                                         *)
(* One student is modelled with her related actors (parents, sponsors):    *)
(* the administrator acts as that same student through require_student and *)
(* is never a required approver of a payment.  One currency and one day:   *)
(* quotes, dates and fees are abstracted to one fixed Fee per transfer.    *)
(* Rows are never deleted except by a reset, so a row that does not exist  *)
(* yet is a slot whose status (or kind) is "NONE", and a plan's number is  *)
(* its version.                                                            *)
(***************************************************************************)
EXTENDS Integers, FiniteSetsExt

CONSTANTS
    Student,        \* the student whose data this is
    Family,         \* parents and sponsors linked to the student
    Fund,           \* funding source slots
    Obligation,     \* obligation slots
    Owner,          \* Owner[f]: the actor that owns funding source f
    Beneficiary,    \* payment accounts
    MaxAmount,      \* bound: amounts are 0..MaxAmount
    MaxPlan,        \* bound: number of plan rows
    MaxAction,      \* bound: number of prepared action rows
    MaxPerm,        \* bound: number of permission rows
    Fee             \* fixed fee of one transfer, in source units

Actor == Family \cup {Student}
Plan == 1..MaxPlan
Action == 1..MaxAction
Perm == 1..MaxPerm

ASSUME ActorAssumption == Student \notin Family
ASSUME OwnerAssumption == Owner \in [Fund -> Actor]
ASSUME BoundAssumption == /\ MaxAmount \in Nat
                          /\ MaxPlan \in Nat
                          /\ MaxAction \in Nat
                          /\ MaxPerm \in Nat
                          /\ Fee \in Nat
ASSUME NonEmptyAssumption == Beneficiary # {} /\ Obligation # {}
ASSUME FiniteAssumption == IsFiniteSet(Fund) /\ IsFiniteSet(Obligation)

VARIABLES
    fund,           \* funding source rows
    obligation,     \* obligation rows
    perm,           \* permission rows
    plan,           \* plan rows
    action          \* prepared action rows

vars == <<fund, obligation, perm, plan, action>>

(***************************************************************************)
(* Rows.  A source AVAILABLE stands for AVAILABLE or PLANNED (certain      *)
(* money), EXPECTED for EXPECTED or CONDITIONAL, LOCKED for LOCKED or      *)
(* DISPUTED.  beneficiary_verified is TRUE in every obligation a payment   *)
(* can name, so only security_hold is kept.                                *)
(***************************************************************************)
FundStatus == {"NONE", "AVAILABLE", "EXPECTED", "LOCKED"}
FundRow == [amount : Nat, reserve : Nat, status : FundStatus]

NoFund == [amount |-> 0, reserve |-> 0, status |-> "NONE"]

ObligationStatus == {"NONE", "OPEN", "SANDBOX_PAID"}
ObligationRow == [amount : Nat, beneficiary : Beneficiary, hold : BOOLEAN,
                  version : Nat, status : ObligationStatus]
NoObligation == [amount |-> 0, beneficiary |-> CHOOSE b \in Beneficiary : TRUE,
                 hold |-> FALSE, version |-> 0, status |-> "NONE"]

PermissionType == {"VIEW_OWN_CONTRIBUTION", "APPROVE_OWN_FUNDS",
                   "VIEW_SHARED_OBLIGATION", "APPROVE_PLAN", "APPROVE_ACTION"}
Resource == Fund \cup Obligation \cup Plan \cup Action
PermRow == [kind : PermissionType, resource : Resource, target : Actor,
            revoked : BOOLEAN]
NoPerm == [kind |-> "NONE"]

(***************************************************************************)
(* Permissions: an unrevoked row is in force.  VIEW_OWN_CONTRIBUTION also  *)
(* stands for VIEW_PRIVATE_FINANCES, which lets the student see a source   *)
(* in the same way.                                                        *)
(***************************************************************************)
InForce(i, kind, resource, target) ==
    /\ perm[i].kind = kind
    /\ ~perm[i].revoked
    /\ perm[i].resource = resource
    /\ perm[i].target = target

HasPermission(target, kind, resource) ==
    \E i \in Perm : InForce(i, kind, resource, target)

Visible(f) ==
    /\ fund[f].status # "NONE"
    /\ \/ Owner[f] = Student
       \/ HasPermission(Student, "VIEW_OWN_CONTRIBUTION", f)

Authorized(f) ==
    \/ Owner[f] = Student
    \/ HasPermission(Student, "APPROVE_OWN_FUNDS", f)

(***************************************************************************)
(* financial_state: what the student may see.  A source she may not see is *)
(* left out of the state, here the constant HiddenSource.  state_hash is a *)
(* SHA-256 digest of this value; it is modelled as the value itself, that  *)
(* is, as collision free.                                                  *)
(***************************************************************************)
SourceView == [amount : Nat, reserve : Nat,
               status : FundStatus \cup {"HIDDEN"}, authorized : BOOLEAN]
HiddenSource == [amount |-> 0, reserve |-> 0, status |-> "HIDDEN",
                 authorized |-> FALSE]

FinancialState ==
    [funding |-> [f \in Fund |->
        IF Visible(f)
        THEN [amount |-> fund[f].amount, reserve |-> fund[f].reserve,
              status |-> fund[f].status, authorized |-> Authorized(f)]
        ELSE HiddenSource],
     obligations |-> obligation]

State == [funding : [Fund -> SourceView],
          obligations : [Obligation -> ObligationRow]]
EmptyState == [funding |-> [f \in Fund |-> HiddenSource],
               obligations |-> [o \in Obligation |-> NoObligation]]

(***************************************************************************)
(* The planner.  An allocation x says how much of obligation o is covered  *)
(* from source f; optimize may return any x that meets the hard            *)
(* constraints of the model and of constraint_violations, because it stops *)
(* at the time limit with the best x found so far (none at all at worst).  *)
(***************************************************************************)
Allocation == [Obligation -> [Fund -> Nat]]
NoAllocation == [o \in Obligation |-> [f \in Fund |-> 0]]

Debit(d) == IF d = 0 THEN 0 ELSE d + Fee

Usable(view) ==
    /\ view.status \in {"AVAILABLE", "EXPECTED"}
    /\ view.authorized

Payable(row) == row.status = "OPEN" /\ ~row.hold

\* Mutant: the capacity of a source is compared without the transfer fees.
AllocationsIgnoringFees(s) ==
    {x \in [Obligation -> [Fund -> 0..MaxAmount]] :
        /\ \A o \in Obligation, f \in Fund :
              x[o][f] > 0 => Payable(s.obligations[o]) /\ Usable(s.funding[f])
        /\ \A o \in Obligation :
              SumFunctionOnSet(x[o], Fund) <= s.obligations[o].amount
        /\ \A f \in Fund :
              SumFunctionOnSet([o \in Obligation |-> x[o][f]], Obligation)
                <= s.funding[f].amount - s.funding[f].reserve}

Allocations(s) ==
    {x \in [Obligation -> [Fund -> 0..MaxAmount]] :
        /\ \A o \in Obligation, f \in Fund :
              x[o][f] > 0 => Payable(s.obligations[o]) /\ Usable(s.funding[f])
        /\ \A o \in Obligation :
              SumFunctionOnSet(x[o], Fund) <= s.obligations[o].amount
        /\ \A f \in Fund :
              SumFunctionOnSet([o \in Obligation |-> Debit(x[o][f])], Obligation)
                <= s.funding[f].amount - s.funding[f].reserve}

\* coverage_for: nominal counts every source, verified only certain money.
Covered(s, x, o, statuses) ==
    SumFunctionOnSet(x[o], {f \in Fund : s.funding[f].status \in statuses})
        = s.obligations[o].amount

Feasible(s, x) ==
    \A o \in Obligation : s.obligations[o].status = "OPEN" =>
        Covered(s, x, o, {"AVAILABLE", "EXPECTED"})

(***************************************************************************)
(* Plans.                                                                  *)
(***************************************************************************)
PlanStatus == {"NONE", "DRAFT", "FAILED", "ACTIVE", "SUPERSEDED", "STALE"}
LivePlan == {"ACTIVE", "DRAFT", "FAILED"}
PlanRow == [status : PlanStatus, hash : State, alloc : Allocation]
NoPlan == [status |-> "NONE", hash |-> EmptyState, alloc |-> NoAllocation]

\* The next version is max(version) + 1: the first free row.
NextVersion(plans, p) ==
    /\ plans[p].status = "NONE"
    /\ \A q \in Plan : q < p => plans[q].status # "NONE"

\* generate: plan the state the handler has just written.
Generate(plans) ==
    \E p \in Plan, s \in {FinancialState'} :
        /\ NextVersion(plans, p)
        /\ \E x \in Allocations(s) :
              plan' = [plans EXCEPT ![p] =
                [status |-> IF Feasible(s, x) THEN "DRAFT" ELSE "FAILED",
                 hash |-> s, alloc |-> x]]

\* require_fresh: the plan is not retired and its snapshot is the current state.
Fresh(p) ==
    /\ plan[p].status \notin {"NONE", "STALE", "SUPERSEDED"}
    /\ plan[p].hash = FinancialState

(***************************************************************************)
(* Prepared actions.  executed stands for executed_at, base for            *)
(* base_required_approvals, alloc for the debits frozen at preparation.    *)
(***************************************************************************)
ActionStatus == {"NONE", "PREPARED", "APPROVED", "EXECUTED", "BLOCKED"}
LiveAction == {"PREPARED", "APPROVED"}
ActionRow == [status : ActionStatus, obligation : Obligation,
              beneficiary : Beneficiary, version : Nat,
              alloc : [Fund -> Nat], base : SUBSET Actor,
              required : SUBSET Actor, approvals : SUBSET Actor,
              hash : State, executed : BOOLEAN]
NoAction == [status |-> "NONE", obligation |-> CHOOSE o \in Obligation : TRUE,
             beneficiary |-> CHOOSE b \in Beneficiary : TRUE, version |-> 0,
             alloc |-> [f \in Fund |-> 0], base |-> {}, required |-> {},
             approvals |-> {}, hash |-> EmptyState, executed |-> FALSE]

\* Mutant: actions are given the status that retires plans.
BlockLiveAsStale(actions) ==
    [a \in Action |->
        IF actions[a].status \in LiveAction
        THEN [actions[a] EXCEPT !.status = "STALE"]
        ELSE actions[a]]

BlockLive(actions) ==
    [a \in Action |->
        IF actions[a].status \in LiveAction
        THEN [actions[a] EXCEPT !.status = "BLOCKED"]
        ELSE actions[a]]

RetireLive(plans) ==
    [p \in Plan |->
        IF plans[p].status \in LivePlan
        THEN [plans[p] EXCEPT !.status = "STALE"]
        ELSE plans[p]]

\* invalidate(replan=True): retire live plans, block live actions, and plan
\* again when something was retired.
Invalidate ==
    /\ action' = BlockLive(action)
    /\ IF \E p \in Plan : plan[p].status \in LivePlan
       THEN Generate(RetireLive(plan))
       ELSE plan' = plan

TypeOK ==
    /\ fund \in [Fund -> FundRow]
    /\ obligation \in [Obligation -> ObligationRow]
    /\ perm \in [Perm -> PermRow \cup {NoPerm}]
    /\ plan \in [Plan -> PlanRow]
    /\ action \in [Action -> ActionRow]
=============================================================================
