----------------------------- MODULE ActionFlow -----------------------------
(***************************************************************************)
(* The approval-controlled payment flow: funding, obligation and           *)
(* permission edits (apps/api/routes_data.py), planning and activation     *)
(* (routes_plans.py), the security hold of document extraction             *)
(* (routes_documents.py), and the prepare / approve / sandbox-execute      *)
(* handlers of a payment (routes_actions.py).                              *)
(*                                                                         *)
(* A handler is one action: the ASGI write guard, the advisory transaction *)
(* lock and the one-connection pool serialize mutations, and a request     *)
(* that raises rolls its transaction back (module RequestGuard).  Refused  *)
(* requests that only write an audit event change nothing here.            *)
(***************************************************************************)
EXTENDS PlanState, Sequences

CONSTANTS
    Amounts,        \* the amounts a request may carry
    PatchStatuses,  \* the availability statuses a funding patch may carry
    MaxVersion,     \* bound: obligation versions are 1..MaxVersion
    SeedFund,       \* load_maya: rows of the seeded funding sources
    SeedObligation, \* load_maya: rows of the seeded obligations
    SeedPerm        \* load_maya: the seeded permission rows, in order

ASSUME AmountAssumption == Amounts \subseteq 0..MaxAmount
ASSUME StatusAssumption == PatchStatuses \subseteq FundStatus \ {"NONE"}
ASSUME VersionAssumption == MaxVersion \in Nat
ASSUME SeedAssumption ==
    /\ DOMAIN SeedFund \subseteq Fund
    /\ DOMAIN SeedFund # {}
    /\ \A f \in DOMAIN SeedFund :
          /\ SeedFund[f] \in FundRow
          /\ SeedFund[f].status # "NONE"
          /\ SeedFund[f].reserve <= SeedFund[f].amount
    /\ DOMAIN SeedObligation \subseteq Obligation
    /\ \A o \in DOMAIN SeedObligation :
          /\ SeedObligation[o] \in ObligationRow
          /\ SeedObligation[o].status = "OPEN"
    /\ SeedPerm \in Seq(PermRow)
    /\ \A k \in 1..Len(SeedPerm) : SeedPerm[k].kind \in
          {"VIEW_OWN_CONTRIBUTION", "APPROVE_OWN_FUNDS", "VIEW_SHARED_OBLIGATION"}

-----------------------------------------------------------------------------
(* Demo data *)

Init ==
    /\ fund = [f \in Fund |-> NoFund]
    /\ obligation = [o \in Obligation |-> NoObligation]
    /\ perm = [i \in Perm |-> NoPerm]
    /\ plan = [p \in Plan |-> NoPlan]
    /\ action = [a \in Action |-> NoAction]

\* admin reset: every row of the student goes, audit and logins stay.
Reset ==
    /\ fund' = [f \in Fund |-> NoFund]
    /\ obligation' = [o \in Obligation |-> NoObligation]
    /\ perm' = [i \in Perm |-> NoPerm]
    /\ plan' = [p \in Plan |-> NoPlan]
    /\ action' = [a \in Action |-> NoAction]

\* load_maya: seeds once, and invalidates nothing.  The seeded identifiers are
\* its own: an API request never takes one of them.
LoadMaya ==
    /\ \A f \in Fund : fund[f].status = "NONE"
    /\ \E used \in 0..MaxPerm :
          /\ \A i \in Perm : (perm[i].kind = "NONE") <=> (i > used)
          /\ used + Len(SeedPerm) <= MaxPerm
          /\ perm' = [i \in Perm |->
                IF i \in used + 1..used + Len(SeedPerm)
                THEN SeedPerm[i - used] ELSE perm[i]]
    /\ fund' = [f \in Fund |->
          IF f \in DOMAIN SeedFund THEN SeedFund[f] ELSE fund[f]]
    /\ obligation' = [o \in Obligation |->
          IF o \in DOMAIN SeedObligation THEN SeedObligation[o] ELSE obligation[o]]
    /\ UNCHANGED <<plan, action>>

-----------------------------------------------------------------------------
(* Funding sources and obligations *)

AddFund(f, amount, reserve, status) ==
    /\ fund[f].status = "NONE"
    /\ f \notin DOMAIN SeedFund
    /\ reserve <= amount
    /\ fund' = [fund EXCEPT ![f] =
          [amount |-> amount, reserve |-> reserve, status |-> status]]
    /\ UNCHANGED <<obligation, perm>>
    /\ Invalidate

\* The owner (or the administrator) corrects a balance or an availability; the
\* protected reserve can never be set above the balance.
PatchFund(f, amount, status) ==
    /\ fund[f].status # "NONE"
    /\ amount >= fund[f].reserve
    /\ fund' = [fund EXCEPT ![f] = [@ EXCEPT !.amount = amount, !.status = status]]
    /\ UNCHANGED <<obligation, perm>>
    /\ Invalidate

AddObligation(o, amount, b) ==
    /\ obligation[o].status = "NONE"
    /\ o \notin DOMAIN SeedObligation
    /\ amount > 0
    /\ obligation' = [obligation EXCEPT ![o] =
          [amount |-> amount, beneficiary |-> b, hold |-> FALSE,
           version |-> 1, status |-> "OPEN"]]
    /\ UNCHANGED <<fund, perm>>
    /\ Invalidate

\* No status check: a paid obligation can be patched as well.
PatchObligation(o, amount) ==
    /\ obligation[o].status # "NONE"
    /\ obligation[o].version < MaxVersion
    /\ amount > 0
    /\ obligation' = [obligation EXCEPT ![o] =
          [@ EXCEPT !.amount = amount, !.version = obligation[o].version + 1]]
    /\ UNCHANGED <<fund, perm>>
    /\ Invalidate

\* Mutant: the new beneficiary is stored and nothing is invalidated.
VerifyBeneficiaryQuietly(o, b) ==
    /\ obligation[o].status # "NONE"
    /\ obligation[o].version < MaxVersion
    /\ obligation' = [obligation EXCEPT ![o] =
          [@ EXCEPT !.beneficiary = b, !.hold = FALSE,
                    !.version = obligation[o].version + 1]]
    /\ UNCHANGED <<fund, perm, plan, action>>

VerifyBeneficiary(o, b) ==
    /\ obligation[o].status # "NONE"
    /\ obligation[o].version < MaxVersion
    /\ obligation' = [obligation EXCEPT ![o] =
          [@ EXCEPT !.beneficiary = b, !.hold = FALSE,
                    !.version = obligation[o].version + 1]]
    /\ UNCHANGED <<fund, perm>>
    /\ Invalidate

\* Extraction of a flagged document: a first extraction whose beneficiary
\* differs from the verified one sets the hold; a repeated one only invalidates.
ExtractFlagged(o, sets) ==
    /\ obligation[o].status # "NONE"
    /\ obligation' = [obligation EXCEPT ![o].hold = @ \/ sets]
    /\ UNCHANGED <<fund, perm>>
    /\ Invalidate

-----------------------------------------------------------------------------
(* Permissions *)

\* Who may receive access from whom: the student and one of her family.
Related(owner, target) ==
    \/ owner = Student /\ target \in Family
    \/ owner \in Family /\ target = Student

AddRow(kind, resource, target) ==
    \E i \in Perm :
        /\ perm[i].kind = "NONE"
        /\ \A j \in Perm : j < i => perm[j].kind # "NONE"
        /\ perm' = [perm EXCEPT ![i] = [kind |-> kind, resource |-> resource,
                                        target |-> target, revoked |-> FALSE]]

\* refresh_action_approvers: the delegates in force are added to the base
\* approvals, and every approval given so far is dropped.
Delegates(a, perms) ==
    {perms[i].target : i \in {j \in Perm :
        /\ perms[j].kind = "APPROVE_ACTION"
        /\ perms[j].resource = a
        /\ ~perms[j].revoked}}

\* Mutant: the delegates replace the base approvals.
RefreshToDelegatesOnly(a) ==
    /\ action[a].status \in LiveAction
    /\ action' = [action EXCEPT ![a] =
          [@ EXCEPT !.required = Delegates(a, perm'), !.approvals = {},
                    !.status = "PREPARED"]]
    /\ UNCHANGED plan

RefreshActionApprovers(a) ==
    /\ action[a].status \in LiveAction
    /\ action' = [action EXCEPT ![a] =
          [@ EXCEPT !.required = action[a].base \cup Delegates(a, perm'),
                    !.approvals = {}, !.status = "PREPARED"]]
    /\ UNCHANGED plan

\* Only APPROVE_OWN_FUNDS invalidates: sharing a source (or an obligation) does not.
GrantFunding(f, x, kind) ==
    /\ fund[f].status # "NONE"
    /\ Related(Owner[f], x)
    /\ AddRow(kind, f, x)
    /\ UNCHANGED <<fund, obligation>>
    /\ IF kind = "APPROVE_OWN_FUNDS" THEN Invalidate ELSE UNCHANGED <<plan, action>>

GrantObligation(o, x) ==
    /\ obligation[o].status # "NONE"
    /\ AddRow("VIEW_SHARED_OBLIGATION", o, x)
    /\ UNCHANGED <<fund, obligation, plan, action>>

GrantPlan(p, x) ==
    /\ plan[p].status # "NONE"
    /\ AddRow("APPROVE_PLAN", p, x)
    /\ UNCHANGED <<fund, obligation, plan, action>>

GrantAction(a, x) ==
    /\ AddRow("APPROVE_ACTION", a, x)
    /\ UNCHANGED <<fund, obligation>>
    /\ RefreshActionApprovers(a)

\* Mutant: as for a grant, only APPROVE_OWN_FUNDS invalidates.
RevokeLikeGrant(i) ==
    /\ perm[i].kind # "NONE"
    /\ perm' = [perm EXCEPT ![i].revoked = TRUE]
    /\ UNCHANGED <<fund, obligation>>
    /\ CASE perm[i].kind = "APPROVE_ACTION" -> RefreshActionApprovers(perm[i].resource)
         [] perm[i].kind = "APPROVE_OWN_FUNDS" -> Invalidate
         [] OTHER -> UNCHANGED <<plan, action>>

\* A row may be revoked again; a row on an action that is no longer live cannot
\* be revoked at all (the refresh raises 409 and the revocation rolls back).
Revoke(i) ==
    /\ perm[i].kind # "NONE"
    /\ perm' = [perm EXCEPT ![i].revoked = TRUE]
    /\ UNCHANGED <<fund, obligation>>
    /\ IF perm[i].kind = "APPROVE_ACTION"
       THEN RefreshActionApprovers(perm[i].resource)
       ELSE Invalidate

-----------------------------------------------------------------------------
(* Plans *)

GeneratePlan ==
    /\ UNCHANGED <<fund, obligation, perm, action>>
    /\ Generate(plan)

MayActivate(x, p) ==
    x = Student \/ HasPermission(x, "APPROVE_PLAN", p)

\* Mutant: the plan that was active until now is left active.
ActivateBesideOthers(x, p) ==
    /\ MayActivate(x, p)
    /\ Fresh(p)
    /\ plan' = [plan EXCEPT ![p].status = "ACTIVE"]
    /\ UNCHANGED <<fund, obligation, perm, action>>

ActivatePlan(x, p) ==
    /\ MayActivate(x, p)
    /\ Fresh(p)
    /\ plan' = [q \in Plan |->
          IF q = p THEN [plan[q] EXCEPT !.status = "ACTIVE"]
          ELSE IF plan[q].status = "ACTIVE"
          THEN [plan[q] EXCEPT !.status = "SUPERSEDED"]
          ELSE plan[q]]
    /\ UNCHANGED <<fund, obligation, perm, action>>

-----------------------------------------------------------------------------
(* Prepared actions *)

\* Mutant: nominal coverage, which counts expected money, is enough.
PaymentAllowedNominally(p, o) ==
    /\ Payable(obligation[o])
    /\ plan[p].hash.obligations[o].status = "OPEN"
    /\ Covered(plan[p].hash, plan[p].alloc, o, {"AVAILABLE", "EXPECTED"})

\* Mutant: any share of the amount due may be paid.
PaymentAllowedInPart(p, o) ==
    /\ Payable(obligation[o])
    /\ plan[p].hash.obligations[o].status = "OPEN"

\* payment_block_reason: the reasons the modelled state can express.
PaymentAllowed(p, o) ==
    /\ Payable(obligation[o])
    /\ plan[p].hash.obligations[o].status = "OPEN"
    /\ Covered(plan[p].hash, plan[p].alloc, o, {"AVAILABLE"})

SourceOwners(alloc) == {Owner[f] : f \in {g \in Fund : alloc[g] > 0}}

\* Mutant: only the student is asked, not the owners of the sources.
PrepareForStudent(a, p, o) ==
    /\ action[a].status = "NONE"
    /\ \A b \in Action : b < a => action[b].status # "NONE"
    /\ Fresh(p)
    /\ PaymentAllowed(p, o)
    /\ action' = [action EXCEPT ![a] =
          [status |-> "PREPARED", obligation |-> o,
           beneficiary |-> obligation[o].beneficiary,
           version |-> obligation[o].version,
           alloc |-> [f \in Fund |-> Debit(plan[p].alloc[o][f])],
           base |-> {Student}, required |-> {Student}, approvals |-> {},
           hash |-> FinancialState, executed |-> FALSE]]
    /\ UNCHANGED <<fund, obligation, perm, plan>>

Prepare(a, p, o) ==
    LET alloc == plan[p].alloc[o]
        required == SourceOwners(alloc) \cup {Student}
    IN  /\ action[a].status = "NONE"
        /\ \A b \in Action : b < a => action[b].status # "NONE"
        /\ Fresh(p)
        /\ PaymentAllowed(p, o)
        /\ action' = [action EXCEPT ![a] =
              [status |-> "PREPARED", obligation |-> o,
               beneficiary |-> obligation[o].beneficiary,
               version |-> obligation[o].version,
               alloc |-> [f \in Fund |-> Debit(alloc[f])],
               base |-> required, required |-> required, approvals |-> {},
               hash |-> FinancialState, executed |-> FALSE]]
        /\ UNCHANGED <<fund, obligation, perm, plan>>

\* Only a required approver gets past the 404 and 403 answers.
Approve(a, x) ==
    /\ x \in action[a].required
    /\ action[a].status \in LiveAction
    /\ action[a].hash = FinancialState
    /\ LET approvals == action[a].approvals \cup {x}
       IN  action' = [action EXCEPT ![a] =
              [@ EXCEPT !.approvals = approvals,
                        !.status = IF action[a].required \subseteq approvals
                                   THEN "APPROVED" ELSE action[a].status]]
    /\ UNCHANGED <<fund, obligation, perm, plan>>

\* blocked(..., action): the refusal is committed with the action BLOCKED,
\* whatever its status was before.
ApproveBlocked(a, x) ==
    /\ action[a].status # "NONE"
    /\ x \in action[a].required
    /\ \/ action[a].status \notin LiveAction
       \/ action[a].hash # FinancialState
    /\ action' = [action EXCEPT ![a].status = "BLOCKED"]
    /\ UNCHANGED <<fund, obligation, perm, plan>>

\* Mutant: the sandbox executes an action that is merely prepared.
MayExecutePrepared(a) ==
    /\ ~action[a].executed
    /\ action[a].status \in LiveAction

MayExecute(a) ==
    /\ ~action[a].executed
    /\ action[a].status = "APPROVED"
    /\ action[a].required \subseteq action[a].approvals

DebitSources(need, sources) ==
    fund' = [f \in Fund |->
        IF f \in sources THEN [fund[f] EXCEPT !.amount = @ - need[f]] ELSE fund[f]]

ExecuteBlocked(a) ==
    /\ MayExecute(a)
    /\ action[a].hash # FinancialState
    /\ action' = [action EXCEPT ![a].status = "BLOCKED"]
    /\ UNCHANGED <<fund, obligation, perm, plan>>

\* The sources are debited one by one; the first that would break its reserve
\* ends the request, and blocked() commits the debits already made.
Execute(a) ==
    LET o == action[a].obligation
        need == action[a].alloc
        changed == \/ obligation[o].hold
                   \/ obligation[o].beneficiary # action[a].beneficiary
                   \/ obligation[o].version # action[a].version
        fits == {f \in Fund :
                    need[f] > 0 => fund[f].amount - need[f] >= fund[f].reserve}
    IN  /\ MayExecute(a)
        /\ action[a].hash = FinancialState
        /\ UNCHANGED perm
        /\ IF ~changed /\ fits = Fund
           THEN /\ DebitSources(need, Fund)
                /\ obligation' = [obligation EXCEPT ![o].status = "SANDBOX_PAID"]
                /\ action' = BlockLive([action EXCEPT ![a] =
                    [@ EXCEPT !.status = "EXECUTED", !.executed = TRUE]])
                /\ Generate(RetireLive(plan))
           ELSE /\ \E done \in SUBSET fits :
                      DebitSources(need, IF changed THEN {} ELSE done)
                /\ action' = [action EXCEPT ![a].status = "BLOCKED"]
                /\ UNCHANGED <<obligation, plan>>

-----------------------------------------------------------------------------
(* Next.  A patch may carry any subset of its fields: one it leaves out keeps *)
(* its current value.                                                         *)

FundNext ==
    \E f \in Fund :
        \/ \E amount, reserve \in Amounts, status \in PatchStatuses :
              AddFund(f, amount, reserve, status)
        \/ \E amount \in Amounts \cup {fund[f].amount},
              status \in PatchStatuses \cup {fund[f].status} :
              PatchFund(f, amount, status)

ObligationNext ==
    \E o \in Obligation :
        \/ \E amount \in Amounts, b \in Beneficiary : AddObligation(o, amount, b)
        \/ \E amount \in Amounts \cup {obligation[o].amount} : PatchObligation(o, amount)
        \/ \E b \in Beneficiary : VerifyBeneficiary(o, b)
        \/ \E sets \in BOOLEAN : ExtractFlagged(o, sets)

PermissionNext ==
    \/ \E x \in Actor :
          \/ \E f \in Fund :
                \E kind \in {"VIEW_OWN_CONTRIBUTION", "APPROVE_OWN_FUNDS"} :
                    GrantFunding(f, x, kind)
          \/ x \in Family /\ \E o \in Obligation : GrantObligation(o, x)
          \/ x \in Family /\ \E p \in Plan : GrantPlan(p, x)
          \/ x \in Family /\ \E a \in Action : GrantAction(a, x)
    \/ \E i \in Perm : Revoke(i)

PlanNext ==
    \/ GeneratePlan
    \/ \E x \in Actor, p \in Plan : ActivatePlan(x, p)

ActionNext ==
    \E a \in Action :
        \/ \E p \in Plan, o \in Obligation : Prepare(a, p, o)
        \/ \E x \in Actor : Approve(a, x) \/ ApproveBlocked(a, x)
        \/ Execute(a)
        \/ ExecuteBlocked(a)

Next ==
    \/ Reset \/ LoadMaya
    \/ FundNext \/ ObligationNext \/ PermissionNext \/ PlanNext \/ ActionNext

Spec == Init /\ [][Next]_vars

-----------------------------------------------------------------------------
(* Properties *)

\* activate: the student has at most one working plan at any time, whatever
\* plans were generated, activated and retired before.
SingleActivePlan ==
    \A p, q \in Plan :
        plan[p].status = "ACTIVE" /\ plan[q].status = "ACTIVE" => p = q

\* invalidate: an action still awaiting approval or execution stands exactly as
\* it was frozen - its obligation is open, free of holds and unchanged, and the
\* owner of every source it takes from still lets the student plan with it.
\* Invalidation alone guarantees this, before any hash is compared.
LiveActionIsIntact ==
    \A a \in Action : action[a].status \in LiveAction =>
        LET o == action[a].obligation
        IN  /\ Payable(obligation[o])
            /\ obligation[o].version = action[a].version
            /\ obligation[o].beneficiary = action[a].beneficiary
            /\ \A f \in Fund : action[a].alloc[f] > 0 => Authorized(f)

\* prepare: every source such an action takes from is certain money, never an
\* expected receipt, and bears the frozen debit, fees included, above its
\* protected reserve - so the debit loop of the execution cannot stop half way.
LiveSourcesBear ==
    \A a \in Action, f \in Fund :
        action[a].status \in LiveAction /\ action[a].alloc[f] > 0 =>
            /\ fund[f].status = "AVAILABLE"
            /\ fund[f].amount - action[a].alloc[f] >= fund[f].reserve

\* execute: whatever delegations were granted and revoked on the way, an
\* executed payment has the approval of the student, of the owner of every
\* source it debited and of every delegate still in force.
ExecutedWithConsent ==
    \A a \in Action : action[a].executed =>
        SourceOwners(action[a].alloc) \cup {Student} \cup Delegates(a, perm)
            \subseteq action[a].approvals

\* execute: an execution debits exactly the frozen shares, and the shares
\* without their fees add up to the amount due at that moment.
NetOf(d) == IF d = 0 THEN 0 ELSE d - Fee

PaidInFull ==
    [][\A a \in Action : ~action[a].executed /\ action'[a].executed =>
          LET o == action[a].obligation
          IN  /\ obligation[o].status = "OPEN"
              /\ obligation'[o].status = "SANDBOX_PAID"
              /\ SumFunctionOnSet([f \in Fund |-> NetOf(action[a].alloc[f])], Fund)
                    = obligation[o].amount
              /\ \A f \in Fund :
                    fund[f].amount - fund'[f].amount = action[a].alloc[f]]_vars

\* blocked: a request that ends by blocking one action (the plans are left
\* alone) commits no debit and pays nothing, although blocked() commits
\* whatever the handler changed before.
BlockedMovesNothing ==
    [][\A a \in Action :
          /\ action[a].status # "BLOCKED"
          /\ action'[a].status = "BLOCKED"
          /\ plan' = plan
          => fund' = fund /\ obligation' = obligation]_vars

\* state_hash: the hash is a value, not a version, so a state could come back
\* to the one an action or a plan was built on.  It never does while they are
\* live: what a change of state made stale stays stale.
StaleStaysStale ==
    [][/\ \A a \in Action :
             /\ action[a].status \in LiveAction
             /\ action'[a].status \in LiveAction
             /\ action[a].hash # FinancialState
             => action'[a].hash # FinancialState'
       /\ \A p \in Plan :
             /\ plan[p].status \in LivePlan
             /\ plan'[p].status \in LivePlan
             /\ plan[p].hash # FinancialState
             => plan'[p].hash # FinancialState']_vars

\* ConsentedPayments: the payment flow keeps the promise that every payment is
\* made once, for a debt that is due, with the consent of all whose money it takes.
PhaseOf(row) ==
    IF row.executed THEN "paid"
    ELSE IF row.status \in LiveAction THEN "open"
    ELSE IF row.status = "NONE" THEN "none" ELSE "dead"

DebtOf(row) ==
    IF row.status = "NONE" THEN "none"
    ELSE IF row.status = "OPEN" THEN "due" ELSE "settled"

RequestOf(row) ==
    [phase |-> PhaseOf(row), debt |-> row.obligation,
     payers |-> SourceOwners(row.alloc) \cup {Student}, consent |-> row.approvals]

DebtView == [o \in Obligation |-> DebtOf(obligation[o])]
RequestView == [a \in Action |-> RequestOf(action[a])]

Promise == INSTANCE ConsentedPayments WITH
    Party <- Actor, Request <- Action, Debt <- Obligation,
    debt <- DebtView, request <- RequestView

KeepsPromise == Promise!PromiseSpec

\* execute: no obligation is paid by two actions, and everyone whose money an
\* executed action took had approved it.
NoDoublePayment == Promise!PaidOnce
=============================================================================
