----------------------------- MODULE RescueFlow ------------------------------
(***************************************************************************)
(* Repairing a plan that does not cover what must be paid                  *)
(* (optimizer/rescue/planner.py and the rescue actions of                  *)
(* apps/api/routes_actions.py): the planner tries a fixed list of changes  *)
(* on a copy of the canonical state, searches the least family             *)
(* contribution that makes each one work, and names who must agree; a      *)
(* candidate is prepared, approved by all of them and executed on the      *)
(* ledger.                                                                 *)
(*                                                                         *)
(* One student, one currency, one route without fees that settles on the   *)
(* same day, permission to plan with the family's sources given: what the  *)
(* optimizer can cover is then a matter of dates and capacities.  Today is *)
(* day 0.  Payments are in ActionFlow; a refused request changes nothing.  *)
(***************************************************************************)
EXTENDS Integers, FiniteSetsExt

CONSTANTS
    Student, Admin, Parent, \* actors; Admin consents for institutions
    Family,         \* the owners of family sources
    SeedSource,     \* rows of the funding sources there before any rescue
    SeedBill,       \* rows of the commitments there before any rescue
    None,           \* no installment option
    Horizon,        \* the last day that plans look at (horizon_days)
    Extension,      \* days a deadline may be extended by
    Headroom,       \* added to the largest contribution that is tried
    Edits,          \* <<commitment, field, value>>: corrections of the owner
    Documented,     \* commitments that documents are uploaded for
    Balances,       \* <<source, amount>>: corrections of a source
    Receipt,        \* bound: slots for received contributions
    MaxActions,     \* bound: rescues prepared at a time
    MaxVersion      \* bound: commitment versions are 1..MaxVersion

\* A commitment is split into its first part, kept in its own row, the second part
\* and the fee.
Bill == DOMAIN SeedBill
Debt == Bill \cup (Bill \X {"part2", "fee"})
Source == DOMAIN SeedSource \cup Receipt
Actor == {Student, Admin, Parent} \cup Family

Option == [amounts : Nat \X Nat, dates : Int \X Int, fee : Nat]
DebtRow == [amount : Nat, due : Int, priority : {"CRITICAL", "OPTIONAL"},
            status : {"NONE", "OPEN"}, hold : BOOLEAN, option : Option \cup {None},
            version : Nat]
NoDebt == [amount |-> 0, due |-> 0, priority |-> "OPTIONAL", status |-> "NONE",
           hold |-> FALSE, option |-> None, version |-> 0]

\* reserve: minimum_remaining_balance; emergency: restriction_type EMERGENCY.
FundStatus == {"NONE", "AVAILABLE", "PLANNED", "EXPECTED"}
FundRow == [owner : Actor, amount : Nat, reserve : Nat, emergency : BOOLEAN,
            from : Int, status : FundStatus]
NoFund == [owner |-> Student, amount |-> 0, reserve |-> 0, emergency |-> FALSE,
           from |-> 0, status |-> "NONE"]

ASSUME RescueAssumption ==
    /\ Parent \in Family /\ Student \notin Family /\ Admin \notin Family
    /\ Student # Admin
    /\ SeedSource \in [DOMAIN SeedSource -> FundRow]
    /\ SeedBill \in [Bill -> DebtRow]
    /\ \A b \in Bill : SeedBill[b].status = "OPEN"
    /\ \A b \in Bill : SeedBill[b].option # None =>
          SeedBill[b].priority = "CRITICAL" /\ SeedBill[b].option.dates[1] <= Horizon
    /\ Receipt \cap DOMAIN SeedSource = {}
    /\ IsFiniteSet(Bill) /\ IsFiniteSet(DOMAIN SeedSource) /\ IsFiniteSet(Receipt)
    /\ Bill \cap (Bill \X {"part2", "fee"}) = {}
    /\ Horizon \in Nat /\ Extension \in Nat /\ Headroom \in Nat
    /\ Edits \subseteq Bill \X {"amount", "due"} \X Nat
    /\ Documented \subseteq Bill
    /\ Balances \subseteq Source \X Nat
    /\ MaxActions \in Nat /\ MaxVersion \in Nat

VARIABLES
    bill,       \* commitment rows
    fund,       \* funding source rows
    plans,      \* the snapshots of the live plans
    offers,     \* the candidates of the live plans
    actions     \* the live prepared rescues

vars == <<bill, fund, plans, offers, actions>>

FinancialState == [bill |-> bill, fund |-> fund]

\* invalidate: candidates of a plan that is no longer fresh cannot be prepared.
Invalidate ==
    /\ actions' = {} /\ offers' = {}
    /\ plans' = IF plans = {} THEN {} ELSE {FinancialState'}

-----------------------------------------------------------------------------
(* What the optimizer can cover with certain money *)

Critical(s) ==
    {d \in Debt : /\ s.bill[d].status = "OPEN" /\ s.bill[d].priority = "CRITICAL"
                  /\ s.bill[d].due <= Horizon}

Capacity(f) ==
    IF f.status \in {"AVAILABLE", "PLANNED"} /\ ~f.emergency /\ f.amount > f.reserve
    THEN f.amount - f.reserve ELSE 0

\* What is due by day fits into what has arrived by then, extra counting from today.
Fits(s, extra, day) ==
    LET due == {d \in Critical(s) : s.bill[d].due <= day}
        there == {f \in Source : Max({0, s.fund[f].from}) <= day}
    IN  SumFunctionOnSet([d \in Debt |-> s.bill[d].amount], due)
          <= SumFunctionOnSet([f \in Source |-> Capacity(s.fund[f])], there)
             + IF day >= 0 THEN extra ELSE 0

\* verified_feasible: at each due date; nothing goes to a held commitment.
Feasible(s, extra) ==
    \A d \in Critical(s) : ~s.bill[d].hold /\ Fits(s, extra, s.bill[d].due)

-----------------------------------------------------------------------------
(* The changes a rescue may propose *)

Kind == {"REALLOCATE_UNRESTRICTED_FUNDS", "USE_INSTALLMENT_OPTION",
         "USE_RESERVE_WITH_APPROVAL", "DELAY_OPTIONAL_EXPENSE",
         "REQUEST_DEADLINE_EXTENSION", "EXPEDITE_TRANSFER"}

OpenDebts(s) == {d \in Debt : s.bill[d].status = "OPEN"}
Splittable(s) == {b \in Bill : s.bill[b].status = "OPEN" /\ s.bill[b].option # None}
Releasable(s) == {f \in Source : /\ s.fund[f].status # "NONE"
                                 /\ s.fund[f].emergency /\ s.fund[f].owner = Student}
Advanceable(s) == {f \in Source : /\ s.fund[f].owner \in Family
                                  /\ s.fund[f].status = "PLANNED" /\ s.fund[f].from > 0}

\* Mutant: an extension is granted whole.
FullExtension(due) == due + Extension

Extended(due) == Min({Horizon, due + Extension})

Extendable(s) ==
    {d \in OpenDebts(s) : /\ s.bill[d].priority = "CRITICAL"
                          /\ s.bill[d].due < Horizon /\ Extended(s.bill[d].due) >= 0}

\* What a variant changes, as the candidate discloses it.
Split(k, s) ==
    [b \in IF k = "USE_INSTALLMENT_OPTION" THEN Splittable(s) ELSE {} |-> s.bill[b].option]
Deadlines(k, s) ==
    IF k = "DELAY_OPTIONAL_EXPENSE"
    THEN [d \in {x \in OpenDebts(s) : s.bill[x].priority = "OPTIONAL"} |->
             Max({s.bill[d].due, Horizon + 1})]
    ELSE IF k = "REQUEST_DEADLINE_EXTENSION"
    THEN [d \in Extendable(s) |-> Extended(s.bill[d].due)]
    ELSE <<>>
Released(k, s) == IF k = "USE_RESERVE_WITH_APPROVAL" THEN Releasable(s) ELSE {}
Advanced(k, s) == IF k = "EXPEDITE_TRANSFER" THEN Advanceable(s) ELSE {}

Applies(k, s) ==
    \/ k = "REALLOCATE_UNRESTRICTED_FUNDS"
    \/ DOMAIN Split(k, s) # {} \/ DOMAIN Deadlines(k, s) # {}
    \/ Released(k, s) # {} \/ Advanced(k, s) # {}

\* apply_installment: the parts are copies of the commitment, hold included.
TrialBill(k, s) ==
    LET split == Split(k, s)
        deadline == Deadlines(k, s)
        Part(b, i) == [s.bill[b] EXCEPT !.amount = split[b].amounts[i],
                                        !.due = split[b].dates[i], !.option = None]
    IN  [d \in Debt |->
            IF d \in DOMAIN deadline THEN [s.bill[d] EXCEPT !.due = deadline[d]]
            ELSE IF d \in DOMAIN split THEN Part(d, 1)
            ELSE IF d \in (DOMAIN split) \X {"part2"} THEN Part(d[1], 2)
            ELSE IF d \in (DOMAIN split) \X {"fee"} /\ split[d[1]].fee > 0
            THEN [Part(d[1], 1) EXCEPT !.amount = split[d[1]].fee]
            ELSE s.bill[d]]

TrialFund(k, s) ==
    [f \in Source |->
        IF f \in Released(k, s) THEN [s.fund[f] EXCEPT !.emergency = FALSE, !.reserve = 0]
        ELSE IF f \in Advanced(k, s) THEN [s.fund[f] EXCEPT !.from = 0]
        ELSE s.fund[f]]

Trial(k, s) == [bill |-> TrialBill(k, s), fund |-> TrialFund(k, s)]

-----------------------------------------------------------------------------
(* Candidates *)

High(s) ==
    2 * SumFunctionOnSet([d \in Debt |-> s.bill[d].amount], OpenDebts(s)) + Headroom

\* Mutant: the search stops below a contribution that works.
SearchBelow(s, low, high) ==
    LET search[x \in Nat \X Nat] ==
            LET mid == (x[1] + x[2]) \div 2
            IN  IF x[1] >= x[2] THEN x[1]
                ELSE IF Feasible(s, mid) /\ mid > 0 THEN search[<<x[1], mid - 1>>]
                ELSE search[<<mid + 1, x[2]>>]
    IN  search[<<low, high>>]

\* The binary search of rescue.
Search(s, low, high) ==
    LET search[x \in Nat \X Nat] ==
            LET mid == (x[1] + x[2]) \div 2
            IN  IF x[1] >= x[2] THEN x[1]
                ELSE IF Feasible(s, mid) THEN search[<<x[1], mid>>]
                ELSE search[<<mid + 1, x[2]>>]
    IN  search[<<low, high>>]

Contribution(s) ==
    IF Feasible(s, High(s)) THEN Search(s, 0, High(s)) ELSE 0

\* Mutant: institutions are asked for installments only.
ActorsForInstallments(k, s, contribution) ==
    {Student}
    \cup (IF contribution # 0 THEN {Parent} ELSE {})
    \cup (IF DOMAIN Split(k, s) # {} THEN {Admin} ELSE {})
    \cup {s.fund[f].owner : f \in Advanced(k, s)}

\* required_actors, joined by what prepare adds.
RequiredActors(k, s, contribution) ==
    {Student}
    \cup (IF contribution # 0 THEN {Parent} ELSE {})
    \cup (IF DOMAIN Split(k, s) # {} \/ k = "REQUEST_DEADLINE_EXTENSION"
          THEN {Admin} ELSE {})
    \cup {s.fund[f].owner : f \in Advanced(k, s)}

Candidate(k, s) ==
    LET contribution == Contribution(Trial(k, s))
    IN  [kind |-> k, split |-> Split(k, s), deadline |-> Deadlines(k, s),
         release |-> Released(k, s), advance |-> Advanced(k, s),
         contribution |-> contribution,
         required |-> RequiredActors(k, s, contribution),
         feasible |-> Feasible(Trial(k, s), contribution)]

-----------------------------------------------------------------------------
(* Requests *)

GeneratePlan ==
    /\ plans' = plans \cup {FinancialState}
    /\ UNCHANGED <<bill, fund, offers, actions>>

\* generate_rescue: on the latest plan, which has to be fresh, or a first one.
GenerateRescue ==
    /\ plans = {} \/ FinancialState \in plans
    /\ plans' = plans \cup {FinancialState}
    /\ offers' = offers \cup
          {[plan |-> FinancialState, c |-> Candidate(k, FinancialState)] :
              k \in {x \in Kind : Applies(x, FinancialState)}}
    /\ UNCHANGED <<bill, fund, actions>>

\* Mutant: any candidate may be prepared.
PreparableAnyhow(o) == o.plan = FinancialState /\ o.plan \in plans

Preparable(o) == o.c.feasible /\ o.plan = FinancialState /\ o.plan \in plans

\* prepare of a rescue.
Prepare(o) ==
    /\ Preparable(o) /\ Cardinality(actions) < MaxActions
    /\ actions' = actions \cup {[hash |-> FinancialState, c |-> o.c, approvals |-> {}]}
    /\ UNCHANGED <<bill, fund, plans, offers>>

\* Mutant: anybody's approval is recorded.
ApproveByAnyone(a, actor) ==
    /\ a.hash = FinancialState
    /\ actions' = (actions \ {a}) \cup {[a EXCEPT !.approvals = @ \cup {actor}]}
    /\ UNCHANGED <<bill, fund, plans, offers>>

Approve(a, actor) ==
    /\ actor \in a.c.required
    /\ a.hash = FinancialState
    /\ actions' = (actions \ {a}) \cup {[a EXCEPT !.approvals = @ \cup {actor}]}
    /\ UNCHANGED <<bill, fund, plans, offers>>

\* Mutant: the second part is forgotten.
SplitWithoutSecond(c) ==
    [d \in Debt |->
        IF d \in DOMAIN c.split
        THEN [bill[d] EXCEPT !.amount = c.split[d].amounts[1], !.due = c.split[d].dates[1],
                             !.option = None, !.version = @ + 1]
        ELSE bill[d]]

\* The institution's fee is a critical commitment of its own.
SplitBills(c) ==
    [d \in Debt |->
        IF d \in DOMAIN c.split
        THEN [bill[d] EXCEPT !.amount = c.split[d].amounts[1], !.due = c.split[d].dates[1],
                             !.option = None, !.version = @ + 1]
        ELSE IF d \in (DOMAIN c.split) \X {"part2"}
        THEN [NoDebt EXCEPT !.amount = c.split[d[1]].amounts[2],
                            !.due = c.split[d[1]].dates[2], !.status = "OPEN",
                            !.priority = bill[d[1]].priority, !.version = 1]
        ELSE IF d \in (DOMAIN c.split) \X {"fee"} /\ c.split[d[1]].fee > 0
        THEN [NoDebt EXCEPT !.amount = c.split[d[1]].fee, !.due = c.split[d[1]].dates[1],
                            !.status = "OPEN", !.priority = "CRITICAL", !.version = 1]
        ELSE bill[d]]

Rescheduled(bills, c) ==
    [d \in Debt |-> IF d \in DOMAIN c.deadline
                    THEN [bills[d] EXCEPT !.due = c.deadline[d], !.version = @ + 1]
                    ELSE bills[d]]

\* A contribution counts as received money of the student.
Received(c) ==
    IF c.contribution = 0 THEN {{}}
    ELSE {{r} : r \in {x \in Receipt : fund[x].status = "NONE"}}

\* Mutant: a released reserve keeps its minimum_remaining_balance.
FundedKeepingReserve(c, receipts) ==
    [f \in Source |->
        IF f \in receipts
        THEN [NoFund EXCEPT !.amount = c.contribution, !.status = "AVAILABLE"]
        ELSE IF f \in c.release THEN [fund[f] EXCEPT !.emergency = FALSE]
        ELSE IF f \in c.advance THEN [fund[f] EXCEPT !.from = 0]
        ELSE fund[f]]

Funded(c, receipts) ==
    [f \in Source |->
        IF f \in receipts
        THEN [NoFund EXCEPT !.amount = c.contribution, !.status = "AVAILABLE"]
        ELSE IF f \in c.release THEN [fund[f] EXCEPT !.emergency = FALSE, !.reserve = 0]
        ELSE IF f \in c.advance THEN [fund[f] EXCEPT !.from = 0]
        ELSE fund[f]]

\* execute of a rescue: invalidate, then a new plan.
Execute(a) ==
    /\ a.c.required \subseteq a.approvals
    /\ a.hash = FinancialState
    /\ \A d \in (DOMAIN a.c.split) \cup DOMAIN a.c.deadline : bill[d].version < MaxVersion
    /\ bill' = Rescheduled(SplitBills(a.c), a.c)
    /\ \E receipts \in Received(a.c) : fund' = Funded(a.c, receipts)
    /\ actions' = {} /\ offers' = {} /\ plans' = {FinancialState'}

\* patch_obligation; an installment option stays as it is.
PatchObligation(b, field, value) ==
    /\ bill[b].version < MaxVersion
    /\ \/ /\ field = "amount"
          /\ bill' = [bill EXCEPT ![b].amount = value, ![b].version = @ + 1]
       \/ /\ field = "due"
          /\ bill' = [bill EXCEPT ![b].due = value, ![b].version = @ + 1]
    /\ UNCHANGED fund
    /\ Invalidate

PatchFund(f, amount) ==
    /\ fund[f].status # "NONE"
    /\ amount >= fund[f].reserve
    /\ fund' = [fund EXCEPT ![f].amount = amount]
    /\ UNCHANGED bill
    /\ Invalidate

\* Mutant: what rests on the commitment is left alone.
HoldQuietly(b) ==
    /\ bill' = [bill EXCEPT ![b].hold = TRUE]
    /\ UNCHANGED <<fund, plans, offers, actions>>

\* extract, of a document that names another beneficiary.
Hold(b) ==
    /\ bill' = [bill EXCEPT ![b].hold = TRUE]
    /\ UNCHANGED fund
    /\ Invalidate

VerifyBeneficiary(b) ==
    /\ bill[b].version < MaxVersion
    /\ bill' = [bill EXCEPT ![b].hold = FALSE, ![b].version = @ + 1]
    /\ UNCHANGED fund
    /\ Invalidate

Init ==
    /\ bill = [d \in Debt |-> IF d \in Bill THEN SeedBill[d] ELSE NoDebt]
    /\ fund = [f \in Source |-> IF f \in Receipt THEN NoFund ELSE SeedSource[f]]
    /\ plans = {} /\ offers = {} /\ actions = {}

OwnerNext ==
    \/ \E e \in Edits : PatchObligation(e[1], e[2], e[3])
    \/ \E e \in Balances : PatchFund(e[1], e[2])
    \/ \E b \in Documented : Hold(b) \/ VerifyBeneficiary(b)

RescueNext ==
    \/ GeneratePlan \/ GenerateRescue
    \/ \E o \in offers : Prepare(o)
    \/ \E a \in actions : Execute(a) \/ \E actor \in Actor : Approve(a, actor)

Next == OwnerNext \/ RescueNext

Spec == Init /\ [][Next]_vars

-----------------------------------------------------------------------------
(* Properties *)

State == [bill : [Debt -> DebtRow], fund : [Source -> FundRow]]

\* Every row is one the schema admits.
TypeOK ==
    /\ FinancialState \in State
    /\ plans \subseteq State
    /\ \A o \in offers : o.plan \in State
    /\ \A a \in actions : a.hash \in State /\ a.approvals \subseteq a.c.required

\* planner: the family is asked for the least amount, to the unit, with which the
\* change covers every critical commitment, and for nothing when none would.
ContributionIsLeast ==
    [][\A o \in offers' \ offers :
        LET trial == Trial(o.c.kind, o.plan)
        IN  /\ \A n \in 0..(IF o.c.feasible THEN o.c.contribution - 1 ELSE High(trial)) :
                  ~Feasible(trial, n)
            /\ IF o.c.feasible THEN Feasible(trial, o.c.contribution)
               ELSE o.c.contribution = 0]_vars

\* invalidate: whatever a prepared rescue or a candidate was computed from still
\* stands - balances, deadlines, options and holds.
OffersKnowTheState ==
    /\ \A a \in actions : a.hash = FinancialState /\ a.c.feasible
    /\ \A o \in offers : o.plan = FinancialState

\* README, "The new plan covers the critical commitments within the 45-day horizon":
\* what execute does to the ledger covers them as the trial of the planner did.
RepairCovers ==
    [][\A a \in actions : Execute(a) => Feasible(FinancialState', 0)]_vars

\* threat model: a source is released, sent earlier or brought in, a schedule or a
\* deadline is changed, only with the approval of the one who has to agree.
ChangesAreConsented ==
    [][\A a \in actions : Execute(a) =>
          /\ Student \in a.approvals
          /\ \A f \in Source :
                /\ fund[f].status # "NONE" /\ fund'[f] # fund[f]
                      => fund[f].owner \in a.approvals
                /\ fund[f].status = "NONE" /\ fund'[f] # fund[f] => Parent \in a.approvals
          /\ \A b \in Bill : bill'[b] # bill[b] /\ bill[b].priority = "CRITICAL"
                => Admin \in a.approvals]_vars

\* execute, security_hold: the parts are new rows without a hold, so a commitment on
\* hold must not be split; a hold is lifted by the owner's attestation only.
HoldIsNotSplitAway ==
    [][\A d \in Debt :
          bill[d].status = "NONE" /\ bill'[d].status = "OPEN" => ~bill[d[1]].hold]_vars

\* docs/architecture.md, "Extensions keep critical debt inside the horizon": of the
\* critical debt inside the horizon only the agreed second part leaves it.
CriticalStaysInside ==
    [][\A a \in actions : Execute(a) =>
          \A d \in Critical(FinancialState) : d \in Critical(FinancialState')]_vars

\* docs/architecture.md, "All installment principal, deferred debts and institution
\* fees remain represented": a rescue changes what is owed by the agreed fees only.
OwedFor(b) == bill[b].amount + bill[<<b, "part2">>].amount + bill[<<b, "fee">>].amount
Owed == SumFunctionOnSet([b \in Bill |-> OwedFor(b)], Bill)
DebtIsKept ==
    [][\A a \in actions : Execute(a) =>
          Owed' = Owed + SumFunctionOnSet([b \in DOMAIN a.c.split |-> a.c.split[b].fee],
                                          DOMAIN a.c.split)]_vars
=============================================================================
