--------------------------- MODULE ActionFlowProofs ---------------------------
(***************************************************************************)
(* Theorems about ActionFlow for every number of actors, sources,          *)
(* obligations, plans, actions and permission rows.                        *)
(***************************************************************************)
EXTENDS ActionFlow, TLAPS

DataTypeOK ==
    /\ fund \in [Fund -> FundRow]
    /\ obligation \in [Obligation -> ObligationRow]

-----------------------------------------------------------------------------
(* Types of the empty rows and of the canonical state *)

\* The rows that stand for an absent record are well typed.
LEMMA EmptyRowTypes ==
    /\ NoFund \in FundRow
    /\ NoObligation \in ObligationRow
    /\ EmptyState \in State
    /\ NoAllocation \in Allocation
    /\ NoPlan \in PlanRow
    /\ NoAction \in ActionRow
<1>1. (CHOOSE b \in Beneficiary : TRUE) \in Beneficiary
  BY NonEmptyAssumption
<1>2. (CHOOSE o \in Obligation : TRUE) \in Obligation
  BY NonEmptyAssumption
<1>3. NoFund \in FundRow
  BY DEF NoFund, FundRow, FundStatus
<1>4. NoObligation \in ObligationRow
  BY <1>1 DEF NoObligation, ObligationRow, ObligationStatus
<1>5. EmptyState \in State
  BY <1>4 DEF EmptyState, State, HiddenSource, SourceView
<1>6. NoAllocation \in Allocation
  BY DEF NoAllocation, Allocation
<1>7. NoPlan \in PlanRow
  BY <1>5, <1>6 DEF NoPlan, PlanRow, PlanStatus
<1>8. NoAction \in ActionRow
  BY <1>1, <1>2, <1>5 DEF NoAction, ActionRow, ActionStatus
<1> QED BY <1>3, <1>4, <1>5, <1>6, <1>7, <1>8

\* financial_state of well-typed rows is a well-typed state, before and after a step.
LEMMA FinancialStateType == DataTypeOK => FinancialState \in State
  BY DEF DataTypeOK, FinancialState, State, SourceView, HiddenSource, FundRow,
         Authorized, HasPermission

\* The same of the state a step leads to.
LEMMA NextFinancialStateType == DataTypeOK' => FinancialState' \in State
  BY DEF DataTypeOK, FinancialState, State, SourceView, HiddenSource, FundRow,
         Authorized, HasPermission

\* The planner returns allocations of natural numbers, whatever it is given.
LEMMA AllocationType == \A s : Allocations(s) \subseteq Allocation
<1>1. \A s : Allocations(s) \subseteq [Obligation -> [Fund -> 0..MaxAmount]]
  BY DEF Allocations
<1>2. [Obligation -> [Fund -> 0..MaxAmount]] \subseteq Allocation
  BY BoundAssumption DEF Allocation
<1> QED BY <1>1, <1>2

\* generate fills one free plan row with the state the handler has written.
LEMMA GenerateRow ==
    ASSUME NEW plans, Generate(plans)
    PROVE  \E p \in Plan, x \in Allocations(FinancialState') :
              plan' = [plans EXCEPT ![p] =
                [status |-> IF Feasible(FinancialState', x) THEN "DRAFT" ELSE "FAILED",
                 hash |-> FinancialState', alloc |-> x]]
  BY DEF Generate

\* generate keeps the plan rows well typed.
LEMMA GenerateType ==
    ASSUME NEW plans \in [Plan -> PlanRow], DataTypeOK', Generate(plans)
    PROVE  plan' \in [Plan -> PlanRow]
<1>1. PICK p \in Plan, x \in Allocations(FinancialState') :
        plan' = [plans EXCEPT ![p] =
            [status |-> IF Feasible(FinancialState', x) THEN "DRAFT" ELSE "FAILED",
             hash |-> FinancialState', alloc |-> x]]
  BY GenerateRow
<1>2. x \in Allocation
  BY AllocationType
<1>3. FinancialState' \in State
  BY NextFinancialStateType
<1> QED BY <1>1, <1>2, <1>3 DEF PlanRow, PlanStatus

\* Retiring live plans keeps the plan rows well typed.
LEMMA RetireLiveType ==
    ASSUME NEW plans \in [Plan -> PlanRow]
    PROVE  RetireLive(plans) \in [Plan -> PlanRow]
  BY DEF RetireLive, PlanRow, PlanStatus

\* Blocking live actions keeps the action rows well typed.
LEMMA BlockLiveType ==
    ASSUME NEW actions \in [Action -> ActionRow]
    PROVE  BlockLive(actions) \in [Action -> ActionRow]
  BY DEF BlockLive, ActionRow, ActionStatus

\* invalidate keeps plans and actions well typed.
LEMMA InvalidateType ==
    ASSUME TypeOK, DataTypeOK', Invalidate
    PROVE  plan' \in [Plan -> PlanRow] /\ action' \in [Action -> ActionRow]
  BY BlockLiveType, RetireLiveType, GenerateType DEF Invalidate, TypeOK

-----------------------------------------------------------------------------
(* Type correctness: one lemma per group of handlers *)

\* The handlers of demo data, funding sources and obligations preserve types.
LEMMA DataStepType ==
    ASSUME TypeOK, Reset \/ LoadMaya \/ FundNext \/ ObligationNext
    PROVE  TypeOK'
<1>1. CASE Reset
  BY <1>1, EmptyRowTypes DEF Reset, TypeOK
<1>2. CASE LoadMaya
  <2>1. fund' \in [Fund -> FundRow] /\ obligation' \in [Obligation -> ObligationRow]
    BY <1>2, SeedAssumption DEF LoadMaya, TypeOK
  <2>2. perm' \in [Perm -> PermRow \cup {NoPerm}]
    <3>1. PICK used \in 0..MaxPerm :
            perm' = [i \in Perm |-> IF i \in used + 1..used + Len(SeedPerm)
                                    THEN SeedPerm[i - used] ELSE perm[i]]
      BY <1>2 DEF LoadMaya
    <3>2. ASSUME NEW i \in Perm, i \in used + 1..used + Len(SeedPerm)
          PROVE  SeedPerm[i - used] \in PermRow
      BY <3>2, SeedAssumption, BoundAssumption DEF Perm
    <3> QED BY <3>1, <3>2 DEF TypeOK
  <2> QED BY <1>2, <2>1, <2>2 DEF LoadMaya, TypeOK
<1>3. CASE FundNext
  <2>1. DataTypeOK' /\ UNCHANGED perm /\ Invalidate
    <3>1. ASSUME NEW f \in Fund, NEW amount \in Amounts, NEW reserve \in Amounts,
                 NEW status \in PatchStatuses, AddFund(f, amount, reserve, status)
          PROVE  DataTypeOK' /\ UNCHANGED perm /\ Invalidate
      BY <3>1, AmountAssumption, StatusAssumption, BoundAssumption
         DEF AddFund, TypeOK, DataTypeOK, FundRow
    <3>2. ASSUME NEW f \in Fund, NEW amount \in Amounts \cup {fund[f].amount},
                 NEW status \in PatchStatuses \cup {fund[f].status},
                 PatchFund(f, amount, status)
          PROVE  DataTypeOK' /\ UNCHANGED perm /\ Invalidate
      <4>1. fund[f] \in FundRow /\ obligation \in [Obligation -> ObligationRow]
        BY DEF TypeOK
      <4>2. amount \in Nat /\ status \in FundStatus
        BY <3>2, <4>1, AmountAssumption, StatusAssumption, BoundAssumption DEF FundRow
      <4>3. [fund[f] EXCEPT !.amount = amount, !.status = status] \in FundRow
        BY <4>1, <4>2 DEF FundRow
      <4> QED BY <3>2, <4>1, <4>3 DEF PatchFund, TypeOK, DataTypeOK
    <3> QED BY <1>3, <3>1, <3>2 DEF FundNext
  <2> QED BY <2>1, InvalidateType DEF TypeOK, DataTypeOK
<1>4. CASE ObligationNext
  <2>1. PICK o \in Obligation :
          \/ \E amount \in Amounts, b \in Beneficiary : AddObligation(o, amount, b)
          \/ \E amount \in Amounts \cup {obligation[o].amount} : PatchObligation(o, amount)
          \/ \E b \in Beneficiary : VerifyBeneficiary(o, b)
          \/ \E sets \in BOOLEAN : ExtractFlagged(o, sets)
    BY <1>4 DEF ObligationNext
  <2>2. obligation[o] \in ObligationRow
    BY DEF TypeOK
  <2>3. /\ Amounts \subseteq Nat
        /\ obligation[o].amount \in Nat
        /\ obligation[o].version + 1 \in Nat
    <3>1. obligation[o].amount \in Nat /\ obligation[o].version \in Nat
      BY <2>2 DEF ObligationRow
    <3>2. obligation[o].version + 1 \in Nat
      BY <3>1
    <3> QED BY <3>1, <3>2, AmountAssumption, BoundAssumption
  <2>4. \E row \in ObligationRow : obligation' = [obligation EXCEPT ![o] = row]
    <3>1. ASSUME NEW amount \in Amounts, NEW b \in Beneficiary,
                 AddObligation(o, amount, b)
          PROVE  \E row \in ObligationRow : obligation' = [obligation EXCEPT ![o] = row]
      <4>1. [amount |-> amount, beneficiary |-> b, hold |-> FALSE, version |-> 1,
             status |-> "OPEN"] \in ObligationRow
        BY <2>3 DEF ObligationRow, ObligationStatus
      <4> QED BY <3>1, <4>1 DEF AddObligation
    <3>2. ASSUME NEW amount \in Amounts \cup {obligation[o].amount},
                 PatchObligation(o, amount)
          PROVE  \E row \in ObligationRow : obligation' = [obligation EXCEPT ![o] = row]
      <4>1. [obligation[o] EXCEPT !.amount = amount, !.version = obligation[o].version + 1]
              \in ObligationRow
        BY <2>2, <2>3 DEF ObligationRow
      <4> QED BY <3>2, <4>1 DEF PatchObligation
    <3>3. ASSUME NEW b \in Beneficiary, VerifyBeneficiary(o, b)
          PROVE  \E row \in ObligationRow : obligation' = [obligation EXCEPT ![o] = row]
      <4>1. [obligation[o] EXCEPT !.beneficiary = b, !.hold = FALSE,
                                  !.version = obligation[o].version + 1]
              \in ObligationRow
        BY <2>2, <2>3 DEF ObligationRow
      <4> QED BY <3>3, <4>1 DEF VerifyBeneficiary
    <3>4. ASSUME NEW sets \in BOOLEAN, ExtractFlagged(o, sets)
          PROVE  \E row \in ObligationRow : obligation' = [obligation EXCEPT ![o] = row]
      <4>1. [obligation[o] EXCEPT !.hold = @ \/ sets] \in ObligationRow
        BY <2>2 DEF ObligationRow
      <4> QED BY <3>4, <4>1 DEF ExtractFlagged
    <3> QED BY <2>1, <3>1, <3>2, <3>3, <3>4
  <2>5. UNCHANGED <<fund, perm>> /\ Invalidate
    BY <2>1 DEF AddObligation, PatchObligation, VerifyBeneficiary, ExtractFlagged
  <2>6. DataTypeOK'
    BY <2>4, <2>5 DEF TypeOK, DataTypeOK
  <2> QED BY <2>5, <2>6, InvalidateType DEF TypeOK, DataTypeOK
<1> QED BY <1>1, <1>2, <1>3, <1>4

\* grant keeps the permission rows well typed.
LEMMA AddRowType ==
    ASSUME TypeOK, NEW kind \in PermissionType, NEW resource \in Resource,
           NEW x \in Actor, AddRow(kind, resource, x)
    PROVE  perm' \in [Perm -> PermRow \cup {NoPerm}]
  BY DEF AddRow, TypeOK, PermRow

\* The delegates of an action are actors.
LEMMA DelegatesType ==
    ASSUME NEW perms \in [Perm -> PermRow \cup {NoPerm}], NEW a
    PROVE  Delegates(a, perms) \subseteq Actor
  BY DEF Delegates, PermRow, NoPerm, PermissionType

\* refresh_action_approvers preserves types.
LEMMA RefreshType ==
    ASSUME TypeOK, perm' \in [Perm -> PermRow \cup {NoPerm}], NEW a,
           RefreshActionApprovers(a)
    PROVE  action' \in [Action -> ActionRow] /\ UNCHANGED plan
<1>1. Delegates(a, perm') \subseteq Actor
  BY DelegatesType
<1>2. action' \in [Action -> ActionRow]
  <2>1. CASE a \in Action
    <3>1. action[a] \in ActionRow
      BY <2>1 DEF TypeOK
    <3>2. [action[a] EXCEPT !.required = action[a].base \cup Delegates(a, perm'),
                            !.approvals = {}, !.status = "PREPARED"] \in ActionRow
      BY <1>1, <3>1 DEF ActionRow, ActionStatus
    <3> QED BY <2>1, <3>2 DEF RefreshActionApprovers, TypeOK
  <2>2. CASE a \notin Action
    BY <2>2 DEF RefreshActionApprovers, TypeOK
  <2> QED BY <2>1, <2>2
<1> QED BY <1>2 DEF RefreshActionApprovers

\* grant and revoke preserve types.
LEMMA PermissionStepType ==
    ASSUME TypeOK, PermissionNext
    PROVE  TypeOK'
<1>1. ASSUME NEW x \in Actor, NEW f \in Fund,
             NEW kind \in {"VIEW_OWN_CONTRIBUTION", "APPROVE_OWN_FUNDS"},
             GrantFunding(f, x, kind)
      PROVE  TypeOK'
  <2>1. perm' \in [Perm -> PermRow \cup {NoPerm}] /\ DataTypeOK'
    BY <1>1, AddRowType DEF GrantFunding, PermissionType, Resource, TypeOK, DataTypeOK
  <2>2. Invalidate \/ UNCHANGED <<plan, action>>
    BY <1>1 DEF GrantFunding
  <2> QED BY <2>1, <2>2, InvalidateType DEF TypeOK, DataTypeOK
<1>2. ASSUME NEW x \in Family, NEW o \in Obligation, GrantObligation(o, x)
      PROVE  TypeOK'
  BY <1>2, AddRowType DEF GrantObligation, PermissionType, Resource, Actor, TypeOK
<1>3. ASSUME NEW x \in Family, NEW p \in Plan, GrantPlan(p, x)
      PROVE  TypeOK'
  BY <1>3, AddRowType DEF GrantPlan, PermissionType, Resource, Actor, TypeOK
<1>4. ASSUME NEW x \in Family, NEW a \in Action, GrantAction(a, x)
      PROVE  TypeOK'
  <2>1. perm' \in [Perm -> PermRow \cup {NoPerm}]
    BY <1>4, AddRowType DEF GrantAction, PermissionType, Resource, Actor
  <2> QED BY <1>4, <2>1, RefreshType DEF GrantAction, TypeOK
<1>5. ASSUME NEW i \in Perm, Revoke(i)
      PROVE  TypeOK'
  <2>1. perm' \in [Perm -> PermRow \cup {NoPerm}] /\ DataTypeOK'
    BY <1>5 DEF Revoke, TypeOK, DataTypeOK, PermRow, NoPerm
  <2>2. RefreshActionApprovers(perm[i].resource) \/ Invalidate
    BY <1>5 DEF Revoke
  <2> QED BY <1>5, <2>1, <2>2, RefreshType, InvalidateType DEF Revoke, TypeOK, DataTypeOK
<1> QED BY <1>1, <1>2, <1>3, <1>4, <1>5 DEF PermissionNext

\* generate_plan and activate preserve types.
LEMMA PlanStepType ==
    ASSUME TypeOK, PlanNext
    PROVE  TypeOK'
<1>1. CASE GeneratePlan
  BY <1>1, GenerateType DEF GeneratePlan, TypeOK, DataTypeOK
<1>2. ASSUME NEW x \in Actor, NEW p \in Plan, ActivatePlan(x, p)
      PROVE  TypeOK'
  BY <1>2 DEF ActivatePlan, TypeOK, PlanRow, PlanStatus
<1> QED BY <1>1, <1>2 DEF PlanNext

\* A debit that fits leaves a natural balance.
LEMMA DebitType ==
    ASSUME TypeOK, NEW need \in [Fund -> Nat], NEW sources \in SUBSET Fund,
           \A f \in sources : need[f] > 0 => fund[f].amount - need[f] >= fund[f].reserve,
           DebitSources(need, sources)
    PROVE  fund' \in [Fund -> FundRow]
  BY DEF DebitSources, TypeOK, FundRow

\* execute preserves types, when it pays and when it is blocked half way.
LEMMA ExecuteType ==
    ASSUME TypeOK, NEW a \in Action, Execute(a)
    PROVE  TypeOK'
<1> DEFINE o == action[a].obligation
           need == action[a].alloc
           changed == \/ obligation[o].hold
                      \/ obligation[o].beneficiary # action[a].beneficiary
                      \/ obligation[o].version # action[a].version
           fits == {f \in Fund :
                       need[f] > 0 => fund[f].amount - need[f] >= fund[f].reserve}
<1>1. o \in Obligation /\ need \in [Fund -> Nat]
  BY DEF TypeOK, ActionRow
<1>2. UNCHANGED perm
  BY DEF Execute
<1>3. CASE ~changed /\ fits = Fund
  <2>1. /\ DebitSources(need, Fund)
        /\ obligation' = [obligation EXCEPT ![o].status = "SANDBOX_PAID"]
        /\ action' = BlockLive([action EXCEPT ![a] =
                [@ EXCEPT !.status = "EXECUTED", !.executed = TRUE]])
        /\ Generate(RetireLive(plan))
    BY <1>3 DEF Execute
  <2>2. DataTypeOK'
    <3>1. fund' \in [Fund -> FundRow]
      BY <1>1, <1>3, <2>1, DebitType
    <3> QED BY <1>1, <2>1, <3>1 DEF TypeOK, DataTypeOK, ObligationRow, ObligationStatus
  <2>3. plan' \in [Plan -> PlanRow]
    BY <2>1, <2>2, RetireLiveType, GenerateType DEF TypeOK
  <2>4. action' \in [Action -> ActionRow]
    <3>1. [action EXCEPT ![a] = [@ EXCEPT !.status = "EXECUTED", !.executed = TRUE]]
            \in [Action -> ActionRow]
      BY DEF TypeOK, ActionRow, ActionStatus
    <3> QED BY <2>1, <3>1, BlockLiveType
  <2> QED BY <1>2, <2>2, <2>3, <2>4 DEF TypeOK, DataTypeOK
<1>4. CASE ~(~changed /\ fits = Fund)
  <2>1. /\ \E done \in SUBSET fits :
              DebitSources(need, IF changed THEN {} ELSE done)
        /\ action' = [action EXCEPT ![a].status = "BLOCKED"]
        /\ UNCHANGED <<obligation, plan>>
    BY <1>4 DEF Execute
  <2>2. PICK sources \in SUBSET fits : DebitSources(need, sources)
    BY <2>1
  <2>3. fund' \in [Fund -> FundRow]
    BY <1>1, <2>2, DebitType
  <2>4. [action[a] EXCEPT !.status = "BLOCKED"] \in ActionRow
    BY DEF TypeOK, ActionRow, ActionStatus
  <2> QED BY <1>2, <2>1, <2>3, <2>4 DEF TypeOK
<1> QED BY <1>3, <1>4

\* prepare preserves types.
LEMMA PrepareType ==
    ASSUME TypeOK, NEW a \in Action, NEW p \in Plan, NEW o \in Obligation, Prepare(a, p, o)
    PROVE  TypeOK'
<1> DEFINE alloc == plan[p].alloc[o]
           row == [status |-> "PREPARED", obligation |-> o,
                   beneficiary |-> obligation[o].beneficiary,
                   version |-> obligation[o].version,
                   alloc |-> [f \in Fund |-> Debit(alloc[f])],
                   base |-> SourceOwners(alloc) \cup {Student},
                   required |-> SourceOwners(alloc) \cup {Student}, approvals |-> {},
                   hash |-> FinancialState, executed |-> FALSE]
<1>1. alloc \in [Fund -> Nat]
  BY DEF TypeOK, PlanRow, Allocation
<1>2. [f \in Fund |-> Debit(alloc[f])] \in [Fund -> Nat]
  BY <1>1, BoundAssumption DEF Debit
<1>3. SourceOwners(alloc) \subseteq Actor
  BY OwnerAssumption DEF SourceOwners
<1>4. FinancialState \in State
  BY FinancialStateType DEF TypeOK, DataTypeOK
<1>5. obligation[o].beneficiary \in Beneficiary /\ obligation[o].version \in Nat
  BY DEF TypeOK, ObligationRow
<1>6. row \in ActionRow
  BY <1>2, <1>3, <1>4, <1>5 DEF ActionRow, ActionStatus, Actor
<1>7. action' = [action EXCEPT ![a] = row] /\ UNCHANGED <<fund, obligation, perm, plan>>
  BY DEF Prepare
<1> QED BY <1>6, <1>7 DEF TypeOK

\* prepare, approve and execute preserve types.
LEMMA ActionStepType ==
    ASSUME TypeOK, ActionNext
    PROVE  TypeOK'
<1>1. ASSUME NEW a \in Action, NEW x \in Actor, Approve(a, x)
      PROVE  TypeOK'
  <2> DEFINE approvals == action[a].approvals \cup {x}
             row == [action[a] EXCEPT !.approvals = approvals,
                        !.status = IF action[a].required \subseteq approvals
                                   THEN "APPROVED" ELSE action[a].status]
  <2>1. action[a] \in ActionRow
    BY DEF TypeOK
  <2>2. row \in ActionRow
    BY <2>1 DEF ActionRow, ActionStatus
  <2>3. action' = [action EXCEPT ![a] = row] /\ UNCHANGED <<fund, obligation, perm, plan>>
    BY <1>1 DEF Approve
  <2> HIDE DEF row
  <2> QED BY <2>2, <2>3 DEF TypeOK
<1>2. ASSUME NEW a \in Action, NEW x \in Actor, ApproveBlocked(a, x)
      PROVE  TypeOK'
  BY <1>2 DEF ApproveBlocked, TypeOK, ActionRow, ActionStatus
<1>3. ASSUME NEW a \in Action, ExecuteBlocked(a)
      PROVE  TypeOK'
  BY <1>3 DEF ExecuteBlocked, TypeOK, ActionRow, ActionStatus
<1> QED BY <1>1, <1>2, <1>3, PrepareType, ExecuteType DEF ActionNext

\* Rows keep their types: in particular no balance ever becomes negative and
\* every approver is an actor of the student's data.
THEOREM TypeCorrect == Spec => []TypeOK
<1>1. Init => TypeOK
  BY EmptyRowTypes DEF Init, TypeOK
<1>2. TypeOK /\ [Next]_vars => TypeOK'
  <2>1. CASE UNCHANGED vars
    BY <2>1 DEF vars, TypeOK
  <2>2. CASE Next
    BY <2>2, DataStepType, PermissionStepType, PlanStepType, ActionStepType DEF Next
  <2> QED BY <2>1, <2>2
<1> QED BY <1>1, <1>2, PTL DEF Spec

-----------------------------------------------------------------------------
(* One working plan *)

\* generate makes no plan active.
LEMMA GenerateActive ==
    ASSUME NEW plans \in [Plan -> PlanRow], Generate(plans), NEW p \in Plan,
           plan'[p].status = "ACTIVE"
    PROVE  plans[p].status = "ACTIVE"
  BY DEF Generate

\* invalidate makes no plan active.
LEMMA InvalidateActive ==
    ASSUME TypeOK, Invalidate, NEW p \in Plan, plan'[p].status = "ACTIVE"
    PROVE  plan[p].status = "ACTIVE"
<1>1. CASE plan' = plan
  BY <1>1
<1>2. CASE Generate(RetireLive(plan))
  <2>1. RetireLive(plan)[p].status = "ACTIVE"
    BY <1>2, RetireLiveType, GenerateActive DEF TypeOK
  <2> QED BY <2>1 DEF RetireLive, TypeOK, PlanRow
<1> QED BY <1>1, <1>2 DEF Invalidate

\* Every step keeps at most one plan active.
LEMMA ActiveStep ==
    ASSUME TypeOK, SingleActivePlan, [Next]_vars
    PROVE  SingleActivePlan'
<1>1. CASE UNCHANGED plan
  BY <1>1 DEF SingleActivePlan
<1>2. CASE Invalidate
  BY <1>2, InvalidateActive DEF SingleActivePlan
<1>3. CASE Reset
  BY <1>3 DEF Reset, NoPlan, SingleActivePlan
<1>4. CASE GeneratePlan
  BY <1>4, GenerateActive DEF GeneratePlan, SingleActivePlan, TypeOK
<1>5. ASSUME NEW x \in Actor, NEW p \in Plan, ActivatePlan(x, p)
      PROVE  SingleActivePlan'
  <2>1. ASSUME NEW q \in Plan, q # p
        PROVE  plan'[q].status # "ACTIVE"
    BY <1>5, <2>1 DEF ActivatePlan, TypeOK, PlanRow
  <2> QED BY <2>1 DEF SingleActivePlan
<1>6. ASSUME NEW a \in Action, Execute(a)
      PROVE  SingleActivePlan'
  <2>1. CASE Generate(RetireLive(plan))
    <3>1. ASSUME NEW p \in Plan
          PROVE  plan'[p].status # "ACTIVE"
      BY <2>1, RetireLiveType, GenerateActive DEF RetireLive, LivePlan, TypeOK, PlanRow
    <3> QED BY <3>1 DEF SingleActivePlan
  <2>2. Generate(RetireLive(plan)) \/ UNCHANGED plan
    BY <1>6 DEF Execute
  <2> QED BY <1>1, <2>1, <2>2
<1>7. [Next]_vars => \/ UNCHANGED plan
                     \/ Invalidate
                     \/ Reset
                     \/ PlanNext
                     \/ \E a \in Action : Execute(a)
  <2>1. FundNext \/ ObligationNext => Invalidate
    BY DEF FundNext, ObligationNext, AddFund, PatchFund, AddObligation, PatchObligation,
           VerifyBeneficiary, ExtractFlagged
  <2>2. PermissionNext => Invalidate \/ UNCHANGED plan
    BY DEF PermissionNext, GrantFunding, GrantObligation, GrantPlan, GrantAction, Revoke,
           RefreshActionApprovers
  <2>3. ActionNext => UNCHANGED plan \/ \E a \in Action : Execute(a)
    BY DEF ActionNext, Prepare, Approve, ApproveBlocked, ExecuteBlocked
  <2> QED BY <2>1, <2>2, <2>3 DEF Next, LoadMaya, vars
<1> QED BY <1>1, <1>2, <1>3, <1>4, <1>5, <1>6, <1>7 DEF PlanNext

\* activate: however many plans are generated, activated, superseded and retired,
\* the student never has two working plans.
THEOREM AtMostOneActivePlan == Spec => []SingleActivePlan
<1>1. Init => SingleActivePlan
  BY DEF Init, SingleActivePlan, NoPlan
<1> QED BY <1>1, ActiveStep, TypeCorrect, PTL DEF Spec

-----------------------------------------------------------------------------
(* Consent *)

\* The required approvals are exactly the base approvals (student and owners of
\* the debited sources) and the delegates in force; a row that is free has no
\* delegate; and an execution froze a complete set of approvals.
ApprovalOf(a) ==
    /\ action[a].status = "NONE" => ~action[a].executed /\ Delegates(a, perm) = {}
    /\ action[a].status # "NONE" =>
          /\ action[a].base = SourceOwners(action[a].alloc) \cup {Student}
          /\ action[a].required = action[a].base \cup Delegates(a, perm)
    /\ action[a].executed => /\ action[a].status \notin LiveAction
                             /\ action[a].required \subseteq action[a].approvals

ApprovalInv == \A a \in Action : ApprovalOf(a)

\* A grant can only change the delegates of the action it names.
LEMMA AddRowDelegates ==
    ASSUME TypeOK, NEW kind, NEW resource, NEW x, AddRow(kind, resource, x), NEW a,
           kind # "APPROVE_ACTION" \/ resource # a
    PROVE  Delegates(a, perm') = Delegates(a, perm)
<1>1. PICK i \in Perm :
        /\ perm[i].kind = "NONE"
        /\ perm' = [perm EXCEPT ![i] = [kind |-> kind, resource |-> resource,
                                        target |-> x, revoked |-> FALSE]]
  BY DEF AddRow
<1>2. ASSUME NEW j \in Perm
      PROVE  /\ perm'[j].kind = "APPROVE_ACTION" /\ perm'[j].resource = a
                  => perm'[j] = perm[j]
             /\ perm[j].kind = "APPROVE_ACTION" => perm'[j] = perm[j]
  BY <1>1 DEF TypeOK
<1> QED BY <1>2 DEF Delegates

\* A revocation can only change the delegates of the action it names.
LEMMA RevokeDelegates ==
    ASSUME TypeOK, NEW i \in Perm, Revoke(i), NEW a,
           perm[i].kind # "APPROVE_ACTION" \/ perm[i].resource # a
    PROVE  Delegates(a, perm') = Delegates(a, perm)
<1>1. perm' = [perm EXCEPT ![i].revoked = TRUE] /\ perm[i].kind # "NONE"
  BY DEF Revoke
<1>2. perm[i] \in PermRow
  BY <1>1 DEF TypeOK, NoPerm
<1>3. perm'[i].kind = perm[i].kind /\ perm'[i].resource = perm[i].resource
  BY <1>1, <1>2 DEF TypeOK, PermRow
<1>4. \A j \in Perm : j # i => perm'[j] = perm[j]
  BY <1>1 DEF TypeOK
<1> QED BY <1>3, <1>4 DEF Delegates

\* The approval invariant of an action depends on its row and its delegates only.
LEMMA ApprovalKept ==
    ASSUME TypeOK, NEW a \in Action, ApprovalOf(a),
           Delegates(a, perm') = Delegates(a, perm),
           \/ action'[a] = action[a]
           \/ /\ action[a].status # "NONE"
              /\ action'[a] = [action[a] EXCEPT !.status = "BLOCKED"]
    PROVE  ApprovalOf(a)'
<1>1. CASE action'[a] = action[a]
  BY <1>1 DEF ApprovalOf
<1>2. CASE /\ action[a].status # "NONE"
           /\ action'[a] = [action[a] EXCEPT !.status = "BLOCKED"]
  <2>1. action[a] \in ActionRow
    BY DEF TypeOK
  <2> QED BY <1>2, <2>1 DEF ApprovalOf, ActionRow, LiveAction
<1> QED BY <1>1, <1>2

\* Blocking changes nothing of an action but its status.
LEMMA BlockLiveRows ==
    ASSUME NEW actions \in [Action -> ActionRow], NEW a \in Action
    PROVE  \/ BlockLive(actions)[a] = actions[a]
           \/ /\ actions[a].status # "NONE"
              /\ BlockLive(actions)[a] = [actions[a] EXCEPT !.status = "BLOCKED"]
  BY DEF BlockLive, LiveAction

\* invalidate preserves the approval invariant.
LEMMA InvalidateApproval ==
    ASSUME TypeOK, ApprovalInv, Invalidate, NEW a \in Action,
           Delegates(a, perm') = Delegates(a, perm)
    PROVE  ApprovalOf(a)'
  BY BlockLiveRows, ApprovalKept DEF Invalidate, TypeOK, ApprovalInv

\* refresh_action_approvers preserves the approval invariant.
LEMMA RefreshApproval ==
    ASSUME TypeOK, ApprovalInv, NEW b, RefreshActionApprovers(b), NEW a \in Action,
           a # b => Delegates(a, perm') = Delegates(a, perm)
    PROVE  ApprovalOf(a)'
<1>1. CASE a # b
  <2>1. action'[a] = action[a]
    BY <1>1 DEF RefreshActionApprovers, TypeOK
  <2> QED BY <1>1, <2>1, ApprovalKept DEF ApprovalInv
<1>2. CASE a = b
  <2>1. action[a] \in ActionRow /\ ApprovalOf(a) /\ action[a].status \in LiveAction
    BY <1>2 DEF TypeOK, ApprovalInv, RefreshActionApprovers
  <2>2. action'[a] = [action[a] EXCEPT
            !.required = action[a].base \cup Delegates(a, perm'),
            !.approvals = {}, !.status = "PREPARED"]
    BY <1>2 DEF RefreshActionApprovers, TypeOK
  <2>3. /\ action'[a].status = "PREPARED"
        /\ action'[a].base = action[a].base
        /\ action'[a].alloc = action[a].alloc
        /\ action'[a].required = action[a].base \cup Delegates(a, perm')
        /\ action'[a].executed = action[a].executed
    BY <2>1, <2>2 DEF ActionRow
  <2>4. ~action[a].executed /\ action[a].status # "NONE"
    BY <2>1 DEF ApprovalOf, LiveAction
  <2> QED BY <2>1, <2>3, <2>4 DEF ApprovalOf
<1> QED BY <1>1, <1>2

\* The seeded permissions delegate no approval of an action.
LEMMA LoadMayaDelegates ==
    ASSUME TypeOK, LoadMaya, NEW a
    PROVE  Delegates(a, perm') = Delegates(a, perm)
<1>1. PICK used \in 0..MaxPerm :
        /\ \A i \in Perm : (perm[i].kind = "NONE") <=> (i > used)
        /\ perm' = [i \in Perm |-> IF i \in used + 1..used + Len(SeedPerm)
                                   THEN SeedPerm[i - used] ELSE perm[i]]
  BY DEF LoadMaya
<1>2. ASSUME NEW i \in Perm, i \in used + 1..used + Len(SeedPerm)
      PROVE  /\ perm'[i].kind # "APPROVE_ACTION"
             /\ perm[i].kind # "APPROVE_ACTION"
  <2>1. i \in Int /\ i > used /\ i - used \in 1..Len(SeedPerm)
    BY <1>2, SeedAssumption, BoundAssumption DEF Perm
  <2>2. perm[i].kind = "NONE"
    BY <1>1, <2>1
  <2>3. SeedPerm[i - used].kind # "APPROVE_ACTION"
    BY <2>1, SeedAssumption
  <2> QED BY <1>1, <1>2, <2>2, <2>3
<1>3. ASSUME NEW i \in Perm, i \notin used + 1..used + Len(SeedPerm)
      PROVE  perm'[i] = perm[i]
  BY <1>1, <1>3
<1> QED BY <1>2, <1>3 DEF Delegates

\* The frozen debits take money from the same owners as the plan's allocation.
LEMMA FrozenOwners ==
    ASSUME NEW alloc \in [Fund -> Nat]
    PROVE  SourceOwners([f \in Fund |-> Debit(alloc[f])]) = SourceOwners(alloc)
<1>1. \A f \in Fund : (Debit(alloc[f]) > 0) <=> (alloc[f] > 0)
  BY BoundAssumption DEF Debit
<1> QED BY <1>1 DEF SourceOwners

\* prepare preserves the approval invariant.
LEMMA PrepareApproval ==
    ASSUME TypeOK, ApprovalInv, NEW b \in Action, NEW p \in Plan, NEW o \in Obligation,
           Prepare(b, p, o), NEW a \in Action
    PROVE  ApprovalOf(a)'
<1> DEFINE alloc == plan[p].alloc[o]
<1>1. UNCHANGED perm
  BY DEF Prepare
<1>2. Delegates(a, perm') = Delegates(a, perm)
  BY <1>1
<1>3. CASE a # b
  BY <1>2, <1>3, ApprovalKept DEF Prepare, TypeOK, ApprovalInv
<1>4. CASE a = b
  <2>1. Delegates(a, perm) = {}
    BY <1>4 DEF Prepare, ApprovalInv, ApprovalOf
  <2>2. /\ action'[a].status = "PREPARED"
        /\ action'[a].base = SourceOwners(alloc) \cup {Student}
        /\ action'[a].required = SourceOwners(alloc) \cup {Student}
        /\ action'[a].alloc = [f \in Fund |-> Debit(alloc[f])]
        /\ action'[a].executed = FALSE
    BY <1>4 DEF Prepare, TypeOK
  <2>3. SourceOwners(action'[a].alloc) = SourceOwners(alloc)
    BY <2>2, FrozenOwners DEF TypeOK, PlanRow, Allocation
  <2> QED BY <1>2, <2>1, <2>2, <2>3 DEF ApprovalOf
<1> QED BY <1>3, <1>4

\* approve preserves the approval invariant.
LEMMA ApproveApproval ==
    ASSUME TypeOK, ApprovalInv, NEW b \in Action, NEW x \in Actor,
           Approve(b, x), NEW a \in Action
    PROVE  ApprovalOf(a)'
<1>1. Delegates(a, perm') = Delegates(a, perm)
  BY DEF Approve
<1>2. CASE a # b
  BY <1>1, <1>2, ApprovalKept DEF Approve, TypeOK, ApprovalInv
<1>3. CASE a = b
  <2>1. action[a] \in ActionRow /\ ApprovalOf(a) /\ action[a].status \in LiveAction
    BY <1>3 DEF TypeOK, ApprovalInv, Approve
  <2>2. /\ action'[a].base = action[a].base
        /\ action'[a].alloc = action[a].alloc
        /\ action'[a].required = action[a].required
        /\ action'[a].executed = action[a].executed
        /\ action'[a].status \in {action[a].status, "APPROVED"}
    BY <1>3, <2>1 DEF Approve, TypeOK, ActionRow
  <2>3. ~action[a].executed /\ action[a].status # "NONE"
    BY <2>1 DEF ApprovalOf, LiveAction
  <2> QED BY <1>1, <2>1, <2>2, <2>3 DEF ApprovalOf
<1> QED BY <1>2, <1>3

\* execute preserves the approval invariant.
LEMMA ExecuteApproval ==
    ASSUME TypeOK, ApprovalInv, NEW b \in Action, Execute(b), NEW a \in Action
    PROVE  ApprovalOf(a)'
<1> DEFINE done == [action EXCEPT ![b] =
                       [@ EXCEPT !.status = "EXECUTED", !.executed = TRUE]]
<1>1. /\ Delegates(a, perm') = Delegates(a, perm)
      /\ action[b].status = "APPROVED"
      /\ action[b].required \subseteq action[b].approvals
  BY DEF Execute, MayExecute
<1>2. CASE action' = [action EXCEPT ![b].status = "BLOCKED"]
  BY <1>1, <1>2, ApprovalKept DEF TypeOK, ApprovalInv
<1>3. CASE action' = BlockLive(done)
  <2>1. CASE a # b
    BY <1>1, <1>3, <2>1, ApprovalKept DEF BlockLive, LiveAction, TypeOK, ApprovalInv
  <2>2. CASE a = b
    <3>1. action[a] \in ActionRow /\ ApprovalOf(a)
      BY DEF TypeOK, ApprovalInv
    <3>2. done[a] = [action[a] EXCEPT !.status = "EXECUTED", !.executed = TRUE]
      BY <2>2 DEF TypeOK
    <3>3. /\ done[a].status = "EXECUTED"
          /\ done[a].base = action[a].base
          /\ done[a].alloc = action[a].alloc
          /\ done[a].required = action[a].required
          /\ done[a].approvals = action[a].approvals
      BY <3>1, <3>2 DEF ActionRow
    <3>4. action'[a] = done[a]
      BY <1>3, <3>3 DEF BlockLive, LiveAction
    <3> HIDE DEF done
    <3> QED BY <1>1, <2>2, <3>1, <3>3, <3>4 DEF ApprovalOf, LiveAction
  <2> QED BY <2>1, <2>2
<1> QED BY <1>2, <1>3 DEF Execute

\* Every step preserves the approval invariant.
LEMMA ApprovalStep ==
    ASSUME TypeOK, ApprovalInv, [Next]_vars
    PROVE  ApprovalInv'
<1> SUFFICES ASSUME NEW a \in Action
             PROVE  ApprovalOf(a)'
  BY DEF ApprovalInv
<1>1. CASE UNCHANGED vars
  BY <1>1, ApprovalKept DEF vars, ApprovalInv
<1>2. CASE Reset
  BY <1>2 DEF Reset, NoAction, NoPerm, Delegates, ApprovalOf
<1>3. CASE LoadMaya
  BY <1>3, LoadMayaDelegates, ApprovalKept DEF LoadMaya, ApprovalInv
<1>4. CASE FundNext \/ ObligationNext
  <2>1. Invalidate /\ UNCHANGED perm
    BY <1>4 DEF FundNext, ObligationNext, AddFund, PatchFund, AddObligation,
                PatchObligation, VerifyBeneficiary, ExtractFlagged
  <2> QED BY <2>1, InvalidateApproval
<1>5. CASE PermissionNext
  <2>1. ASSUME NEW x, NEW f, NEW kind \in {"VIEW_OWN_CONTRIBUTION", "APPROVE_OWN_FUNDS"},
               GrantFunding(f, x, kind)
        PROVE  ApprovalOf(a)'
    <3>1. Delegates(a, perm') = Delegates(a, perm)
      BY <2>1, AddRowDelegates DEF GrantFunding
    <3> QED BY <2>1, <3>1, InvalidateApproval, ApprovalKept DEF GrantFunding, ApprovalInv
  <2>2. ASSUME NEW x, NEW o, GrantObligation(o, x)
        PROVE  ApprovalOf(a)'
    BY <2>2, AddRowDelegates, ApprovalKept DEF GrantObligation, ApprovalInv
  <2>3. ASSUME NEW x, NEW p, GrantPlan(p, x)
        PROVE  ApprovalOf(a)'
    BY <2>3, AddRowDelegates, ApprovalKept DEF GrantPlan, ApprovalInv
  <2>4. ASSUME NEW x, NEW b, GrantAction(b, x)
        PROVE  ApprovalOf(a)'
    BY <2>4, AddRowDelegates, RefreshApproval DEF GrantAction
  <2>5. ASSUME NEW i \in Perm, Revoke(i)
        PROVE  ApprovalOf(a)'
    BY <2>5, RevokeDelegates, RefreshApproval, InvalidateApproval DEF Revoke
  <2> QED BY <1>5, <2>1, <2>2, <2>3, <2>4, <2>5 DEF PermissionNext
<1>6. CASE PlanNext
  BY <1>6, ApprovalKept DEF PlanNext, GeneratePlan, ActivatePlan, ApprovalInv
<1>7. CASE ActionNext
  <2>1. ASSUME NEW b \in Action, NEW x \in Actor, ApproveBlocked(b, x)
        PROVE  ApprovalOf(a)'
    BY <2>1, ApprovalKept DEF ApproveBlocked, TypeOK, ApprovalInv
  <2>2. ASSUME NEW b \in Action, ExecuteBlocked(b)
        PROVE  ApprovalOf(a)'
    BY <2>2, ApprovalKept DEF ExecuteBlocked, MayExecute, TypeOK, ApprovalInv
  <2> QED BY <1>7, <2>1, <2>2, PrepareApproval, ApproveApproval, ExecuteApproval
          DEF ActionNext
<1> QED BY <1>1, <1>2, <1>3, <1>4, <1>5, <1>6, <1>7 DEF Next

\* refresh_action_approvers: what an action requires is always its base approvers
\* with the delegates in force, and an approved action has them all.
THEOREM ApprovalCorrect == Spec => []ApprovalInv
<1>1. Init => ApprovalInv
  BY DEF Init, ApprovalInv, ApprovalOf, NoAction, NoPerm, Delegates
<1> QED BY <1>1, ApprovalStep, TypeCorrect, PTL DEF Spec

\* execute: an executed payment has the approval of the student, of the owner of
\* every source it debited and of every delegate in force, whatever was granted
\* and revoked between its preparation and its execution.
THEOREM ExecutionIsConsented == Spec => []ExecutedWithConsent
<1>1. ApprovalInv => ExecutedWithConsent
  BY DEF ApprovalInv, ApprovalOf, ExecutedWithConsent
<1> QED BY <1>1, ApprovalCorrect, PTL

-----------------------------------------------------------------------------
(* Plans draw only on sources the planned state allows to use *)

PlanSound ==
    \A p \in Plan, o \in Obligation, f \in Fund :
        plan[p].alloc[o][f] > 0 => Usable(plan[p].hash.funding[f])

\* generate makes plans that only take usable money and pay payable obligations.
LEMMA GenerateSound ==
    ASSUME NEW plans \in [Plan -> PlanRow], Generate(plans), DataTypeOK',
           \A p \in Plan, o \in Obligation, f \in Fund :
              plans[p].alloc[o][f] > 0 => Usable(plans[p].hash.funding[f])
    PROVE  PlanSound'
<1>1. PICK q \in Plan, x \in Allocations(FinancialState') :
        plan' = [plans EXCEPT ![q] =
            [status |-> IF Feasible(FinancialState', x) THEN "DRAFT" ELSE "FAILED",
             hash |-> FinancialState', alloc |-> x]]
  BY GenerateRow
<1>2. \A o \in Obligation, f \in Fund :
        x[o][f] > 0 => Usable((FinancialState').funding[f])
  BY DEF Allocations
<1>3. ASSUME NEW p \in Plan, NEW o \in Obligation, NEW f \in Fund,
             plan'[p].alloc[o][f] > 0
      PROVE  Usable(plan'[p].hash.funding[f])
  <2>1. CASE p = q
    <3>1. plan'[p].alloc = x /\ plan'[p].hash = FinancialState'
      BY <1>1, <2>1
    <3> QED BY <1>2, <1>3, <3>1
  <2>2. CASE p # q
    BY <1>1, <1>3, <2>2
  <2> QED BY <2>1, <2>2
<1> QED BY <1>3 DEF PlanSound, Usable

\* Retiring live plans keeps the others sound.
LEMMA RetireLiveSound ==
    ASSUME TypeOK, PlanSound, NEW p \in Plan, NEW o \in Obligation, NEW f \in Fund,
           RetireLive(plan)[p].alloc[o][f] > 0
    PROVE  Usable(RetireLive(plan)[p].hash.funding[f])
<1>1. plan[p] \in PlanRow
  BY DEF TypeOK
<1>2. RetireLive(plan)[p].alloc = plan[p].alloc /\ RetireLive(plan)[p].hash = plan[p].hash
  BY <1>1 DEF RetireLive, PlanRow
<1> QED BY <1>2 DEF PlanSound

\* Every step keeps plans sound.
LEMMA PlanSoundStep ==
    ASSUME TypeOK, PlanSound, [Next]_vars
    PROVE  PlanSound'
<1>0. TypeOK'
  BY DataStepType, PermissionStepType, PlanStepType, ActionStepType DEF Next, vars, TypeOK
<1>1. CASE UNCHANGED plan
  BY <1>1 DEF PlanSound, Usable
<1>2. CASE Generate(RetireLive(plan))
  BY <1>0, <1>2, RetireLiveSound, RetireLiveType, GenerateSound DEF TypeOK, DataTypeOK
<1>3. CASE Generate(plan)
  BY <1>0, <1>3, GenerateSound DEF TypeOK, DataTypeOK, PlanSound
<1>4. CASE Reset
  BY <1>4 DEF Reset, NoPlan, NoAllocation, PlanSound
<1>5. ASSUME NEW x \in Actor, NEW p \in Plan, ActivatePlan(x, p)
      PROVE  PlanSound'
  <2>1. ASSUME NEW q \in Plan
        PROVE  plan'[q].alloc = plan[q].alloc /\ plan'[q].hash = plan[q].hash
    <3>1. plan[q] \in PlanRow
      BY DEF TypeOK
    <3> QED BY <1>5, <3>1 DEF ActivatePlan, PlanRow
  <2> QED BY <2>1 DEF PlanSound, Usable
<1>6. Invalidate => UNCHANGED plan \/ Generate(RetireLive(plan))
  BY DEF Invalidate
<1>7. FundNext \/ ObligationNext => Invalidate
  BY DEF FundNext, ObligationNext, AddFund, PatchFund, AddObligation, PatchObligation,
         VerifyBeneficiary, ExtractFlagged
<1>8. PermissionNext => Invalidate \/ UNCHANGED plan
  BY DEF PermissionNext, GrantFunding, GrantObligation, GrantPlan, GrantAction, Revoke,
         RefreshActionApprovers
<1>9. ActionNext => UNCHANGED plan \/ Generate(RetireLive(plan))
  BY DEF ActionNext, Prepare, Approve, ApproveBlocked, ExecuteBlocked, Execute
<1>10. PlanNext => Generate(plan) \/ \E x \in Actor, p \in Plan : ActivatePlan(x, p)
  BY DEF PlanNext, GeneratePlan
<1> QED BY <1>1, <1>2, <1>3, <1>4, <1>5, <1>6, <1>7, <1>8, <1>9, <1>10
        DEF Next, LoadMaya, vars

-----------------------------------------------------------------------------
(* The demo obligations are seeded together with demo sources *)

SeedSound ==
    (\E o \in DOMAIN SeedObligation : obligation[o].status # "NONE")
        => \E f \in Fund : fund[f].status # "NONE"

\* Only a reset removes funding sources.
LEMMA FundsPersist ==
    ASSUME TypeOK, [Next]_vars, ~Reset, NEW f \in Fund, fund[f].status # "NONE"
    PROVE  fund'[f].status # "NONE"
<1>0. fund[f] \in FundRow
  BY DEF TypeOK
<1>1. CASE UNCHANGED fund
  BY <1>1
<1>2. CASE LoadMaya
  BY <1>2 DEF LoadMaya
<1>3. ASSUME NEW g \in Fund, NEW amount, NEW reserve, NEW status \in PatchStatuses,
             AddFund(g, amount, reserve, status)
      PROVE  fund'[f].status # "NONE"
  BY <1>3, StatusAssumption DEF AddFund, TypeOK
<1>4. ASSUME NEW g \in Fund, NEW amount, NEW status \in PatchStatuses \cup {fund[g].status},
             PatchFund(g, amount, status)
      PROVE  fund'[f].status # "NONE"
  BY <1>4, StatusAssumption DEF PatchFund, TypeOK, FundRow
<1>5. ASSUME NEW a \in Action, Execute(a)
      PROVE  fund'[f].status # "NONE"
  <2>1. PICK sources : DebitSources(action[a].alloc, sources)
    BY <1>5 DEF Execute
  <2> QED BY <1>0, <2>1 DEF DebitSources, FundRow
<1>6. ObligationNext \/ PermissionNext \/ PlanNext => UNCHANGED fund
  BY DEF ObligationNext, AddObligation, PatchObligation, VerifyBeneficiary, ExtractFlagged,
         PermissionNext, GrantFunding, GrantObligation, GrantPlan, GrantAction, Revoke,
         PlanNext, GeneratePlan, ActivatePlan
<1>7. ActionNext => UNCHANGED fund \/ \E a \in Action : Execute(a)
  BY DEF ActionNext, Prepare, Approve, ApproveBlocked, ExecuteBlocked
<1>8. FundNext =>
        \E g \in Fund :
            \/ \E amount, reserve \in Amounts, status \in PatchStatuses :
                  AddFund(g, amount, reserve, status)
            \/ \E amount \in Amounts \cup {fund[g].amount},
                  status \in PatchStatuses \cup {fund[g].status} : PatchFund(g, amount, status)
  BY DEF FundNext
<1> QED BY <1>1, <1>2, <1>3, <1>4, <1>5, <1>6, <1>7, <1>8 DEF Next, vars

\* Seeded rows appear in one step, by load_maya.
LEMMA SeedsAppearTogether ==
    ASSUME TypeOK, LiveActionIsIntact, [Next]_vars, ~LoadMaya, NEW o \in DOMAIN SeedObligation,
           obligation[o].status = "NONE"
    PROVE  obligation'[o].status = "NONE"
<1>0. o \in Obligation
  BY SeedAssumption
<1>1. CASE UNCHANGED obligation
  BY <1>1
<1>2. CASE Reset
  BY <1>0, <1>2 DEF Reset, NoObligation
<1>3. CASE ObligationNext
  <2>1. PICK q \in Obligation :
          /\ q \notin DOMAIN SeedObligation \/ obligation[q].status # "NONE"
          /\ \E row : obligation' = [obligation EXCEPT ![q] = row]
    <3>1. ASSUME NEW q \in Obligation, NEW amount, NEW b, AddObligation(q, amount, b)
          PROVE  /\ q \notin DOMAIN SeedObligation
                 /\ \E row : obligation' = [obligation EXCEPT ![q] = row]
      BY <3>1 DEF AddObligation
    <3>2. ASSUME NEW q \in Obligation, NEW amount, PatchObligation(q, amount)
          PROVE  /\ obligation[q].status # "NONE"
                 /\ \E row : obligation' = [obligation EXCEPT ![q] = row]
      BY <3>2 DEF PatchObligation
    <3>3. ASSUME NEW q \in Obligation, NEW b, VerifyBeneficiary(q, b)
          PROVE  /\ obligation[q].status # "NONE"
                 /\ \E row : obligation' = [obligation EXCEPT ![q] = row]
      BY <3>3 DEF VerifyBeneficiary
    <3>4. ASSUME NEW q \in Obligation, NEW sets, ExtractFlagged(q, sets)
          PROVE  /\ obligation[q].status # "NONE"
                 /\ \E row : obligation' = [obligation EXCEPT ![q] = row]
      <4>1. obligation' = [obligation EXCEPT ![q] =
                              [obligation[q] EXCEPT !.hold = obligation[q].hold \/ sets]]
        BY <3>4 DEF ExtractFlagged
      <4> QED BY <3>4, <4>1 DEF ExtractFlagged
    <3> QED BY <1>3, <3>1, <3>2, <3>3, <3>4 DEF ObligationNext
  <2>2. q # o
    BY <2>1
  <2> QED BY <1>0, <2>1, <2>2 DEF TypeOK
<1>4. ASSUME NEW a \in Action, Execute(a)
      PROVE  obligation'[o].status = "NONE"
  <2>1. action[a].obligation # o
    BY <1>4 DEF Execute, MayExecute, LiveAction, LiveActionIsIntact, Payable
  <2>2. \/ UNCHANGED obligation
        \/ obligation' = [obligation EXCEPT ![action[a].obligation].status = "SANDBOX_PAID"]
    BY <1>4 DEF Execute
  <2> QED BY <1>0, <2>1, <2>2 DEF TypeOK
<1>5. FundNext \/ PermissionNext \/ PlanNext => UNCHANGED obligation
  BY DEF FundNext, AddFund, PatchFund, PermissionNext, GrantFunding, GrantObligation,
         GrantPlan, GrantAction, Revoke, PlanNext, GeneratePlan, ActivatePlan
<1>6. ActionNext => UNCHANGED obligation \/ \E a \in Action : Execute(a)
  BY DEF ActionNext, Prepare, Approve, ApproveBlocked, ExecuteBlocked
<1> QED BY <1>1, <1>2, <1>3, <1>4, <1>5, <1>6 DEF Next, vars

\* Every step keeps the seeded rows and the obligations of actions consistent.
LEMMA SeedSoundStep ==
    ASSUME TypeOK, LiveActionIsIntact, SeedSound, [Next]_vars
    PROVE  SeedSound'
<1>1. CASE Reset
  BY <1>1, SeedAssumption DEF Reset, NoObligation, SeedSound
<1>2. CASE LoadMaya
  <2>1. PICK f \in DOMAIN SeedFund : TRUE
    BY SeedAssumption
  <2>2. f \in Fund /\ fund'[f].status # "NONE"
    BY <1>2, <2>1, SeedAssumption DEF LoadMaya
  <2> QED BY <2>2 DEF SeedSound
<1>3. CASE ~Reset /\ ~LoadMaya
  <2>1. SUFFICES ASSUME NEW o \in DOMAIN SeedObligation, obligation'[o].status # "NONE"
                 PROVE  \E f \in Fund : fund'[f].status # "NONE"
    BY DEF SeedSound
  <2>2. obligation[o].status # "NONE"
    BY <1>3, <2>1, SeedsAppearTogether
  <2>3. PICK f \in Fund : fund[f].status # "NONE"
    BY <2>2 DEF SeedSound
  <2> QED BY <1>3, <2>3, FundsPersist
<1> QED BY <1>1, <1>2, <1>3

-----------------------------------------------------------------------------
(* Live actions stand as they were frozen *)

IntactOf(a) ==
    action[a].status \in LiveAction =>
        LET o == action[a].obligation
        IN  /\ Payable(obligation[o])
            /\ obligation[o].version = action[a].version
            /\ obligation[o].beneficiary = action[a].beneficiary
            /\ \A f \in Fund : action[a].alloc[f] > 0 => Authorized(f)

\* Intactness of an action depends on its obligation and its authorizations only.
LEMMA IntactKept ==
    ASSUME NEW a \in Action, IntactOf(a),
           action'[a].status \in LiveAction =>
              /\ action[a].status \in LiveAction
              /\ action'[a].obligation = action[a].obligation
              /\ action'[a].beneficiary = action[a].beneficiary
              /\ action'[a].version = action[a].version
              /\ action'[a].alloc = action[a].alloc
              /\ obligation'[action[a].obligation] = obligation[action[a].obligation],
           \A f \in Fund : Authorized(f) => Authorized(f)'
    PROVE  IntactOf(a)'
  BY DEF IntactOf, Payable

\* Only the revocation of APPROVE_OWN_FUNDS takes an authorization away.
LEMMA AddRowAuthorizes ==
    ASSUME TypeOK, NEW kind, NEW resource, NEW x, AddRow(kind, resource, x),
           NEW f \in Fund, Authorized(f)
    PROVE  Authorized(f)'
<1>1. PICK i \in Perm :
        /\ perm[i].kind = "NONE"
        /\ perm' = [perm EXCEPT ![i] = [kind |-> kind, resource |-> resource,
                                        target |-> x, revoked |-> FALSE]]
  BY DEF AddRow
<1>2. ASSUME NEW j \in Perm, InForce(j, "APPROVE_OWN_FUNDS", f, Student)
      PROVE  InForce(j, "APPROVE_OWN_FUNDS", f, Student)'
  <2>1. j # i
    BY <1>1, <1>2 DEF InForce
  <2>2. perm'[j] = perm[j]
    BY <1>1, <2>1 DEF TypeOK
  <2> QED BY <1>2, <2>2 DEF InForce
<1> QED BY <1>2 DEF Authorized, HasPermission

\* load_maya takes no authorization away.
LEMMA LoadMayaAuthorizes ==
    ASSUME TypeOK, LoadMaya, NEW f \in Fund, Authorized(f)
    PROVE  Authorized(f)'
<1>1. PICK used \in 0..MaxPerm :
        /\ \A i \in Perm : (perm[i].kind = "NONE") <=> (i > used)
        /\ perm' = [i \in Perm |-> IF i \in used + 1..used + Len(SeedPerm)
                                   THEN SeedPerm[i - used] ELSE perm[i]]
  BY DEF LoadMaya
<1>2. ASSUME NEW j \in Perm, InForce(j, "APPROVE_OWN_FUNDS", f, Student)
      PROVE  InForce(j, "APPROVE_OWN_FUNDS", f, Student)'
  <2>1. perm[j].kind # "NONE"
    BY <1>2 DEF InForce
  <2>2. ~(j > used)
    BY <1>1, <2>1
  <2>3. j \notin used + 1..used + Len(SeedPerm)
    BY <2>2, BoundAssumption DEF Perm
  <2>4. perm'[j] = perm[j]
    BY <1>1, <2>3
  <2> QED BY <1>2, <2>4 DEF InForce
<1> QED BY <1>2 DEF Authorized, HasPermission

\* A revocation of another kind takes no authorization away.
LEMMA RevokeAuthorizes ==
    ASSUME TypeOK, NEW i \in Perm, Revoke(i), perm[i].kind = "APPROVE_ACTION",
           NEW f \in Fund, Authorized(f)
    PROVE  Authorized(f)'
<1>1. perm' = [perm EXCEPT ![i].revoked = TRUE]
  BY DEF Revoke
<1>2. ASSUME NEW j \in Perm, InForce(j, "APPROVE_OWN_FUNDS", f, Student)
      PROVE  InForce(j, "APPROVE_OWN_FUNDS", f, Student)'
  <2>1. j # i
    BY <1>2 DEF InForce
  <2>2. perm'[j] = perm[j]
    BY <1>1, <2>1 DEF TypeOK
  <2> QED BY <1>2, <2>2 DEF InForce
<1> QED BY <1>2 DEF Authorized, HasPermission

\* After invalidate no action is live, so every action is intact.
LEMMA InvalidateIntact ==
    ASSUME TypeOK, Invalidate, NEW a \in Action
    PROVE  IntactOf(a)'
<1>1. action'[a].status \notin LiveAction
  BY DEF Invalidate, BlockLive, LiveAction, TypeOK, ActionRow
<1> QED BY <1>1 DEF IntactOf

\* refresh_action_approvers keeps live actions intact.
LEMMA RefreshIntact ==
    ASSUME TypeOK, NEW a \in Action, IntactOf(a), NEW b, RefreshActionApprovers(b),
           UNCHANGED obligation, \A f \in Fund : Authorized(f) => Authorized(f)'
    PROVE  IntactOf(a)'
<1>1. action[a] \in ActionRow
  BY DEF TypeOK
<1>2. CASE a # b
  <2>1. action'[a] = action[a]
    BY <1>2 DEF RefreshActionApprovers, TypeOK
  <2> QED BY <2>1, IntactKept
<1>3. CASE a = b
  <2>1. /\ action[a].status \in LiveAction
        /\ action'[a] = [action[a] EXCEPT
              !.required = action[a].base \cup Delegates(a, perm'),
              !.approvals = {}, !.status = "PREPARED"]
    BY <1>3 DEF RefreshActionApprovers, TypeOK
  <2>2. /\ action'[a].obligation = action[a].obligation
        /\ action'[a].beneficiary = action[a].beneficiary
        /\ action'[a].version = action[a].version
        /\ action'[a].alloc = action[a].alloc
    BY <1>1, <2>1 DEF ActionRow
  <2> QED BY <2>1, <2>2, IntactKept
<1> QED BY <1>2, <1>3

\* prepare freezes an intact action.
LEMMA PrepareIntact ==
    ASSUME TypeOK, PlanSound, NEW b \in Action, NEW p \in Plan, NEW o \in Obligation,
           Prepare(b, p, o), NEW a \in Action, IntactOf(a)
    PROVE  IntactOf(a)'
<1>1. UNCHANGED <<fund, obligation, perm, plan>>
  BY DEF Prepare
<1>2. \A f \in Fund : Authorized(f)' <=> Authorized(f)
  BY <1>1 DEF Authorized, HasPermission, InForce
<1>3. CASE a # b
  <2>1. action'[a] = action[a]
    BY <1>3 DEF Prepare, TypeOK
  <2> QED BY <1>1, <1>2, <2>1, IntactKept
<1>4. CASE a = b
  <2>1. /\ action'[a].obligation = o
        /\ action'[a].beneficiary = obligation[o].beneficiary
        /\ action'[a].version = obligation[o].version
        /\ action'[a].alloc = [f \in Fund |-> Debit(plan[p].alloc[o][f])]
    BY <1>4 DEF Prepare, TypeOK
  <2>2. Payable(obligation[o])
    BY DEF Prepare, PaymentAllowed
  <2>3. ASSUME NEW f \in Fund, action'[a].alloc[f] > 0
        PROVE  Authorized(f)
    <3>1. plan[p].alloc[o][f] \in Nat
      BY DEF TypeOK, PlanRow, Allocation
    <3>2. plan[p].alloc[o][f] > 0
      BY <2>1, <2>3, <3>1, BoundAssumption DEF Debit
    <3>3. Usable(FinancialState.funding[f])
      BY <3>2 DEF PlanSound, Prepare, Fresh
    <3> QED BY <3>3 DEF Usable, FinancialState, HiddenSource
  <2> QED BY <1>1, <1>2, <2>1, <2>2, <2>3 DEF IntactOf, Payable
<1> QED BY <1>3, <1>4

\* prepare, approve and execute keep live actions intact.
LEMMA ActionStepIntact ==
    ASSUME TypeOK, PlanSound, ActionNext, NEW a \in Action, IntactOf(a)
    PROVE  IntactOf(a)'
<1>0. action[a] \in ActionRow
  BY DEF TypeOK
<1>1. UNCHANGED perm
  BY DEF ActionNext, Prepare, Approve, ApproveBlocked, ExecuteBlocked, Execute
<1>2. \A f \in Fund : Authorized(f) => Authorized(f)'
  BY <1>1 DEF Authorized, HasPermission, InForce
<1>3. ASSUME NEW b \in Action, UNCHANGED obligation,
             action' = [action EXCEPT ![b].status = "BLOCKED"]
      PROVE  IntactOf(a)'
  <2>1. CASE a = b
    <3>1. action'[a].status = "BLOCKED"
      BY <1>0, <1>3, <2>1 DEF TypeOK, ActionRow
    <3> QED BY <3>1 DEF IntactOf, LiveAction
  <2>2. CASE a # b
    BY <1>2, <1>3, <2>2, IntactKept DEF TypeOK
  <2> QED BY <2>1, <2>2
<1>4. ASSUME NEW b \in Action, NEW x \in Actor, Approve(b, x)
      PROVE  IntactOf(a)'
  <2>1. CASE a # b
    BY <1>2, <1>4, <2>1, IntactKept DEF Approve, TypeOK
  <2>2. CASE a = b
    <3>1. /\ action[a].status \in LiveAction
          /\ action'[a].obligation = action[a].obligation
          /\ action'[a].beneficiary = action[a].beneficiary
          /\ action'[a].version = action[a].version
          /\ action'[a].alloc = action[a].alloc
          /\ UNCHANGED obligation
      BY <1>0, <1>4, <2>2 DEF Approve, TypeOK, ActionRow
    <3> QED BY <1>2, <3>1, IntactKept
  <2> QED BY <2>1, <2>2
<1>5. ASSUME NEW b \in Action, Execute(b)
      PROVE  IntactOf(a)'
  <2>1. CASE action' = BlockLive([action EXCEPT ![b] =
                          [@ EXCEPT !.status = "EXECUTED", !.executed = TRUE]])
    <3>1. action'[a].status \notin LiveAction
      <4>1. [action EXCEPT ![b] = [@ EXCEPT !.status = "EXECUTED", !.executed = TRUE]]
              \in [Action -> ActionRow]
        BY DEF TypeOK, ActionRow, ActionStatus
      <4>2. ASSUME NEW actions \in [Action -> ActionRow]
            PROVE  BlockLive(actions)[a].status \notin LiveAction
        BY DEF BlockLive, LiveAction, ActionRow
      <4> QED BY <2>1, <4>1, <4>2
    <3> QED BY <3>1 DEF IntactOf
  <2> QED BY <1>3, <1>5, <2>1 DEF Execute
<1> QED BY <1>3, <1>4, <1>5, PrepareIntact DEF ActionNext, ApproveBlocked, ExecuteBlocked

\* Every step keeps live actions intact.
LEMMA IntactStep ==
    ASSUME TypeOK, PlanSound, SeedSound, LiveActionIsIntact, [Next]_vars
    PROVE  LiveActionIsIntact'
<1> SUFFICES ASSUME NEW a \in Action
             PROVE  IntactOf(a)'
  BY DEF LiveActionIsIntact, IntactOf
<1>0. IntactOf(a) /\ action[a] \in ActionRow
  BY DEF LiveActionIsIntact, IntactOf, TypeOK
<1>1. CASE UNCHANGED vars
  BY <1>0, <1>1 DEF vars, IntactOf, Payable, Authorized, HasPermission, InForce
<1>2. CASE Reset
  BY <1>2 DEF Reset, NoAction, LiveAction, IntactOf
<1>3. CASE LoadMaya
  <2>1. ASSUME action[a].status \in LiveAction
        PROVE  action[a].obligation \notin DOMAIN SeedObligation
    BY <1>0, <1>3, <2>1 DEF IntactOf, Payable, SeedSound, LoadMaya
  <2>2. action' = action
    BY <1>3 DEF LoadMaya
  <2>3. ASSUME action[a].status \in LiveAction
        PROVE  obligation'[action[a].obligation] = obligation[action[a].obligation]
    BY <1>0, <1>3, <2>1, <2>3 DEF LoadMaya, ActionRow
  <2> QED BY <1>0, <1>3, <2>2, <2>3, LoadMayaAuthorizes, IntactKept
<1>4. CASE FundNext \/ ObligationNext
  <2>1. Invalidate
    BY <1>4 DEF FundNext, ObligationNext, AddFund, PatchFund, AddObligation,
                PatchObligation, VerifyBeneficiary, ExtractFlagged
  <2> QED BY <2>1, InvalidateIntact
<1>5. CASE PermissionNext
  <2>1. ASSUME NEW x, NEW f, NEW kind, GrantFunding(f, x, kind)
        PROVE  IntactOf(a)'
    BY <1>0, <2>1, AddRowAuthorizes, InvalidateIntact, IntactKept DEF GrantFunding
  <2>2. ASSUME NEW x, NEW o, GrantObligation(o, x)
        PROVE  IntactOf(a)'
    BY <1>0, <2>2, AddRowAuthorizes, IntactKept DEF GrantObligation
  <2>3. ASSUME NEW x, NEW p, GrantPlan(p, x)
        PROVE  IntactOf(a)'
    BY <1>0, <2>3, AddRowAuthorizes, IntactKept DEF GrantPlan
  <2>4. ASSUME NEW x, NEW b, GrantAction(b, x)
        PROVE  IntactOf(a)'
    BY <1>0, <2>4, AddRowAuthorizes, RefreshIntact DEF GrantAction
  <2>5. ASSUME NEW i \in Perm, Revoke(i)
        PROVE  IntactOf(a)'
    BY <1>0, <2>5, RevokeAuthorizes, RefreshIntact, InvalidateIntact DEF Revoke
  <2> QED BY <1>5, <2>1, <2>2, <2>3, <2>4, <2>5 DEF PermissionNext
<1>6. CASE PlanNext
  <2>1. UNCHANGED <<fund, obligation, perm, action>>
    BY <1>6 DEF PlanNext, GeneratePlan, ActivatePlan
  <2> QED BY <1>0, <2>1 DEF IntactOf, Payable, Authorized, HasPermission, InForce
<1>7. CASE ActionNext
  BY <1>0, <1>7, ActionStepIntact
<1> QED BY <1>1, <1>2, <1>3, <1>4, <1>5, <1>6, <1>7 DEF Next

\* invalidate: live actions stay intact, together with what that rests on, the
\* soundness of plans and of the seeded rows.
THEOREM IntactCorrect == Spec => [](PlanSound /\ SeedSound /\ LiveActionIsIntact)
<1>1. Init => PlanSound /\ SeedSound /\ LiveActionIsIntact
  BY SeedAssumption DEF Init, PlanSound, SeedSound, LiveActionIsIntact, LiveAction,
     NoPlan, NoAllocation, NoObligation, NoAction
<1>2. TypeOK /\ PlanSound /\ SeedSound /\ LiveActionIsIntact /\ [Next]_vars
        => PlanSound' /\ SeedSound' /\ LiveActionIsIntact'
  BY PlanSoundStep, SeedSoundStep, IntactStep
<1> QED BY <1>1, <1>2, TypeCorrect, PTL DEF Spec

\* invalidate: every change of the data, of a permission or of another payment
\* blocks the actions that await approval or execution, so those that are left
\* stand exactly as they were frozen.
THEOREM LiveActionsStayIntact == Spec => []LiveActionIsIntact
  BY IntactCorrect, PTL

-----------------------------------------------------------------------------
(* The payment flow implements ConsentedPayments *)

\* How a row may look after a step that only gives requests up.
Dropped(a) ==
    \/ RequestOf(action'[a]) = RequestOf(action[a])
    \/ /\ RequestOf(action[a]).phase = "open"
       /\ RequestOf(action'[a]) = [RequestOf(action[a]) EXCEPT !.phase = "dead"]

Incurred(o) ==
    \/ DebtOf(obligation'[o]) = DebtOf(obligation[o])
    \/ DebtOf(obligation[o]) = "none" /\ DebtOf(obligation'[o]) = "due"

\* A change of debts that settles none, and of requests that drops some, is allowed.
LEMMA ChangeStep ==
    ASSUME \A a \in Action : Dropped(a), \A o \in Obligation : Incurred(o)
    PROVE  Promise!Change
<1> DEFINE D == {o \in Obligation : DebtOf(obligation[o]) = "none"
                                    /\ DebtOf(obligation'[o]) = "due"}
           R == {a \in Action : RequestOf(action[a]).phase = "open"
                                /\ RequestOf(action'[a])
                                     = [RequestOf(action[a]) EXCEPT !.phase = "dead"]}
<1>1. D \in SUBSET {o \in Obligation : DebtView[o] = "none"}
  BY DEF DebtView
<1>2. R \in SUBSET {a \in Action : RequestView[a].phase = "open"}
  BY DEF RequestView
<1>3. DebtView' = [o \in Obligation |-> IF o \in D THEN "due" ELSE DebtView[o]]
  <2>1. \A o \in Obligation :
          DebtOf(obligation'[o]) = IF o \in D THEN "due" ELSE DebtOf(obligation[o])
    BY DEF Incurred
  <2>2. DebtView' = [o \in Obligation |-> DebtOf(obligation'[o])]
    BY DEF DebtView, DebtOf
  <2> HIDE DEF D
  <2> QED BY <2>1, <2>2 DEF DebtView
<1>4. RequestView' = [a \in Action |->
          IF a \in R THEN [RequestView[a] EXCEPT !.phase = "dead"] ELSE RequestView[a]]
  <2>1. \A a \in Action :
          RequestOf(action'[a]) = IF a \in R THEN [RequestOf(action[a]) EXCEPT !.phase = "dead"]
                                  ELSE RequestOf(action[a])
    BY DEF Dropped
  <2>2. RequestView' = [a \in Action |-> RequestOf(action'[a])]
    BY DEF RequestView, RequestOf, PhaseOf
  <2> HIDE DEF R
  <2> QED BY <2>1, <2>2 DEF RequestView
<1> HIDE DEF D, R
<1> QED BY <1>1, <1>2, <1>3, <1>4 DEF Promise!Change, Promise!Drop

\* Blocking an action changes the phase of its request only.
LEMMA RequestWithPhase ==
    ASSUME NEW row, NEW next,
           next.obligation = row.obligation,
           next.alloc = row.alloc,
           next.approvals = row.approvals
    PROVE  RequestOf(next) = [RequestOf(row) EXCEPT !.phase = PhaseOf(next)]
  BY DEF RequestOf

\* Actions that become blocked are dropped requests.
LEMMA BlockedDropped ==
    ASSUME TypeOK, NEW a \in Action,
           \/ action'[a] = action[a]
           \/ /\ action[a].status # "NONE"
              /\ action'[a] = [action[a] EXCEPT !.status = "BLOCKED"]
    PROVE  Dropped(a)
<1>1. CASE action'[a] = action[a]
  BY <1>1 DEF Dropped
<1>2. CASE /\ action[a].status # "NONE"
           /\ action'[a] = [action[a] EXCEPT !.status = "BLOCKED"]
  <2>1. action[a] \in ActionRow
    BY DEF TypeOK
  <2>2. /\ action'[a].status = "BLOCKED"
        /\ action'[a].obligation = action[a].obligation
        /\ action'[a].alloc = action[a].alloc
        /\ action'[a].approvals = action[a].approvals
        /\ action'[a].executed = action[a].executed
    BY <1>2, <2>1 DEF ActionRow
  <2>3. CASE action[a].status \in LiveAction /\ ~action[a].executed
    <3>1. PhaseOf(action[a]) = "open" /\ PhaseOf(action'[a]) = "dead"
      BY <2>2, <2>3 DEF PhaseOf, LiveAction
    <3> QED BY <2>2, <3>1 DEF Dropped, RequestOf
  <2>4. CASE ~(action[a].status \in LiveAction /\ ~action[a].executed)
    <3>1. PhaseOf(action'[a]) = PhaseOf(action[a])
      BY <1>2, <2>2, <2>4 DEF PhaseOf, LiveAction
    <3> QED BY <2>2, <3>1 DEF Dropped, RequestOf
  <2> QED BY <2>3, <2>4
<1> QED BY <1>1, <1>2

\* invalidate drops requests.
LEMMA InvalidateDropped ==
    ASSUME TypeOK, Invalidate, NEW a \in Action
    PROVE  Dropped(a)
  BY BlockLiveRows, BlockedDropped DEF Invalidate, TypeOK

\* A new set of approvals is a step of consent.
LEMMA ConsentStep ==
    ASSUME TypeOK, ApprovalInv, UNCHANGED obligation, NEW b \in Action,
           action[b].status \in LiveAction, NEW approvals \in SUBSET Actor,
           \A a \in Action : a # b => action'[a] = action[a],
           /\ action'[b].status \in LiveAction
           /\ action'[b].obligation = action[b].obligation
           /\ action'[b].alloc = action[b].alloc
           /\ action'[b].executed = action[b].executed
           /\ action'[b].approvals = approvals
    PROVE  Promise!Consent(b)
<1>1. ~action[b].executed
  BY DEF ApprovalInv, ApprovalOf
<1>2. RequestView[b].phase = "open"
  BY <1>1 DEF RequestView, RequestOf, PhaseOf
<1>3. RequestOf(action'[b]) = [RequestOf(action[b]) EXCEPT !.consent = approvals]
  BY <1>1 DEF RequestOf, PhaseOf
<1>4. RequestView' = [a \in Action |-> RequestOf(action'[a])]
  BY DEF RequestView, RequestOf, PhaseOf
<1>5. RequestView' = [RequestView EXCEPT ![b].consent = approvals]
  BY <1>3, <1>4 DEF RequestView
<1>6. DebtView' = DebtView
  BY DEF DebtView, DebtOf
<1> QED BY <1>2, <1>5, <1>6 DEF Promise!Consent

\* refresh_action_approvers withdraws consent.
LEMMA RefreshConsents ==
    ASSUME TypeOK, ApprovalInv, UNCHANGED obligation, NEW b \in Action,
           RefreshActionApprovers(b)
    PROVE  Promise!Consent(b)
<1>1. action[b] \in ActionRow
  BY DEF TypeOK
<1>2. action'[b] = [action[b] EXCEPT !.required = action[b].base \cup Delegates(b, perm'),
                                     !.approvals = {}, !.status = "PREPARED"]
  BY DEF RefreshActionApprovers, TypeOK
<1>3. /\ action'[b].status = "PREPARED"
      /\ action'[b].obligation = action[b].obligation
      /\ action'[b].alloc = action[b].alloc
      /\ action'[b].executed = action[b].executed
      /\ action'[b].approvals = {}
  BY <1>1, <1>2 DEF ActionRow
<1>4. \A a \in Action : a # b => action'[a] = action[a]
  BY DEF RefreshActionApprovers, TypeOK
<1> QED BY <1>3, <1>4, ConsentStep DEF RefreshActionApprovers, LiveAction

\* approve gives consent.
LEMMA ApproveConsents ==
    ASSUME TypeOK, ApprovalInv, NEW b \in Action, NEW x \in Actor, Approve(b, x)
    PROVE  Promise!Consent(b)
<1>1. action[b] \in ActionRow
  BY DEF TypeOK
<1>2. /\ action'[b].status \in {action[b].status, "APPROVED"}
      /\ action'[b].obligation = action[b].obligation
      /\ action'[b].alloc = action[b].alloc
      /\ action'[b].executed = action[b].executed
      /\ action'[b].approvals = action[b].approvals \cup {x}
  BY <1>1 DEF Approve, TypeOK, ActionRow
<1>3. \A a \in Action : a # b => action'[a] = action[a]
  BY DEF Approve, TypeOK
<1>4. action[b].approvals \cup {x} \in SUBSET Actor
  BY <1>1 DEF ActionRow
<1> QED BY <1>2, <1>3, <1>4, ConsentStep DEF Approve, LiveAction

\* prepare proposes a request that asks everyone whose money it takes.
LEMMA PrepareProposes ==
    ASSUME TypeOK, ApprovalInv, NEW b \in Action, NEW p \in Plan, NEW o \in Obligation,
           Prepare(b, p, o)
    PROVE  Promise!Propose(b)
<1> DEFINE payers == SourceOwners(action'[b].alloc) \cup {Student}
<1>1. RequestView[b].phase = "none"
  BY DEF Prepare, ApprovalInv, ApprovalOf, RequestView, RequestOf, PhaseOf, LiveAction
<1>2. DebtView[o] = "due"
  BY DEF Prepare, PaymentAllowed, Payable, DebtView, DebtOf
<1>3. payers \in SUBSET Actor
  BY OwnerAssumption DEF SourceOwners, Actor
<1>4. /\ action'[b].status = "PREPARED"
      /\ action'[b].obligation = o
      /\ action'[b].approvals = {}
      /\ action'[b].executed = FALSE
  BY DEF Prepare, TypeOK
<1>5. \A a \in Action : a # b => action'[a] = action[a]
  BY DEF Prepare, TypeOK
<1>6. RequestOf(action'[b]) = [phase |-> "open", debt |-> o, payers |-> payers, consent |-> {}]
  BY <1>4 DEF RequestOf, PhaseOf, LiveAction
<1>7. RequestView' = [a \in Action |-> RequestOf(action'[a])]
  BY DEF RequestView, RequestOf, PhaseOf
<1> HIDE DEF payers
<1>8. RequestView' = [RequestView EXCEPT ![b] =
          [phase |-> "open", debt |-> o, payers |-> payers, consent |-> {}]]
  BY <1>5, <1>6, <1>7 DEF RequestView
<1>9. DebtView' = DebtView
  BY DEF Prepare, DebtView, DebtOf
<1> QED BY <1>1, <1>2, <1>3, <1>8, <1>9 DEF Promise!Propose

\* execute settles a debt that is due, with the consent of its payers.
LEMMA ExecuteSettles ==
    ASSUME TypeOK, ApprovalInv, LiveActionIsIntact, NEW b \in Action, MayExecute(b),
           obligation' = [obligation EXCEPT ![action[b].obligation].status = "SANDBOX_PAID"],
           action' = BlockLive([action EXCEPT ![b] =
                       [@ EXCEPT !.status = "EXECUTED", !.executed = TRUE]])
    PROVE  Promise!Settle(b)
<1> DEFINE o == action[b].obligation
           done == [action EXCEPT ![b] = [@ EXCEPT !.status = "EXECUTED", !.executed = TRUE]]
<1>1. /\ action[b] \in ActionRow
      /\ ApprovalOf(b)
      /\ o \in Obligation
      /\ obligation[o] \in ObligationRow
  BY DEF TypeOK, ApprovalInv, ActionRow
<1>2. /\ ~action[b].executed
      /\ action[b].status = "APPROVED"
      /\ action[b].required \subseteq action[b].approvals
  BY DEF MayExecute
<1>3. Payable(obligation[o])
  BY <1>2 DEF LiveActionIsIntact, LiveAction
<1>4. /\ RequestView[b].phase = "open"
      /\ RequestView[b].debt = o
      /\ RequestView[b].payers \subseteq RequestView[b].consent
  <2>1. SourceOwners(action[b].alloc) \cup {Student} \subseteq action[b].approvals
    BY <1>1, <1>2 DEF ApprovalOf
  <2> QED BY <1>2, <2>1 DEF RequestView, RequestOf, PhaseOf, LiveAction
<1>5. DebtView[o] = "due"
  BY <1>1, <1>3 DEF DebtView, DebtOf, Payable
<1>6. DebtView' = [DebtView EXCEPT ![o] = "settled"]
  <2>1. DebtView' = [q \in Obligation |-> DebtOf(obligation'[q])]
    BY DEF DebtView, DebtOf
  <2>2. \A q \in Obligation : q # o => obligation'[q] = obligation[q]
    BY DEF TypeOK
  <2>3. obligation'[o].status = "SANDBOX_PAID"
    BY <1>1 DEF TypeOK, ObligationRow
  <2>4. DebtOf(obligation'[o]) = "settled"
    BY <2>3 DEF DebtOf
  <2>5. \A q \in Obligation :
          DebtOf(obligation'[q]) = IF q = o THEN "settled" ELSE DebtView[q]
    BY <2>2, <2>4 DEF DebtView
  <2> HIDE DEF o
  <2> QED BY <1>1, <2>1, <2>5 DEF DebtView
<1>7. RequestView' = [a \in Action |->
          IF a = b THEN [RequestView[a] EXCEPT !.phase = "paid"]
          ELSE IF RequestView[a].phase = "open"
          THEN [RequestView[a] EXCEPT !.phase = "dead"] ELSE RequestView[a]]
  <2>1. RequestView' = [a \in Action |-> RequestOf(action'[a])]
    BY DEF RequestView, RequestOf, PhaseOf
  <2>2. RequestOf(action'[b]) = [RequestOf(action[b]) EXCEPT !.phase = "paid"]
    <3>1. done[b] = [action[b] EXCEPT !.status = "EXECUTED", !.executed = TRUE]
      BY DEF TypeOK
    <3>2. /\ done[b].status = "EXECUTED"
          /\ done[b].executed = TRUE
          /\ done[b].obligation = action[b].obligation
          /\ done[b].alloc = action[b].alloc
          /\ done[b].approvals = action[b].approvals
      BY <1>1, <3>1 DEF ActionRow
    <3>3. action'[b] = done[b]
      BY <3>2 DEF BlockLive, LiveAction
    <3> HIDE DEF done
    <3>4. PhaseOf(action'[b]) = "paid"
      BY <3>2, <3>3 DEF PhaseOf
    <3>5. /\ action'[b].obligation = action[b].obligation
          /\ action'[b].alloc = action[b].alloc
          /\ action'[b].approvals = action[b].approvals
      BY <3>2, <3>3
    <3> QED BY <3>4, <3>5, RequestWithPhase
  <2>3. ASSUME NEW a \in Action, a # b
        PROVE  RequestOf(action'[a]) =
                 IF RequestOf(action[a]).phase = "open"
                 THEN [RequestOf(action[a]) EXCEPT !.phase = "dead"]
                 ELSE RequestOf(action[a])
    <3>1. action[a] \in ActionRow /\ ApprovalOf(a)
      BY DEF TypeOK, ApprovalInv
    <3>2. done[a] = action[a]
      BY <2>3 DEF TypeOK
    <3>3. CASE action[a].status \in LiveAction
      <4>1. action'[a] = [action[a] EXCEPT !.status = "BLOCKED"]
        BY <3>2, <3>3 DEF BlockLive
      <4>2. /\ action'[a].status = "BLOCKED"
            /\ action'[a].executed = action[a].executed
            /\ action'[a].obligation = action[a].obligation
            /\ action'[a].alloc = action[a].alloc
            /\ action'[a].approvals = action[a].approvals
        BY <3>1, <4>1 DEF ActionRow
      <4>3. ~action[a].executed
        BY <3>1, <3>3 DEF ApprovalOf
      <4> QED BY <3>3, <4>2, <4>3 DEF RequestOf, PhaseOf, LiveAction
    <3>4. CASE action[a].status \notin LiveAction
      <4>1. action'[a] = action[a]
        BY <3>2, <3>4 DEF BlockLive
      <4>2. RequestOf(action[a]).phase # "open"
        BY <3>4 DEF RequestOf, PhaseOf
      <4> QED BY <4>1, <4>2
    <3> QED BY <3>3, <3>4
  <2> HIDE DEF done
  <2> QED BY <2>1, <2>2, <2>3 DEF RequestView
<1> HIDE DEF o, done
<1> QED BY <1>4, <1>5, <1>6, <1>7 DEF Promise!Settle

\* Edits of obligations incur debts and drop requests.
LEMMA ObligationStepIncurs ==
    ASSUME TypeOK, ObligationNext, NEW q \in Obligation
    PROVE  Incurred(q)
<1>0. obligation[q] \in ObligationRow
  BY DEF TypeOK
<1>1. ASSUME NEW o \in Obligation, NEW amount, NEW b, AddObligation(o, amount, b)
      PROVE  Incurred(q)
  BY <1>1 DEF AddObligation, TypeOK, Incurred, DebtOf
<1>2. ASSUME NEW o \in Obligation, obligation[o].status # "NONE",
             \A r \in Obligation : obligation'[r].status = obligation[r].status
      PROVE  Incurred(q)
  BY <1>2 DEF Incurred, DebtOf
<1>3. ASSUME NEW o \in Obligation, NEW amount, PatchObligation(o, amount)
      PROVE  Incurred(q)
  BY <1>2, <1>3 DEF PatchObligation, TypeOK, ObligationRow
<1>4. ASSUME NEW o \in Obligation, NEW b, VerifyBeneficiary(o, b)
      PROVE  Incurred(q)
  BY <1>2, <1>4 DEF VerifyBeneficiary, TypeOK, ObligationRow
<1>5. ASSUME NEW o \in Obligation, NEW sets, ExtractFlagged(o, sets)
      PROVE  Incurred(q)
  BY <1>2, <1>5 DEF ExtractFlagged, TypeOK, ObligationRow
<1> QED BY <1>1, <1>3, <1>4, <1>5 DEF ObligationNext

\* Every step of the payment flow is a step of the promise.
LEMMA PromiseStep ==
    ASSUME TypeOK, ApprovalInv, SeedSound, LiveActionIsIntact, [Next]_vars
    PROVE  [Promise!PromiseNext]_(Promise!promiseVars)
<1>1. CASE UNCHANGED vars
  <2>1. DebtView' = DebtView /\ RequestView' = RequestView
    BY <1>1 DEF vars, DebtView, DebtOf, RequestView, RequestOf, PhaseOf
  <2> QED BY <2>1 DEF Promise!promiseVars
<1>2. CASE Reset
  <2>1. DebtView' = [o \in Obligation |-> "none"]
    BY <1>2 DEF Reset, DebtView, DebtOf, NoObligation
  <2>2. RequestOf(NoAction) \in Promise!RequestRow /\ RequestOf(NoAction).phase = "none"
    <3>1. NoAction.obligation \in Obligation /\ NoAction.approvals = {}
      BY NonEmptyAssumption DEF NoAction
    <3>2. SourceOwners(NoAction.alloc) \cup {Student} \in SUBSET Actor
      BY OwnerAssumption DEF SourceOwners, Actor
    <3>3. PhaseOf(NoAction) = "none"
      BY DEF PhaseOf, NoAction, LiveAction
    <3> QED BY <3>1, <3>2, <3>3 DEF RequestOf, Promise!RequestRow, Promise!Phase
  <2>3. RequestView' = [a \in Action |-> RequestOf(NoAction)]
    BY <1>2 DEF Reset, RequestView, RequestOf, PhaseOf
  <2> QED BY <2>1, <2>2, <2>3 DEF Promise!StartOver, Promise!PromiseNext
<1>3. CASE LoadMaya
  <2>1. \A a \in Action : Dropped(a)
    BY <1>3 DEF LoadMaya, Dropped
  <2>2. \A o \in Obligation : Incurred(o)
    <3>1. \A o \in DOMAIN SeedObligation : SeedObligation[o].status = "OPEN"
      BY SeedAssumption
    <3>2. \A o \in DOMAIN SeedObligation : obligation[o].status = "NONE"
      BY <1>3 DEF LoadMaya, SeedSound
    <3> QED BY <1>3, <3>1, <3>2 DEF LoadMaya, Incurred, DebtOf
  <2> QED BY <2>1, <2>2, ChangeStep DEF Promise!PromiseNext
<1>4. CASE FundNext \/ ObligationNext
  <2>1. Invalidate
    BY <1>4 DEF FundNext, ObligationNext, AddFund, PatchFund, AddObligation,
                PatchObligation, VerifyBeneficiary, ExtractFlagged
  <2>2. \A o \in Obligation : Incurred(o)
    BY <1>4, ObligationStepIncurs DEF FundNext, AddFund, PatchFund, Incurred
  <2> QED BY <2>1, <2>2, InvalidateDropped, ChangeStep DEF Promise!PromiseNext
<1>5. CASE PermissionNext
  <2>1. UNCHANGED obligation
    BY <1>5 DEF PermissionNext, GrantFunding, GrantObligation, GrantPlan, GrantAction, Revoke
  <2>2. \/ Invalidate
        \/ UNCHANGED action
        \/ \E b : RefreshActionApprovers(b)
    BY <1>5 DEF PermissionNext, GrantFunding, GrantObligation, GrantPlan, GrantAction, Revoke
  <2>3. \A o \in Obligation : Incurred(o)
    BY <2>1 DEF Incurred
  <2>4. CASE Invalidate \/ UNCHANGED action
    BY <2>3, <2>4, InvalidateDropped, BlockedDropped, ChangeStep DEF Promise!PromiseNext
  <2>5. ASSUME NEW b, RefreshActionApprovers(b)
        PROVE  Promise!PromiseNext
    <3>1. CASE b \in Action
      BY <2>1, <2>5, <3>1, RefreshConsents DEF Promise!PromiseNext
    <3>2. CASE b \notin Action
      <4>1. \A a \in Action : action'[a] = action[a]
        BY <2>5, <3>2 DEF RefreshActionApprovers, TypeOK
      <4> QED BY <2>3, <4>1, BlockedDropped, ChangeStep DEF Promise!PromiseNext
    <3> QED BY <3>1, <3>2
  <2> QED BY <2>2, <2>4, <2>5
<1>6. CASE PlanNext
  <2>1. UNCHANGED <<obligation, action>>
    BY <1>6 DEF PlanNext, GeneratePlan, ActivatePlan
  <2> QED BY <2>1, BlockedDropped, ChangeStep DEF Incurred, Promise!PromiseNext
<1>7. CASE ActionNext
  <2>1. ASSUME NEW b \in Action, action[b].status # "NONE", UNCHANGED obligation,
               action' = [action EXCEPT ![b].status = "BLOCKED"]
        PROVE  Promise!PromiseNext
    <3>1. \A a \in Action : Dropped(a)
      BY <2>1, BlockedDropped DEF TypeOK
    <3> QED BY <2>1, <3>1, ChangeStep DEF Incurred, Promise!PromiseNext
  <2>2. ASSUME NEW b \in Action, ExecuteBlocked(b)
        PROVE  Promise!PromiseNext
    BY <2>1, <2>2 DEF ExecuteBlocked, MayExecute
  <2>3. ASSUME NEW b \in Action, Execute(b)
        PROVE  Promise!PromiseNext
    BY <2>1, <2>3, ExecuteSettles DEF Execute, MayExecute, Promise!PromiseNext
  <2>4. ASSUME NEW b \in Action, NEW x \in Actor, ApproveBlocked(b, x)
        PROVE  Promise!PromiseNext
    BY <2>1, <2>4 DEF ApproveBlocked
  <2> QED BY <1>7, <2>2, <2>3, <2>4, PrepareProposes, ApproveConsents
          DEF ActionNext, Promise!PromiseNext
<1> QED BY <1>1, <1>2, <1>3, <1>4, <1>5, <1>6, <1>7 DEF Next, Promise!PromiseNext

\* The payment flow starts where the promise starts.
LEMMA PromiseStart == Init => Promise!PromiseInit
<1> SUFFICES ASSUME Init PROVE Promise!PromiseInit
  OBVIOUS
<1>1. DebtView = [o \in Obligation |-> "none"]
  BY DEF Init, DebtView, DebtOf, NoObligation
<1>2. PhaseOf(NoAction) = "none"
  BY DEF PhaseOf, NoAction, LiveAction
<1>3. RequestOf(NoAction) \in Promise!RequestRow
  <2>1. NoAction.obligation \in Obligation /\ NoAction.approvals = {}
    BY NonEmptyAssumption DEF NoAction
  <2>2. SourceOwners(NoAction.alloc) \cup {Student} \in SUBSET Actor
    BY OwnerAssumption DEF SourceOwners, Actor
  <2> QED BY <1>2, <2>1, <2>2 DEF RequestOf, Promise!RequestRow, Promise!Phase
<1>4. RequestView = [a \in Action |-> RequestOf(NoAction)]
  BY DEF Init, RequestView
<1> QED BY <1>1, <1>2, <1>3, <1>4 DEF Promise!PromiseInit, RequestOf

\* The payment flow implements the promise: every payment is made for a debt that
\* is due, once, and with the consent of everyone whose money it takes.
THEOREM PromiseKept == Spec => KeepsPromise
<1>1. TypeOK /\ ApprovalInv /\ SeedSound /\ LiveActionIsIntact /\ [Next]_vars
        => [Promise!PromiseNext]_(Promise!promiseVars)
  BY PromiseStep
<1>2. Spec => [](TypeOK /\ ApprovalInv /\ SeedSound /\ LiveActionIsIntact)
  BY TypeCorrect, ApprovalCorrect, IntactCorrect, PTL
<1> QED BY <1>1, <1>2, PromiseStart, PTL DEF Spec, KeepsPromise, Promise!PromiseSpec

\* execute: no obligation is ever paid by two actions.
THEOREM NeverPaidTwice == Spec => []NoDoublePayment
  BY PromiseKept, Promise!PaidOnceHolds, PTL DEF KeepsPromise, NoDoublePayment

-----------------------------------------------------------------------------
(* A state never returns while a hash of it is kept *)

\* Without an invalidation a source the student sees only loses money (a refused
\* execution), and one she did not see may appear (shared, or seeded).
SourceBefore(s, t) ==
    \/ s = t
    \/ s.status = "HIDDEN" /\ t.status # "HIDDEN"
    \/ /\ s.status # "HIDDEN"
       /\ t.status = s.status
       /\ t.amount < s.amount

DebtBefore(s, t) == s = t \/ (s.status = "NONE" /\ t.status # "NONE")

Before(s, t) ==
    /\ \A f \in Fund : SourceBefore(s.funding[f], t.funding[f])
    /\ \A o \in Obligation : DebtBefore(s.obligations[o], t.obligations[o])

\* What is live was built on an earlier or the present state.
RowsBefore ==
    /\ \A a \in Action : action[a].status \in LiveAction =>
          Before(action[a].hash, FinancialState)
    /\ \A p \in Plan : plan[p].status \in LivePlan =>
          Before(plan[p].hash, FinancialState)

\* Before is a partial order of the states: every state is before itself.
LEMMA BeforeReflexive == \A s : Before(s, s)
  BY DEF Before, SourceBefore, DebtBefore

\* Before is transitive: a source cannot come back in between.
LEMMA BeforeTransitive ==
    ASSUME NEW r \in State, NEW s \in State, NEW t \in State, Before(r, s), Before(s, t)
    PROVE  Before(r, t)
<1>1. ASSUME NEW f \in Fund
      PROVE  SourceBefore(r.funding[f], t.funding[f])
  <2>1. /\ r.funding[f] \in SourceView
        /\ s.funding[f] \in SourceView
        /\ t.funding[f] \in SourceView
    BY DEF State
  <2>2. SourceBefore(r.funding[f], s.funding[f]) /\ SourceBefore(s.funding[f], t.funding[f])
    BY DEF Before
  <2> QED BY <2>1, <2>2 DEF SourceBefore, SourceView
<1>2. ASSUME NEW o \in Obligation
      PROVE  DebtBefore(r.obligations[o], t.obligations[o])
  BY DEF Before, DebtBefore
<1> QED BY <1>1, <1>2 DEF Before

\* Two states before each other are the same.
LEMMA BeforeAntisymmetric ==
    ASSUME NEW s \in State, NEW t \in State, Before(s, t), Before(t, s)
    PROVE  s = t
<1>1. ASSUME NEW f \in Fund
      PROVE  s.funding[f] = t.funding[f]
  <2>1. s.funding[f] \in SourceView /\ t.funding[f] \in SourceView
    BY DEF State
  <2>2. SourceBefore(s.funding[f], t.funding[f]) /\ SourceBefore(t.funding[f], s.funding[f])
    BY DEF Before
  <2> QED BY <2>1, <2>2 DEF SourceBefore, SourceView
<1>2. ASSUME NEW o \in Obligation
      PROVE  s.obligations[o] = t.obligations[o]
  BY DEF Before, DebtBefore
<1>3. /\ s.funding \in [Fund -> SourceView]
      /\ t.funding \in [Fund -> SourceView]
      /\ s.obligations \in [Obligation -> ObligationRow]
      /\ t.obligations \in [Obligation -> ObligationRow]
  BY DEF State
<1>4. s.funding = t.funding
  BY <1>1, <1>3
<1>5. s.obligations = t.obligations
  BY <1>2, <1>3
<1> QED BY <1>4, <1>5 DEF State

\* A step either retires what was live and keeps what it makes on the new state ...
RetiredAction(a) ==
    action'[a].status \in LiveAction =>
        action[a].status \notin LiveAction /\ action'[a].hash = FinancialState'
RetiredPlan(p) ==
    plan'[p].status \in LivePlan =>
        plan[p].status \notin LivePlan /\ plan'[p].hash = FinancialState'
Retired == /\ \A a \in Action : RetiredAction(a)
           /\ \A p \in Plan : RetiredPlan(p)

\* ... or keeps what is live, while the state only moves on.
KeptAction(a) ==
    action'[a].status \in LiveAction =>
        \/ action[a].status \in LiveAction /\ action'[a].hash = action[a].hash
        \/ action[a].status \notin LiveAction /\ action'[a].hash = FinancialState'
KeptPlan(p) ==
    plan'[p].status \in LivePlan =>
        \/ plan[p].status \in LivePlan /\ plan'[p].hash = plan[p].hash
        \/ plan[p].status \notin LivePlan /\ plan'[p].hash = FinancialState'
KeptActions == \A a \in Action : KeptAction(a)
KeptPlans == \A p \in Plan : KeptPlan(p)
Kept == Before(FinancialState, FinancialState') /\ KeptActions /\ KeptPlans

\* generate keeps the other plans and makes one of the new state.
LEMMA GenerateKeeps ==
    ASSUME NEW plans \in [Plan -> PlanRow], Generate(plans), NEW p \in Plan
    PROVE  \/ plan'[p] = plans[p]
           \/ plans[p].status = "NONE" /\ plan'[p].hash = FinancialState'
<1>1. PICK q \in Plan, s \in {FinancialState'} :
        /\ NextVersion(plans, q)
        /\ \E x \in Allocations(s) :
              plan' = [plans EXCEPT ![q] =
                [status |-> IF Feasible(s, x) THEN "DRAFT" ELSE "FAILED",
                 hash |-> s, alloc |-> x]]
  BY DEF Generate
<1>2. PICK x \in Allocations(s) :
        plan' = [plans EXCEPT ![q] =
          [status |-> IF Feasible(s, x) THEN "DRAFT" ELSE "FAILED",
           hash |-> s, alloc |-> x]]
  BY <1>1
<1>3. plans[q].status = "NONE"
  BY <1>1 DEF NextVersion
<1>4. CASE p = q
  <2>1. plan'[p].hash = s
    BY <1>2, <1>4
  <2> QED BY <1>3, <1>4, <2>1
<1>5. CASE p # q
  BY <1>2, <1>5
<1> QED BY <1>4, <1>5

\* Retiring the live plans and generating one leaves one of the new state.
LEMMA RetireLiveRetires ==
    ASSUME TypeOK, Generate(RetireLive(plan)), NEW p \in Plan
    PROVE  RetiredPlan(p)
<1>1. plan[p] \in PlanRow
  BY DEF TypeOK
<1>2. /\ plan[p].status \in LivePlan => RetireLive(plan)[p].status = "STALE"
      /\ plan[p].status \notin LivePlan => RetireLive(plan)[p] = plan[p]
  BY <1>1 DEF RetireLive, PlanRow
<1>3. \/ plan'[p] = RetireLive(plan)[p]
      \/ RetireLive(plan)[p].status = "NONE" /\ plan'[p].hash = FinancialState'
  BY RetireLiveType, GenerateKeeps DEF TypeOK
<1> QED BY <1>2, <1>3 DEF RetiredPlan, LivePlan

\* invalidate retires every live row.
LEMMA InvalidateRetires ==
    ASSUME TypeOK, Invalidate
    PROVE  Retired
<1>1. ASSUME NEW a \in Action
      PROVE  RetiredAction(a)
  BY DEF RetiredAction, Invalidate, BlockLive, LiveAction, TypeOK, ActionRow
<1>2. ASSUME NEW p \in Plan
      PROVE  RetiredPlan(p)
  BY RetireLiveRetires DEF Invalidate, RetiredPlan
<1> QED BY <1>1, <1>2 DEF Retired

\* refresh_action_approvers leaves the hash of the action as it was.
LEMMA RefreshKeeps ==
    ASSUME TypeOK, NEW b, RefreshActionApprovers(b)
    PROVE  KeptActions /\ KeptPlans
<1>1. ASSUME NEW a \in Action
      PROVE  KeptAction(a)
  <2>1. action[a] \in ActionRow
    BY DEF TypeOK
  <2>2. CASE a # b
    BY <2>2 DEF RefreshActionApprovers, TypeOK, KeptAction
  <2>3. CASE a = b
    <3>1. /\ action[a].status \in LiveAction
          /\ action'[a] = [action[a] EXCEPT
                !.required = action[a].base \cup Delegates(a, perm'),
                !.approvals = {}, !.status = "PREPARED"]
      BY <2>3 DEF RefreshActionApprovers, TypeOK
    <3> QED BY <2>1, <3>1 DEF KeptAction, ActionRow
  <2> QED BY <2>2, <2>3
<1> QED BY <1>1 DEF RefreshActionApprovers, KeptActions, KeptPlans, KeptPlan

\* Rows that stay as they are are kept.
LEMMA SameRowsKept ==
    /\ UNCHANGED action => KeptActions
    /\ UNCHANGED plan => KeptPlans
  BY DEF KeptActions, KeptAction, KeptPlans, KeptPlan

-----------------------------------------------------------------------------

\* The student's view of a source depends on its row and two permissions.
LEMMA SourceRow ==
    ASSUME NEW f \in Fund, Visible(f)' <=> Visible(f), Authorized(f)' <=> Authorized(f)
    PROVE  FinancialState'.funding[f] =
              IF Visible(f)
              THEN [amount |-> fund'[f].amount, reserve |-> fund'[f].reserve,
                    status |-> fund'[f].status, authorized |-> Authorized(f)]
              ELSE HiddenSource
<1>1. Authorized(f)' = Authorized(f)
  BY DEF Authorized, HasPermission, InForce
<1>2. FinancialState'.funding[f] =
        IF Visible(f)'
        THEN [amount |-> fund'[f].amount, reserve |-> fund'[f].reserve,
              status |-> fund'[f].status, authorized |-> Authorized(f)']
        ELSE HiddenSource
  BY DEF FinancialState, HiddenSource
<1> QED BY <1>1, <1>2

\* Nothing the student sees depends on permissions to approve a plan or an action.
LEMMA OtherPermissions ==
    ASSUME UNCHANGED <<fund, obligation>>,
           \A i \in Perm : /\ perm'[i] # perm[i] => perm[i].kind \in {"NONE", "APPROVE_ACTION"}
                           /\ perm'[i] # perm[i] => perm'[i].kind \in
                                 {"VIEW_SHARED_OBLIGATION", "APPROVE_PLAN", "APPROVE_ACTION"}
    PROVE  FinancialState' = FinancialState
<1>1. ASSUME NEW kind \in {"VIEW_OWN_CONTRIBUTION", "APPROVE_OWN_FUNDS"}, NEW f \in Fund
      PROVE  HasPermission(Student, kind, f)' <=> HasPermission(Student, kind, f)
  <2>1. ASSUME NEW i \in Perm
        PROVE  InForce(i, kind, f, Student)' <=> InForce(i, kind, f, Student)
    <3>1. CASE perm'[i] = perm[i]
      BY <3>1 DEF InForce
    <3>2. CASE perm'[i] # perm[i]
      <4>1. perm[i].kind # kind /\ perm'[i].kind # kind
        BY <3>2
      <4> QED BY <4>1 DEF InForce
    <3> QED BY <3>1, <3>2
  <2> QED BY <2>1 DEF HasPermission
<1>2. \A f \in Fund : (Visible(f)' <=> Visible(f)) /\ (Authorized(f)' <=> Authorized(f))
  BY <1>1 DEF Visible, Authorized
<1>3. \A f \in Fund : FinancialState'.funding[f] = FinancialState.funding[f]
  BY <1>2, SourceRow DEF FinancialState
<1> DEFINE sources == [f \in Fund |-> FinancialState.funding[f]]
<1>4. FinancialState = [funding |-> sources, obligations |-> obligation]
  BY DEF FinancialState
<1>5. FinancialState' =
        [funding |-> [f \in Fund |-> FinancialState'.funding[f]], obligations |-> obligation']
  BY DEF FinancialState
<1> QED BY <1>3, <1>4, <1>5

\* A row for another kind of permission.
LEMMA AddRowStays ==
    ASSUME TypeOK, UNCHANGED <<fund, obligation>>, NEW resource, NEW x,
           NEW kind \in {"VIEW_SHARED_OBLIGATION", "APPROVE_PLAN", "APPROVE_ACTION"},
           AddRow(kind, resource, x)
    PROVE  FinancialState' = FinancialState
<1>1. PICK i \in Perm :
        /\ perm[i].kind = "NONE"
        /\ perm' = [perm EXCEPT ![i] = [kind |-> kind, resource |-> resource,
                                        target |-> x, revoked |-> FALSE]]
  BY DEF AddRow
<1>2. \A j \in Perm : j # i => perm'[j] = perm[j]
  BY <1>1 DEF TypeOK
<1>3. perm'[i].kind = kind
  BY <1>1 DEF TypeOK
<1> QED BY <1>1, <1>2, <1>3, OtherPermissions

\* Revoking a delegation.
LEMMA RevokeStays ==
    ASSUME TypeOK, NEW i \in Perm, Revoke(i), perm[i].kind = "APPROVE_ACTION"
    PROVE  FinancialState' = FinancialState
<1>1. perm' = [perm EXCEPT ![i].revoked = TRUE] /\ UNCHANGED <<fund, obligation>>
  BY DEF Revoke
<1>2. \A j \in Perm : j # i => perm'[j] = perm[j]
  BY <1>1 DEF TypeOK
<1>3. perm[i] \in PermRow
  BY DEF TypeOK, NoPerm
<1>4. perm'[i].kind = "APPROVE_ACTION"
  BY <1>1, <1>3 DEF TypeOK, PermRow
<1> QED BY <1>1, <1>2, <1>4, OtherPermissions

\* Sharing a source makes it appear.
LEMMA SharingMovesOn ==
    ASSUME TypeOK, UNCHANGED <<fund, obligation>>, NEW g \in Fund, NEW x,
           AddRow("VIEW_OWN_CONTRIBUTION", g, x)
    PROVE  Before(FinancialState, FinancialState')
<1>1. PICK i \in Perm :
        /\ perm[i].kind = "NONE"
        /\ perm' = [perm EXCEPT ![i] = [kind |-> "VIEW_OWN_CONTRIBUTION", resource |-> g,
                                        target |-> x, revoked |-> FALSE]]
  BY DEF AddRow
<1>2. \A j \in Perm : j # i => perm'[j] = perm[j]
  BY <1>1 DEF TypeOK
<1>3. perm'[i].kind = "VIEW_OWN_CONTRIBUTION"
  BY <1>1 DEF TypeOK
<1>4. ASSUME NEW f \in Fund
      PROVE  /\ HasPermission(Student, "APPROVE_OWN_FUNDS", f)'
                    <=> HasPermission(Student, "APPROVE_OWN_FUNDS", f)
             /\ HasPermission(Student, "VIEW_OWN_CONTRIBUTION", f)
                    => HasPermission(Student, "VIEW_OWN_CONTRIBUTION", f)'
  <2>1. ASSUME NEW j \in Perm
        PROVE  /\ InForce(j, "APPROVE_OWN_FUNDS", f, Student)'
                    <=> InForce(j, "APPROVE_OWN_FUNDS", f, Student)
               /\ InForce(j, "VIEW_OWN_CONTRIBUTION", f, Student)
                    => InForce(j, "VIEW_OWN_CONTRIBUTION", f, Student)'
    <3>1. CASE j = i
      BY <1>1, <1>3, <3>1 DEF InForce
    <3>2. CASE j # i
      BY <1>2, <3>2 DEF InForce
    <3> QED BY <3>1, <3>2
  <2> QED BY <2>1 DEF HasPermission
<1>5. ASSUME NEW f \in Fund
      PROVE  (Authorized(f)' <=> Authorized(f)) /\ (Visible(f) => Visible(f)')
  BY <1>4 DEF Visible, Authorized
<1>6. ASSUME NEW f \in Fund
      PROVE  SourceBefore(FinancialState.funding[f], FinancialState'.funding[f])
  <2>1. fund[f] \in FundRow /\ fund' = fund
    BY DEF TypeOK
  <2>2. CASE Visible(f)
    <3>1. FinancialState'.funding[f] = FinancialState.funding[f]
      BY <1>5, <2>1, <2>2, SourceRow DEF FinancialState
    <3> QED BY <3>1 DEF SourceBefore
  <2>3. CASE ~Visible(f) /\ ~Visible(f)'
    BY <2>3 DEF FinancialState, SourceBefore
  <2>4. CASE ~Visible(f) /\ Visible(f)'
    BY <2>1, <2>4 DEF FinancialState, SourceBefore, HiddenSource, FundRow, FundStatus
  <2> QED BY <2>2, <2>3, <2>4
<1>7. \A o \in Obligation :
        DebtBefore(FinancialState.obligations[o], FinancialState'.obligations[o])
  BY DEF DebtBefore, FinancialState
<1> QED BY <1>6, <1>7 DEF Before

\* load_maya writes where nothing was.
LEMMA LoadMayaMovesOn ==
    ASSUME TypeOK, TypeOK', SeedSound, LoadMaya
    PROVE  Before(FinancialState, FinancialState')
<1>1. ASSUME NEW f \in Fund
      PROVE  SourceBefore(FinancialState.funding[f], FinancialState'.funding[f])
  <2>1. FinancialState.funding[f] = HiddenSource
    BY DEF LoadMaya, Visible, FinancialState
  <2>2. fund'[f] \in FundRow
    BY DEF TypeOK
  <2>3. FinancialState'.funding[f] = HiddenSource
          \/ FinancialState'.funding[f].status # "HIDDEN"
    BY <2>2 DEF FinancialState, FundRow, FundStatus
  <2> QED BY <2>1, <2>3 DEF SourceBefore, HiddenSource
<1>2. ASSUME NEW o \in Obligation
      PROVE  DebtBefore(obligation[o], obligation'[o])
  <2>1. CASE o \in DOMAIN SeedObligation
    <3>1. obligation[o].status = "NONE"
      BY <2>1 DEF SeedSound, LoadMaya
    <3>2. obligation'[o].status = "OPEN"
      BY <2>1, SeedAssumption DEF LoadMaya
    <3> QED BY <3>1, <3>2 DEF DebtBefore
  <2>2. CASE o \notin DOMAIN SeedObligation
    BY <2>2 DEF LoadMaya, DebtBefore
  <2> QED BY <2>1, <2>2
<1>3. \A o \in Obligation :
        DebtBefore(FinancialState.obligations[o], FinancialState'.obligations[o])
  BY <1>2 DEF FinancialState
<1> QED BY <1>1, <1>3 DEF Before

\* The debits of a refused execution only take money away.
LEMMA DebitMovesOn ==
    ASSUME TypeOK, TypeOK', UNCHANGED <<obligation, perm>>,
           NEW need \in [Fund -> Nat], NEW done, DebitSources(need, done)
    PROVE  Before(FinancialState, FinancialState')
<1>1. ASSUME NEW f \in Fund
      PROVE  SourceBefore(FinancialState.funding[f], FinancialState'.funding[f])
  <2>1. fund[f] \in FundRow /\ fund'[f] \in FundRow /\ need[f] \in Nat
    BY DEF TypeOK
  <2>2. fund'[f] = IF f \in done THEN [fund[f] EXCEPT !.amount = fund[f].amount - need[f]]
                   ELSE fund[f]
    BY DEF DebitSources
  <2>3. /\ fund'[f].reserve = fund[f].reserve
        /\ fund'[f].status = fund[f].status
        /\ fund'[f].amount = fund[f].amount \/ fund'[f].amount < fund[f].amount
    BY <2>1, <2>2 DEF FundRow
  <2>4. (Visible(f)' <=> Visible(f)) /\ (Authorized(f)' <=> Authorized(f))
    BY <2>3 DEF Visible, Authorized, HasPermission, InForce
  <2>5. CASE ~Visible(f)
    BY <2>4, <2>5 DEF FinancialState, SourceBefore
  <2>6. CASE Visible(f)
    <3>1. FinancialState.funding[f] =
            [amount |-> fund[f].amount, reserve |-> fund[f].reserve,
             status |-> fund[f].status, authorized |-> Authorized(f)]
      BY <2>6 DEF FinancialState
    <3>2. FinancialState'.funding[f] =
            [amount |-> fund'[f].amount, reserve |-> fund[f].reserve,
             status |-> fund[f].status, authorized |-> Authorized(f)]
      BY <2>3, <2>4, <2>6, SourceRow
    <3>3. fund[f].status # "HIDDEN"
      BY <2>1 DEF FundRow, FundStatus
    <3> QED BY <2>3, <3>1, <3>2, <3>3 DEF SourceBefore
  <2> QED BY <2>5, <2>6
<1>2. \A o \in Obligation :
        DebtBefore(FinancialState.obligations[o], FinancialState'.obligations[o])
  BY DEF DebtBefore, FinancialState
<1> QED BY <1>1, <1>2 DEF Before

-----------------------------------------------------------------------------

\* A refusal that blocks one action keeps the others.
LEMMA BlockedKept ==
    ASSUME TypeOK, NEW b \in Action, action' = [action EXCEPT ![b].status = "BLOCKED"]
    PROVE  KeptActions
<1>1. ASSUME NEW a \in Action
      PROVE  KeptAction(a)
  <2>1. action[a] \in ActionRow
    BY DEF TypeOK
  <2>2. CASE a = b
    BY <2>1, <2>2 DEF KeptAction, LiveAction, TypeOK, ActionRow
  <2>3. CASE a # b
    BY <2>3 DEF KeptAction, TypeOK
  <2> QED BY <2>2, <2>3
<1> QED BY <1>1 DEF KeptActions

\* prepare, approve and execute.
LEMMA ActionStepMovesOn ==
    ASSUME TypeOK, TypeOK', ActionNext
    PROVE  Retired \/ Kept
<1>1. ASSUME UNCHANGED <<fund, obligation, perm>>
      PROVE  FinancialState' = FinancialState
  BY <1>1 DEF FinancialState, Visible, Authorized, HasPermission, InForce
<1>2. ASSUME NEW a \in Action, NEW p \in Plan, NEW o \in Obligation, Prepare(a, p, o)
      PROVE  Kept
  <2>1. UNCHANGED <<fund, obligation, perm, plan>>
    BY <1>2 DEF Prepare
  <2>2. ASSUME NEW b \in Action
        PROVE  KeptAction(b)
    <3>1. CASE b # a
      BY <1>2, <3>1 DEF Prepare, TypeOK, KeptAction
    <3>2. CASE b = a
      <4>1. action[b].status = "NONE" /\ action'[b].hash = FinancialState
        BY <1>2, <3>2 DEF Prepare, TypeOK
      <4> QED BY <1>1, <2>1, <4>1 DEF KeptAction, LiveAction
    <3> QED BY <3>1, <3>2
  <2> QED BY <1>1, <2>1, <2>2, BeforeReflexive, SameRowsKept DEF Kept, KeptActions
<1>3. ASSUME NEW a \in Action, NEW x \in Actor, Approve(a, x)
      PROVE  Kept
  <2>1. UNCHANGED <<fund, obligation, perm, plan>>
    BY <1>3 DEF Approve
  <2>2. ASSUME NEW b \in Action
        PROVE  KeptAction(b)
    <3>1. action[b] \in ActionRow
      BY DEF TypeOK
    <3>2. CASE b # a
      BY <1>3, <3>2 DEF Approve, TypeOK, KeptAction
    <3>3. CASE b = a
      <4>1. action[b].status \in LiveAction /\ action'[b].hash = action[b].hash
        BY <1>3, <3>1, <3>3 DEF Approve, TypeOK, ActionRow
      <4> QED BY <4>1 DEF KeptAction
    <3> QED BY <3>2, <3>3
  <2> QED BY <1>1, <2>1, <2>2, BeforeReflexive, SameRowsKept DEF Kept, KeptActions
<1>4. ASSUME NEW a \in Action, UNCHANGED <<fund, obligation, perm, plan>>,
             action' = [action EXCEPT ![a].status = "BLOCKED"]
      PROVE  Kept
  BY <1>1, <1>4, BlockedKept, SameRowsKept, BeforeReflexive DEF Kept
<1>5. ASSUME NEW a \in Action, Execute(a)
      PROVE  Retired \/ Kept
  <2> DEFINE need == action[a].alloc
             paid == [action EXCEPT ![a] =
                        [@ EXCEPT !.status = "EXECUTED", !.executed = TRUE]]
  <2>1. CASE action' = BlockLive(paid) /\ Generate(RetireLive(plan))
    <3>1. paid \in [Action -> ActionRow]
      <4>1. [action[a] EXCEPT !.status = "EXECUTED", !.executed = TRUE] \in ActionRow
        BY DEF TypeOK, ActionRow, ActionStatus
      <4> QED BY <4>1 DEF TypeOK
    <3>2. ASSUME NEW actions \in [Action -> ActionRow], NEW b \in Action
          PROVE  BlockLive(actions)[b].status \notin LiveAction
      BY DEF BlockLive, LiveAction, ActionRow
    <3>3. \A b \in Action : RetiredAction(b)
      BY <2>1, <3>1, <3>2 DEF RetiredAction
    <3> QED BY <2>1, <3>3, RetireLiveRetires DEF Retired
  <2>2. CASE /\ UNCHANGED <<obligation, perm, plan>>
             /\ action' = [action EXCEPT ![a].status = "BLOCKED"]
             /\ \E done : DebitSources(need, done)
    <3>1. need \in [Fund -> Nat]
      BY DEF TypeOK, ActionRow
    <3>2. Before(FinancialState, FinancialState')
      BY <2>2, <3>1, DebitMovesOn
    <3> QED BY <2>2, <3>2, BlockedKept, SameRowsKept DEF Kept
  <2> QED BY <1>5, <2>1, <2>2 DEF Execute
<1> QED BY <1>2, <1>3, <1>4, <1>5 DEF ActionNext, ApproveBlocked, ExecuteBlocked

\* Every step retires what was live or moves on.
LEMMA EveryStepMovesOn ==
    ASSUME TypeOK, TypeOK', SeedSound, [Next]_vars
    PROVE  Retired \/ Kept
<1>1. ASSUME UNCHANGED <<fund, obligation, perm>>
      PROVE  Before(FinancialState, FinancialState')
  <2>1. FinancialState' = FinancialState
    BY <1>1 DEF FinancialState, Visible, Authorized, HasPermission, InForce
  <2> QED BY <2>1, BeforeReflexive
<1>2. CASE UNCHANGED vars
  BY <1>1, <1>2, SameRowsKept DEF vars, Kept
<1>3. CASE Reset
  BY <1>3 DEF Reset, NoPlan, NoAction, LivePlan, LiveAction, Retired, RetiredAction, RetiredPlan
<1>4. CASE LoadMaya
  BY <1>4, LoadMayaMovesOn, SameRowsKept DEF LoadMaya, Kept
<1>5. CASE FundNext \/ ObligationNext
  <2>1. Invalidate
    BY <1>5 DEF FundNext, ObligationNext, AddFund, PatchFund, AddObligation,
                PatchObligation, VerifyBeneficiary, ExtractFlagged
  <2> QED BY <2>1, InvalidateRetires
<1>6. CASE PermissionNext
  <2>1. ASSUME NEW x, NEW f \in Fund, NEW kind \in {"VIEW_OWN_CONTRIBUTION", "APPROVE_OWN_FUNDS"},
               GrantFunding(f, x, kind)
        PROVE  Retired \/ Kept
    <3>1. CASE kind = "APPROVE_OWN_FUNDS"
      BY <2>1, <3>1, InvalidateRetires DEF GrantFunding
    <3>2. CASE kind = "VIEW_OWN_CONTRIBUTION"
      BY <2>1, <3>2, SharingMovesOn, SameRowsKept DEF GrantFunding, Kept
    <3> QED BY <3>1, <3>2
  <2>2. ASSUME NEW x, NEW o, GrantObligation(o, x)
        PROVE  Kept
    <3>1. FinancialState' = FinancialState
      BY <2>2, AddRowStays DEF GrantObligation
    <3> QED BY <2>2, <3>1, SameRowsKept, BeforeReflexive DEF GrantObligation, Kept
  <2>3. ASSUME NEW x, NEW p, GrantPlan(p, x)
        PROVE  Kept
    <3>1. FinancialState' = FinancialState
      BY <2>3, AddRowStays DEF GrantPlan
    <3> QED BY <2>3, <3>1, SameRowsKept, BeforeReflexive DEF GrantPlan, Kept
  <2>4. ASSUME NEW x, NEW b, GrantAction(b, x)
        PROVE  Kept
    <3>1. FinancialState' = FinancialState
      BY <2>4, AddRowStays DEF GrantAction
    <3> QED BY <2>4, <3>1, RefreshKeeps, BeforeReflexive DEF GrantAction, Kept
  <2>5. ASSUME NEW i \in Perm, Revoke(i)
        PROVE  Retired \/ Kept
    <3>1. CASE perm[i].kind # "APPROVE_ACTION"
      BY <2>5, <3>1, InvalidateRetires DEF Revoke
    <3>2. CASE perm[i].kind = "APPROVE_ACTION"
      <4>1. FinancialState' = FinancialState
        BY <2>5, <3>2, RevokeStays
      <4>2. RefreshActionApprovers(perm[i].resource)
        BY <2>5, <3>2 DEF Revoke
      <4> QED BY <4>1, <4>2, RefreshKeeps, BeforeReflexive DEF Kept
    <3> QED BY <3>1, <3>2
  <2> QED BY <1>6, <2>1, <2>2, <2>3, <2>4, <2>5 DEF PermissionNext
<1>7. CASE PlanNext
  <2>1. UNCHANGED <<fund, obligation, perm, action>>
    BY <1>7 DEF PlanNext, GeneratePlan, ActivatePlan
  <2>2. ASSUME GeneratePlan, NEW q \in Plan
        PROVE  KeptPlan(q)
    <3>1. plan'[q] = plan[q] \/ (plan[q].status = "NONE" /\ plan'[q].hash = FinancialState')
      BY <2>2, GenerateKeeps DEF GeneratePlan, TypeOK
    <3> QED BY <3>1 DEF KeptPlan, LivePlan
  <2>3. ASSUME NEW x \in Actor, NEW p \in Plan, ActivatePlan(x, p), NEW q \in Plan
        PROVE  KeptPlan(q)
    <3>1. plan[q] \in PlanRow
      BY DEF TypeOK
    <3>2. CASE q = p
      <4>1. plan'[q].hash = plan[q].hash
        BY <2>3, <3>1, <3>2 DEF ActivatePlan, PlanRow
      <4>2. plan[q].status \in LivePlan
        BY <2>3, <3>1, <3>2 DEF ActivatePlan, Fresh, PlanRow, PlanStatus, LivePlan
      <4> QED BY <4>1, <4>2 DEF KeptPlan
    <3>3. CASE q # p
      BY <2>3, <3>1, <3>3 DEF ActivatePlan, KeptPlan, PlanRow, LivePlan
    <3> QED BY <3>2, <3>3
  <2> QED BY <1>1, <1>7, <2>1, <2>2, <2>3, SameRowsKept DEF PlanNext, Kept, KeptPlans
<1>8. CASE ActionNext
  BY <1>8, ActionStepMovesOn
<1> QED BY <1>2, <1>3, <1>4, <1>5, <1>6, <1>7, <1>8 DEF Next

\* A row kept over a step is still before the state, and differs from it if it did.
LEMMA KeptRow ==
    ASSUME NEW h \in State, NEW s \in State, NEW t \in State, Before(h, s), Before(s, t)
    PROVE  Before(h, t) /\ (h # s => h # t)
  BY BeforeTransitive, BeforeAntisymmetric

\* What is live stays before the state, and what was stale stays stale.
LEMMA RowsBeforeStep ==
    ASSUME TypeOK, TypeOK', SeedSound, RowsBefore, [Next]_vars
    PROVE  /\ RowsBefore'
           /\ \A a \in Action :
                 /\ action[a].status \in LiveAction
                 /\ action'[a].status \in LiveAction
                 /\ action[a].hash # FinancialState
                 => action'[a].hash # FinancialState'
           /\ \A p \in Plan :
                 /\ plan[p].status \in LivePlan
                 /\ plan'[p].status \in LivePlan
                 /\ plan[p].hash # FinancialState
                 => plan'[p].hash # FinancialState'
<1>1. FinancialState \in State /\ FinancialState' \in State
  BY FinancialStateType, NextFinancialStateType DEF DataTypeOK, TypeOK
<1>2. /\ \A a \in Action : action[a].hash \in State
      /\ \A p \in Plan : plan[p].hash \in State
  BY DEF TypeOK, ActionRow, PlanRow
<1> DEFINE S == FinancialState
           T == FinancialState'
<1> HIDE DEF S, T
<1>3. S \in State /\ T \in State
  BY <1>1 DEF S, T
<1>4. ASSUME NEW a \in Action, action'[a].status \in LiveAction
      PROVE  /\ Before(action'[a].hash, T)
             /\ action[a].status \in LiveAction /\ action[a].hash # S => action'[a].hash # T
  <2>1. CASE Retired
    <3>1. action[a].status \notin LiveAction /\ action'[a].hash = T
      BY <1>4, <2>1 DEF Retired, RetiredAction, T
    <3> QED BY <3>1, BeforeReflexive
  <2>2. CASE Kept
    <3>1. CASE action[a].status \in LiveAction /\ action'[a].hash = action[a].hash
      <4>1. Before(action[a].hash, S) /\ Before(S, T)
        BY <2>2, <3>1 DEF RowsBefore, Kept, S, T
      <4> QED BY <1>2, <1>3, <3>1, <4>1, KeptRow
    <3>2. CASE action[a].status \notin LiveAction /\ action'[a].hash = T
      BY <3>2, BeforeReflexive
    <3> QED BY <1>4, <2>2, <3>1, <3>2 DEF Kept, KeptActions, KeptAction, T
  <2> QED BY <2>1, <2>2, EveryStepMovesOn
<1>5. ASSUME NEW p \in Plan, plan'[p].status \in LivePlan
      PROVE  /\ Before(plan'[p].hash, T)
             /\ plan[p].status \in LivePlan /\ plan[p].hash # S => plan'[p].hash # T
  <2>1. CASE Retired
    <3>1. plan[p].status \notin LivePlan /\ plan'[p].hash = T
      BY <1>5, <2>1 DEF Retired, RetiredPlan, T
    <3> QED BY <3>1, BeforeReflexive
  <2>2. CASE Kept
    <3>1. CASE plan[p].status \in LivePlan /\ plan'[p].hash = plan[p].hash
      <4>1. Before(plan[p].hash, S) /\ Before(S, T)
        BY <2>2, <3>1 DEF RowsBefore, Kept, S, T
      <4> QED BY <1>2, <1>3, <3>1, <4>1, KeptRow
    <3>2. CASE plan[p].status \notin LivePlan /\ plan'[p].hash = T
      BY <3>2, BeforeReflexive
    <3> QED BY <1>5, <2>2, <3>1, <3>2 DEF Kept, KeptPlans, KeptPlan, T
  <2> QED BY <2>1, <2>2, EveryStepMovesOn
<1>6. RowsBefore'
  BY <1>4, <1>5 DEF RowsBefore, T
<1> QED BY <1>4, <1>5, <1>6 DEF S, T

\* state_hash: no state returns to the one a live plan or action was built on, so a
\* hash that differs once differs for as long as the row is live.
THEOREM StaleForEver == Spec => StaleStaysStale
<1>1. Init => RowsBefore
  BY DEF Init, RowsBefore, NoPlan, NoAction, LivePlan, LiveAction
<1>2. TypeOK /\ TypeOK' /\ SeedSound /\ RowsBefore /\ [Next]_vars => RowsBefore'
  BY RowsBeforeStep
<1>3. TypeOK /\ TypeOK' /\ SeedSound /\ RowsBefore /\ [Next]_vars
        => [/\ \A a \in Action :
                  /\ action[a].status \in LiveAction
                  /\ action'[a].status \in LiveAction
                  /\ action[a].hash # FinancialState
                  => action'[a].hash # FinancialState'
            /\ \A p \in Plan :
                  /\ plan[p].status \in LivePlan
                  /\ plan'[p].status \in LivePlan
                  /\ plan[p].hash # FinancialState
                  => plan'[p].hash # FinancialState']_vars
  BY RowsBeforeStep
<1> QED BY <1>1, <1>2, <1>3, TypeCorrect, IntactCorrect, PTL DEF Spec, StaleStaysStale
=============================================================================
