-------------------------- MODULE PaymentMoneyProofs --------------------------
(***************************************************************************)
(* Theorems about the money of ActionFlow, for any amounts, fee and number *)
(* of sources and obligations: what a prepared payment takes is there to   *)
(* be taken, and adds up to what is due.  They rest on the sums of         *)
(* SumTheorems and on the invariants of ActionFlowProofs.                  *)
(***************************************************************************)
EXTENDS ActionFlowProofs, SumTheorems

-----------------------------------------------------------------------------
(* A plan is an allocation of the state it was made on *)

PlanAllocates ==
    \A p \in Plan : plan[p].status # "NONE" => plan[p].alloc \in Allocations(plan[p].hash)

\* generate makes a plan of the new state and leaves the others alone.
LEMMA GenerateAllocates ==
    ASSUME NEW plans \in [Plan -> PlanRow], Generate(plans),
           \A p \in Plan : plans[p].status # "NONE"
                => plans[p].alloc \in Allocations(plans[p].hash)
    PROVE  PlanAllocates'
<1>1. PICK q \in Plan, x \in Allocations(FinancialState') :
        plan' = [plans EXCEPT ![q] =
            [status |-> IF Feasible(FinancialState', x) THEN "DRAFT" ELSE "FAILED",
             hash |-> FinancialState', alloc |-> x]]
  BY GenerateRow
<1> DEFINE s == FinancialState'
           Made(row) == row.status # "NONE" => row.alloc \in Allocations(row.hash)
<1>2. ASSUME NEW p \in Plan
      PROVE  Made(plan'[p])
  <2>1. CASE p = q
    <3>1. plan'[p].alloc = x /\ plan'[p].hash = FinancialState'
      BY <1>1, <2>1
    <3> QED BY <3>1
  <2>2. CASE p # q
    <3>1. plan'[p] = plans[p]
      BY <1>1, <2>2
    <3> QED BY <3>1
  <2> QED BY <2>1, <2>2
<1> QED BY <1>2 DEF PlanAllocates, Allocations, Payable, Usable

\* Retiring a plan leaves its allocation as it is.
LEMMA RetireLiveAllocates ==
    ASSUME TypeOK, PlanAllocates, NEW p \in Plan, RetireLive(plan)[p].status # "NONE"
    PROVE  RetireLive(plan)[p].alloc \in Allocations(RetireLive(plan)[p].hash)
<1>1. plan[p] \in PlanRow
  BY DEF TypeOK
<1>2. /\ RetireLive(plan)[p].alloc = plan[p].alloc
      /\ RetireLive(plan)[p].hash = plan[p].hash
      /\ plan[p].status # "NONE"
  BY <1>1 DEF RetireLive, PlanRow, LivePlan
<1> QED BY <1>2 DEF PlanAllocates

\* How a step may change the plans.
LEMMA PlanChange ==
    ASSUME [Next]_vars
    PROVE  \/ UNCHANGED plan
           \/ Generate(RetireLive(plan)) \/ Generate(plan)
           \/ Reset
           \/ \E x \in Actor, p \in Plan : ActivatePlan(x, p)
<1>1. Invalidate => UNCHANGED plan \/ Generate(RetireLive(plan))
  BY DEF Invalidate
<1>2. FundNext \/ ObligationNext => Invalidate
  BY DEF FundNext, ObligationNext, AddFund, PatchFund, AddObligation, PatchObligation,
         VerifyBeneficiary, ExtractFlagged
<1>3. PermissionNext => Invalidate \/ UNCHANGED plan
  BY DEF PermissionNext, GrantFunding, GrantObligation, GrantPlan, GrantAction, Revoke,
         RefreshActionApprovers
<1>4. ActionNext => UNCHANGED plan \/ Generate(RetireLive(plan))
  BY DEF ActionNext, Prepare, Approve, ApproveBlocked, ExecuteBlocked, Execute
<1>5. PlanNext => Generate(plan) \/ \E x \in Actor, p \in Plan : ActivatePlan(x, p)
  BY DEF PlanNext, GeneratePlan
<1> QED BY <1>1, <1>2, <1>3, <1>4, <1>5 DEF Next, LoadMaya, vars

\* Every step keeps plans allocations of their snapshots.
LEMMA PlanAllocatesStep ==
    ASSUME TypeOK, PlanAllocates, [Next]_vars
    PROVE  PlanAllocates'
<1>1. CASE UNCHANGED plan
  BY <1>1 DEF PlanAllocates, Allocations, Payable, Usable
<1>2. CASE Generate(RetireLive(plan))
  BY <1>2, RetireLiveAllocates, RetireLiveType, GenerateAllocates DEF TypeOK
<1>3. CASE Generate(plan)
  BY <1>3, GenerateAllocates DEF TypeOK, PlanAllocates
<1>4. CASE Reset
  BY <1>4 DEF Reset, NoPlan, PlanAllocates
<1>5. ASSUME NEW x \in Actor, NEW p \in Plan, ActivatePlan(x, p)
      PROVE  PlanAllocates'
  <2>1. ASSUME NEW q \in Plan, plan'[q].status # "NONE"
        PROVE  plan'[q].alloc \in Allocations(plan'[q].hash)
    <3>1. plan[q] \in PlanRow
      BY DEF TypeOK
    <3>2. /\ plan'[q].alloc = plan[q].alloc /\ plan'[q].hash = plan[q].hash
          /\ plan[q].status # "NONE"
      BY <1>5, <2>1, <3>1 DEF ActivatePlan, PlanRow, Fresh
    <3> QED BY <3>2 DEF PlanAllocates
  <2> QED BY <2>1 DEF PlanAllocates, Allocations, Payable, Usable
<1> QED BY <1>1, <1>2, <1>3, <1>4, <1>5, PlanChange

-----------------------------------------------------------------------------
(* What a payment freezes *)

\* The frozen debits of an action are there to be taken ...
Borne(a) ==
    \A f \in Fund : action[a].alloc[f] > 0 =>
        /\ fund[f].status = "AVAILABLE"
        /\ fund[f].amount - action[a].alloc[f] >= fund[f].reserve

\* ... and add up, without the fees, to what is due.
Net(a) == [f \in Fund |-> NetOf(action[a].alloc[f])]
AddsUp(a) == SumFunctionOnSet(Net(a), Fund) = obligation[action[a].obligation].amount

FundedOf(a) == action[a].status \in LiveAction => Borne(a) /\ AddsUp(a)

\* payment_block_reason: an obligation that certain money covers whole takes nothing
\* from other sources, and no more from all of them than is due.
LEMMA CoveredExactly ==
    ASSUME NEW s, NEW x \in Allocations(s), NEW o \in Obligation,
           Covered(s, x, o, {"AVAILABLE"}), s.obligations[o].amount \in Nat
    PROVE  /\ SumFunctionOnSet(x[o], Fund) = s.obligations[o].amount
           /\ \A f \in Fund : x[o][f] > 0 => s.funding[f].status = "AVAILABLE"
<1> DEFINE R == {f \in Fund : s.funding[f].status \in {"AVAILABLE"}}
           w == x[o]
<1>1. \A f \in Fund : w[f] \in Nat
  BY AllocationType DEF Allocation
<1>2. /\ SumFunctionOnSet(w, R) = s.obligations[o].amount
      /\ SumFunctionOnSet(w, Fund) <= s.obligations[o].amount
  BY DEF Covered, Allocations
<1>3. R \in SUBSET Fund
  OBVIOUS
<1>4. \A f \in Fund \ R : s.funding[f].status # "AVAILABLE"
  OBVIOUS
<1> HIDE DEF R, w
<1>5. /\ SumFunctionOnSet(w, R) <= SumFunctionOnSet(w, Fund)
      /\ SumFunctionOnSet(w, R) = SumFunctionOnSet(w, Fund) => \A f \in Fund \ R : w[f] = 0
  BY <1>1, <1>3, FiniteAssumption, SumBoundsPart
<1>6. SumFunctionOnSet(w, Fund) \in Nat
  BY <1>1, FiniteAssumption, SumNat
<1>7. SumFunctionOnSet(w, Fund) = s.obligations[o].amount
  BY <1>2, <1>5, <1>6
<1>8. \A f \in Fund \ R : w[f] = 0
  BY <1>2, <1>5, <1>7
<1>9. ASSUME NEW f \in Fund, w[f] > 0
      PROVE  s.funding[f].status = "AVAILABLE"
  <2>1. f \in R
    BY <1>1, <1>8, <1>9
  <2> QED BY <2>1 DEF R
<1> QED BY <1>7, <1>9 DEF w

\* The debit of one payment is within what the source has above its reserve.
LEMMA DebitWithinCapacity ==
    ASSUME NEW s \in State, NEW x \in Allocations(s), NEW o \in Obligation, NEW f \in Fund
    PROVE  Debit(x[o][f]) <= s.funding[f].amount - s.funding[f].reserve
<1> DEFINE w == [q \in Obligation |-> Debit(x[q][f])]
<1>1. \A q \in Obligation : w[q] \in Nat
  BY AllocationType, BoundAssumption DEF Allocation, Debit
<1>2. SumFunctionOnSet(w, Obligation) <= s.funding[f].amount - s.funding[f].reserve
  BY DEF Allocations
<1>3. w[o] = Debit(x[o][f])
  OBVIOUS
<1> HIDE DEF w
<1>4. w[o] <= SumFunctionOnSet(w, Obligation)
  BY <1>1, FiniteAssumption, SumBoundsElement
<1>5. SumFunctionOnSet(w, Obligation) \in Nat
  BY <1>1, FiniteAssumption, SumNat
<1>6. s.funding[f].amount \in Int /\ s.funding[f].reserve \in Int
  BY DEF State, SourceView
<1> QED BY <1>1, <1>2, <1>3, <1>4, <1>5, <1>6

\* prepare freezes debits that the sources bear and that add up.
LEMMA PrepareFunds ==
    ASSUME TypeOK, PlanAllocates, NEW a \in Action, NEW p \in Plan, NEW o \in Obligation,
           Prepare(a, p, o)
    PROVE  Borne(a)' /\ AddsUp(a)'
<1> DEFINE s == FinancialState
           x == plan[p].alloc
<1>1. /\ UNCHANGED <<fund, obligation, perm, plan>>
      /\ Fresh(p) /\ PaymentAllowed(p, o)
  BY DEF Prepare
<1>2. /\ action'[a].obligation = o
      /\ action'[a].alloc = [f \in Fund |-> Debit(x[o][f])]
  BY DEF Prepare, TypeOK
<1>3. s \in State
  BY FinancialStateType DEF TypeOK, DataTypeOK
<1>4. x \in Allocations(s) /\ plan[p].hash = s
  BY <1>1 DEF Fresh, PlanAllocates
<1>5. /\ s.obligations[o] = obligation[o]
      /\ obligation[o].amount \in Nat
  BY DEF FinancialState, TypeOK, ObligationRow
<1>6. Covered(s, x, o, {"AVAILABLE"})
  BY <1>1, <1>4 DEF PaymentAllowed
<1>7. /\ \A f \in Fund : s.funding[f].status = "AVAILABLE" =>
            /\ fund[f].status = "AVAILABLE"
            /\ s.funding[f].amount = fund[f].amount
            /\ s.funding[f].reserve = fund[f].reserve
      /\ \A f \in Fund : fund[f].amount \in Nat /\ fund[f].reserve \in Nat
  BY DEF FinancialState, HiddenSource, TypeOK, FundRow
<1>8. \A f \in Fund : x[o][f] \in Nat
  BY <1>4, AllocationType DEF Allocation
<1> HIDE DEF s, x
<1>9. /\ SumFunctionOnSet(x[o], Fund) = obligation[o].amount
      /\ \A f \in Fund : x[o][f] > 0 => s.funding[f].status = "AVAILABLE"
  BY <1>4, <1>5, <1>6, CoveredExactly
<1>10. Borne(a)'
  <2> SUFFICES ASSUME NEW f \in Fund, action'[a].alloc[f] > 0
               PROVE  /\ fund[f].status = "AVAILABLE"
                      /\ fund[f].amount - action'[a].alloc[f] >= fund[f].reserve
    BY <1>1 DEF Borne
  <2>1. action'[a].alloc[f] = Debit(x[o][f])
    BY <1>2
  <2>2. x[o][f] > 0
    BY <1>8, <2>1 DEF Debit
  <2>3. s.funding[f].status = "AVAILABLE"
    BY <1>9, <2>2
  <2>4. Debit(x[o][f]) <= s.funding[f].amount - s.funding[f].reserve
    BY <1>3, <1>4, DebitWithinCapacity
  <2>5. Debit(x[o][f]) \in Nat
    BY <1>8, BoundAssumption DEF Debit
  <2> QED BY <1>7, <2>1, <2>3, <2>4, <2>5
<1>11. AddsUp(a)'
  <2> DEFINE v == [f \in Fund |-> NetOf(action'[a].alloc[f])]
  <2>1. \A f \in Fund : v[f] = x[o][f]
    BY <1>2, <1>8, BoundAssumption DEF NetOf, Debit
  <2>2. Net(a)' = v
    BY DEF Net, NetOf
  <2> HIDE DEF v
  <2>3. SumFunctionOnSet(v, Fund) = SumFunctionOnSet(x[o], Fund)
    BY <2>1, FiniteAssumption, SumOfSame
  <2> QED BY <1>1, <1>2, <1>9, <2>2, <2>3 DEF AddsUp
<1> QED BY <1>10, <1>11

\* A payment stays funded where its row, its obligation and the sources it takes from
\* stay as they are.
LEMMA FundedKept ==
    ASSUME NEW a \in Action, FundedOf(a),
           action'[a].status \in LiveAction =>
              /\ action[a].status \in LiveAction
              /\ action'[a].obligation = action[a].obligation
              /\ action'[a].alloc = action[a].alloc
              /\ obligation'[action[a].obligation] = obligation[action[a].obligation]
              /\ \A f \in Fund : action[a].alloc[f] > 0 => fund'[f] = fund[f]
    PROVE  FundedOf(a)'
<1> SUFFICES ASSUME action'[a].status \in LiveAction
             PROVE  Borne(a)' /\ AddsUp(a)'
  BY DEF FundedOf
<1>1. Borne(a) /\ AddsUp(a)
  BY DEF FundedOf
<1>2. Borne(a)'
  BY <1>1 DEF Borne
<1>3. Net(a)' = Net(a)
  BY DEF Net, NetOf
<1> QED BY <1>1, <1>2, <1>3 DEF AddsUp

\* invalidate leaves no action live.
LEMMA InvalidateBlocks ==
    ASSUME TypeOK, Invalidate, NEW a \in Action
    PROVE  action'[a].status \notin LiveAction
  BY DEF Invalidate, BlockLive, LiveAction, TypeOK, ActionRow

\* refresh_action_approvers leaves what the action takes as it is.
LEMMA RefreshFunds ==
    ASSUME TypeOK, NEW a \in Action, FundedOf(a), NEW b, RefreshActionApprovers(b),
           UNCHANGED <<fund, obligation>>
    PROVE  FundedOf(a)'
<1>1. action[a] \in ActionRow
  BY DEF TypeOK
<1>2. CASE a # b
  <2>1. action'[a] = action[a]
    BY <1>2 DEF RefreshActionApprovers, TypeOK
  <2> QED BY <2>1, FundedKept
<1>3. CASE a = b
  <2>1. /\ action[a].status \in LiveAction
        /\ action'[a] = [action[a] EXCEPT
              !.required = action[a].base \cup Delegates(a, perm'),
              !.approvals = {}, !.status = "PREPARED"]
    BY <1>3 DEF RefreshActionApprovers, TypeOK
  <2>2. /\ action'[a].obligation = action[a].obligation
        /\ action'[a].alloc = action[a].alloc
    BY <1>1, <2>1 DEF ActionRow
  <2> QED BY <2>1, <2>2, FundedKept
<1> QED BY <1>2, <1>3

\* execute: the debits of a payment that is funded and intact never stop half way.
LEMMA ExecutePays ==
    ASSUME TypeOK, LiveActionIsIntact, NEW a \in Action, FundedOf(a), Execute(a)
    PROVE  /\ action[a].status \in LiveAction
           /\ DebitSources(action[a].alloc, Fund)
           /\ obligation' = [obligation EXCEPT ![action[a].obligation].status = "SANDBOX_PAID"]
           /\ action' = BlockLive([action EXCEPT ![a] =
                            [@ EXCEPT !.status = "EXECUTED", !.executed = TRUE]])
           /\ Generate(RetireLive(plan))
<1> DEFINE o == action[a].obligation
           need == action[a].alloc
           changed == \/ obligation[o].hold
                      \/ obligation[o].beneficiary # action[a].beneficiary
                      \/ obligation[o].version # action[a].version
           fits == {f \in Fund :
                       need[f] > 0 => fund[f].amount - need[f] >= fund[f].reserve}
<1>1. action[a].status \in LiveAction
  BY DEF Execute, MayExecute, LiveAction
<1>2. ~changed
  BY <1>1 DEF LiveActionIsIntact, Payable
<1>3. fits = Fund
  BY <1>1 DEF FundedOf, Borne
<1> QED BY <1>1, <1>2, <1>3 DEF Execute

\* prepare, approve and execute keep what is live funded.
LEMMA ActionStepFunds ==
    ASSUME TypeOK, PlanAllocates, LiveActionIsIntact, ActionNext, NEW a \in Action,
           \A b \in Action : FundedOf(b)
    PROVE  FundedOf(a)'
<1>0. action[a] \in ActionRow /\ FundedOf(a)
  BY DEF TypeOK
<1>1. ASSUME NEW b \in Action, NEW p \in Plan, NEW o \in Obligation, Prepare(b, p, o)
      PROVE  FundedOf(a)'
  <2>1. CASE a = b
    BY <1>1, <2>1, PrepareFunds DEF FundedOf
  <2>2. CASE a # b
    <3>1. action'[a] = action[a] /\ UNCHANGED <<fund, obligation>>
      BY <1>1, <2>2 DEF Prepare, TypeOK
    <3> QED BY <1>0, <3>1, FundedKept
  <2> QED BY <2>1, <2>2
<1>2. ASSUME NEW b \in Action, NEW x \in Actor, Approve(b, x)
      PROVE  FundedOf(a)'
  <2>1. UNCHANGED <<fund, obligation>>
    BY <1>2 DEF Approve
  <2>2. CASE a = b
    <3>1. /\ action[a].status \in LiveAction
          /\ action'[a].obligation = action[a].obligation
          /\ action'[a].alloc = action[a].alloc
      BY <1>0, <1>2, <2>2 DEF Approve, TypeOK, ActionRow
    <3> QED BY <1>0, <2>1, <3>1, FundedKept
  <2>3. CASE a # b
    <3>1. action'[a] = action[a]
      BY <1>2, <2>3 DEF Approve, TypeOK
    <3> QED BY <1>0, <2>1, <3>1, FundedKept
  <2> QED BY <2>2, <2>3
<1>3. ASSUME NEW b \in Action, UNCHANGED <<fund, obligation>>,
             action' = [action EXCEPT ![b].status = "BLOCKED"]
      PROVE  FundedOf(a)'
  <2>1. CASE a = b
    <3>1. action'[a].status = "BLOCKED"
      BY <1>0, <1>3, <2>1 DEF TypeOK, ActionRow
    <3> QED BY <3>1 DEF FundedOf, LiveAction
  <2>2. CASE a # b
    <3>1. action'[a] = action[a]
      BY <1>3, <2>2 DEF TypeOK
    <3> QED BY <1>0, <1>3, <3>1, FundedKept
  <2> QED BY <2>1, <2>2
<1>4. ASSUME NEW b \in Action, Execute(b)
      PROVE  FundedOf(a)'
  <2> DEFINE paid == [action EXCEPT ![b] =
                        [@ EXCEPT !.status = "EXECUTED", !.executed = TRUE]]
  <2>1. action' = BlockLive(paid)
    BY <1>4, ExecutePays
  <2>2. paid \in [Action -> ActionRow]
    <3>1. [action[b] EXCEPT !.status = "EXECUTED", !.executed = TRUE] \in ActionRow
      BY DEF TypeOK, ActionRow, ActionStatus
    <3> QED BY <3>1 DEF TypeOK
  <2> HIDE DEF paid
  <2>3. action'[a].status \notin LiveAction
    BY <2>1, <2>2 DEF BlockLive, LiveAction, ActionRow
  <2> QED BY <2>3 DEF FundedOf
<1> QED BY <1>1, <1>2, <1>3, <1>4 DEF ActionNext, ApproveBlocked, ExecuteBlocked

\* Every step keeps what is live funded.
LEMMA FundedStep ==
    ASSUME TypeOK, PlanAllocates, SeedSound, LiveActionIsIntact,
           \A a \in Action : FundedOf(a), [Next]_vars
    PROVE  \A a \in Action : FundedOf(a)'
<1> SUFFICES ASSUME NEW a \in Action
             PROVE  FundedOf(a)'
  OBVIOUS
<1>0. FundedOf(a) /\ action[a] \in ActionRow
  BY DEF TypeOK
<1>1. CASE UNCHANGED vars
  BY <1>0, <1>1, FundedKept DEF vars
<1>2. CASE Reset
  BY <1>2 DEF Reset, NoAction, LiveAction, FundedOf
<1>3. CASE LoadMaya
  <2>1. action' = action
    BY <1>3 DEF LoadMaya
  <2>2. ASSUME action[a].status \in LiveAction
        PROVE  obligation'[action[a].obligation] = obligation[action[a].obligation]
    <3>1. action[a].obligation \notin DOMAIN SeedObligation
      BY <1>3, <2>2 DEF LiveActionIsIntact, Payable, SeedSound, LoadMaya
    <3> QED BY <1>0, <1>3, <3>1 DEF LoadMaya, ActionRow
  <2>3. ASSUME action[a].status \in LiveAction, NEW f \in Fund, action[a].alloc[f] > 0
        PROVE  FALSE
    BY <1>0, <1>3, <2>3 DEF FundedOf, Borne, LoadMaya
  <2> QED BY <1>0, <2>1, <2>2, <2>3, FundedKept
<1>4. CASE FundNext \/ ObligationNext
  <2>1. Invalidate
    BY <1>4 DEF FundNext, ObligationNext, AddFund, PatchFund, AddObligation,
                PatchObligation, VerifyBeneficiary, ExtractFlagged
  <2> QED BY <2>1, InvalidateBlocks DEF FundedOf
<1>5. CASE PermissionNext
  <2>1. UNCHANGED <<fund, obligation>>
    BY <1>5 DEF PermissionNext, GrantFunding, GrantObligation, GrantPlan, GrantAction, Revoke
  <2>2. \/ Invalidate
        \/ UNCHANGED action
        \/ \E b : RefreshActionApprovers(b)
    BY <1>5 DEF PermissionNext, GrantFunding, GrantObligation, GrantPlan, GrantAction, Revoke
  <2>3. CASE Invalidate
    BY <2>3, InvalidateBlocks DEF FundedOf
  <2>4. CASE UNCHANGED action
    BY <1>0, <2>1, <2>4, FundedKept
  <2> QED BY <1>0, <2>1, <2>2, <2>3, <2>4, RefreshFunds
<1>6. CASE PlanNext
  <2>1. UNCHANGED <<fund, obligation, action>>
    BY <1>6 DEF PlanNext, GeneratePlan, ActivatePlan
  <2> QED BY <1>0, <2>1, FundedKept
<1>7. CASE ActionNext
  BY <1>7, ActionStepFunds
<1> QED BY <1>1, <1>2, <1>3, <1>4, <1>5, <1>6, <1>7 DEF Next

Funded == \A a \in Action : FundedOf(a)

\* optimize and payment_block_reason: every plan is an allocation of its snapshot,
\* and every live payment is funded from certain money, fees included.
THEOREM FundedCorrect == Spec => [](PlanAllocates /\ Funded)
<1>1. Init => PlanAllocates /\ Funded
  BY DEF Init, PlanAllocates, Funded, FundedOf, LiveAction, NoPlan, NoAction
<1>2. TypeOK /\ PlanAllocates /\ SeedSound /\ LiveActionIsIntact /\ Funded /\ [Next]_vars
        => PlanAllocates' /\ Funded'
  BY PlanAllocatesStep, FundedStep DEF Funded
<1> QED BY <1>1, <1>2, TypeCorrect, IntactCorrect, PTL DEF Spec

\* prepare: every source a payment takes from is certain money and bears the frozen
\* debit above its reserve until the payment is executed or blocked.
THEOREM SourcesAlwaysBear == Spec => []LiveSourcesBear
<1>1. Funded => LiveSourcesBear
  BY DEF Funded, FundedOf, Borne, LiveSourcesBear
<1> QED BY <1>1, FundedCorrect, PTL

-----------------------------------------------------------------------------
(* An execution pays what is due *)

\* Only execute marks an action executed.
LEMMA OnlyExecutePays ==
    ASSUME TypeOK, LiveActionIsIntact, Funded, [Next]_vars, NEW a \in Action,
           ~action[a].executed, action'[a].executed
    PROVE  Execute(a)
<1>0. action[a] \in ActionRow
  BY DEF TypeOK
<1>1. ASSUME \/ action'[a] = action[a]
             \/ action'[a] = [action[a] EXCEPT !.status = "BLOCKED"]
      PROVE  FALSE
  BY <1>0, <1>1 DEF ActionRow
<1>2. ~Invalidate
  BY <1>1, BlockLiveRows DEF Invalidate, TypeOK
<1>3. ASSUME NEW b, RefreshActionApprovers(b)
      PROVE  FALSE
  <2>1. a = b
    BY <1>1, <1>3 DEF RefreshActionApprovers, TypeOK
  <2>2. action'[a] = [action[a] EXCEPT !.required = action[a].base \cup Delegates(a, perm'),
                                       !.approvals = {}, !.status = "PREPARED"]
    BY <1>3, <2>1 DEF RefreshActionApprovers, TypeOK
  <2>3. action'[a].executed = action[a].executed
    BY <1>0, <2>2 DEF ActionRow
  <2> QED BY <2>3
<1>4. ~UNCHANGED action
  BY <1>1
<1>5. ~Reset
  BY DEF Reset, NoAction
<1>6. ~(FundNext \/ ObligationNext)
  BY <1>2 DEF FundNext, ObligationNext, AddFund, PatchFund, AddObligation,
              PatchObligation, VerifyBeneficiary, ExtractFlagged
<1>7. ~PermissionNext
  BY <1>2, <1>3, <1>4 DEF PermissionNext, GrantFunding, GrantObligation, GrantPlan,
                          GrantAction, Revoke
<1>8. ~(PlanNext \/ LoadMaya)
  BY <1>4 DEF PlanNext, GeneratePlan, ActivatePlan, LoadMaya
<1>9. \A b \in Action, p \in Plan, o \in Obligation : ~Prepare(b, p, o)
  BY <1>1 DEF Prepare, TypeOK
<1>10. ASSUME NEW b \in Action, NEW x \in Actor, Approve(b, x)
       PROVE  FALSE
  <2>1. a = b
    BY <1>1, <1>10 DEF Approve, TypeOK
  <2> QED BY <1>0, <1>10, <2>1 DEF Approve, TypeOK, ActionRow
<1>11. \A b \in Action : action' # [action EXCEPT ![b].status = "BLOCKED"]
  BY <1>1 DEF TypeOK
<1>12. ASSUME NEW b \in Action, Execute(b), a # b
       PROVE  FALSE
  <2> DEFINE paid == [action EXCEPT ![b] =
                        [@ EXCEPT !.status = "EXECUTED", !.executed = TRUE]]
  <2>1. action' = BlockLive(paid)
    BY <1>12, ExecutePays DEF Funded
  <2>2. paid[a] = action[a]
    BY <1>12 DEF TypeOK
  <2> HIDE DEF paid
  <2>3. \/ action'[a] = action[a]
        \/ action'[a] = [action[a] EXCEPT !.status = "BLOCKED"]
    BY <2>1, <2>2 DEF BlockLive
  <2> QED BY <1>1, <2>3
<1> QED BY <1>4, <1>5, <1>6, <1>7, <1>8, <1>9, <1>10, <1>11, <1>12
        DEF Next, vars, ActionNext, ApproveBlocked, ExecuteBlocked

\* An execution takes the frozen debits and settles the open obligation.
LEMMA ExecutionPays ==
    ASSUME TypeOK, LiveActionIsIntact, Funded, NEW a \in Action, Execute(a)
    PROVE  LET o == action[a].obligation
           IN  /\ obligation[o].status = "OPEN"
               /\ obligation'[o].status = "SANDBOX_PAID"
               /\ SumFunctionOnSet([f \in Fund |-> NetOf(action[a].alloc[f])], Fund)
                     = obligation[o].amount
               /\ \A f \in Fund :
                     fund[f].amount - fund'[f].amount = action[a].alloc[f]
<1> DEFINE o == action[a].obligation
           need == action[a].alloc
<1>1. action[a] \in ActionRow /\ o \in Obligation
  BY DEF TypeOK, ActionRow
<1>2. /\ action[a].status \in LiveAction
      /\ DebitSources(need, Fund)
      /\ obligation' = [obligation EXCEPT ![o].status = "SANDBOX_PAID"]
  BY ExecutePays DEF Funded
<1>3. obligation[o].status = "OPEN"
  BY <1>2 DEF LiveActionIsIntact, Payable
<1>4. obligation'[o].status = "SANDBOX_PAID"
  BY <1>1, <1>2 DEF TypeOK, ObligationRow
<1>5. SumFunctionOnSet([f \in Fund |-> NetOf(need[f])], Fund) = obligation[o].amount
  BY <1>2 DEF Funded, FundedOf, AddsUp, Net
<1>6. ASSUME NEW f \in Fund
      PROVE  fund[f].amount - fund'[f].amount = need[f]
  <2>1. fund[f] \in FundRow /\ need[f] \in Nat
    BY <1>1 DEF TypeOK, ActionRow
  <2>2. fund'[f] = [fund[f] EXCEPT !.amount = fund[f].amount - need[f]]
    BY <1>2 DEF DebitSources
  <2>3. fund'[f].amount = fund[f].amount - need[f]
    BY <2>1, <2>2 DEF FundRow
  <2> QED BY <2>1, <2>3 DEF FundRow
<1> QED BY <1>3, <1>4, <1>5, <1>6

\* execute: an execution debits exactly the frozen shares, and the shares without
\* their fees add up to the amount due at that moment.
THEOREM PaymentsAreWhole == Spec => PaidInFull
<1>1. TypeOK /\ LiveActionIsIntact /\ Funded /\ [Next]_vars
        => [\A a \in Action : ~action[a].executed /\ action'[a].executed =>
              LET o == action[a].obligation
              IN  /\ obligation[o].status = "OPEN"
                  /\ obligation'[o].status = "SANDBOX_PAID"
                  /\ SumFunctionOnSet([f \in Fund |-> NetOf(action[a].alloc[f])], Fund)
                        = obligation[o].amount
                  /\ \A f \in Fund :
                        fund[f].amount - fund'[f].amount = action[a].alloc[f]]_vars
  BY OnlyExecutePays, ExecutionPays
<1> QED BY <1>1, TypeCorrect, IntactCorrect, FundedCorrect, PTL DEF Spec, PaidInFull

-----------------------------------------------------------------------------
(* A refusal moves no money *)

HasPlan == \E p \in Plan : plan[p].status \in LivePlan
HasPayment == \E a \in Action : action[a].status \in LiveAction

\* A live payment has a live plan beside it: what retires the plans blocks it.
PaymentHasPlan == HasPayment => HasPlan

\* generate adds a live plan, and so changes the plans.
LEMMA GenerateAdds ==
    ASSUME NEW plans \in [Plan -> PlanRow], Generate(plans)
    PROVE  \E p \in Plan : plans[p].status = "NONE" /\ plan'[p].status \in LivePlan
<1>1. PICK p \in Plan, s \in {FinancialState'} :
        /\ NextVersion(plans, p)
        /\ \E x \in Allocations(s) :
              plan' = [plans EXCEPT ![p] =
                [status |-> IF Feasible(s, x) THEN "DRAFT" ELSE "FAILED",
                 hash |-> s, alloc |-> x]]
  BY DEF Generate
<1>2. plan'[p].status \in {"DRAFT", "FAILED"}
  BY <1>1
<1>3. plans[p].status = "NONE"
  BY <1>1 DEF NextVersion
<1> QED BY <1>2, <1>3 DEF LivePlan

\* Retiring plans and making one changes the plans.
LEMMA RenewalAdds ==
    ASSUME TypeOK, Generate(RetireLive(plan))
    PROVE  HasPlan' /\ plan' # plan
<1>1. PICK p \in Plan : RetireLive(plan)[p].status = "NONE" /\ plan'[p].status \in LivePlan
  BY RetireLiveType, GenerateAdds DEF TypeOK
<1>2. plan[p] \in PlanRow
  BY DEF TypeOK
<1>3. plan[p].status = "NONE"
  BY <1>1, <1>2 DEF RetireLive, PlanRow
<1> QED BY <1>1, <1>3 DEF HasPlan, LivePlan

\* Making a plan, and activating one, leaves a live one.
LEMMA PlanStepHasPlan ==
    ASSUME TypeOK, PlanNext, HasPlan
    PROVE  HasPlan'
<1>1. CASE GeneratePlan
  BY <1>1, GenerateAdds DEF GeneratePlan, TypeOK, HasPlan
<1>2. ASSUME NEW x \in Actor, NEW p \in Plan, ActivatePlan(x, p)
      PROVE  HasPlan'
  <2>1. plan[p] \in PlanRow
    BY DEF TypeOK
  <2>2. plan'[p].status = "ACTIVE"
    BY <1>2, <2>1 DEF ActivatePlan, PlanRow
  <2> QED BY <2>2 DEF HasPlan, LivePlan
<1> QED BY <1>1, <1>2 DEF PlanNext

\* Every step keeps a live plan beside a live payment.
LEMMA PaymentHasPlanStep ==
    ASSUME TypeOK, LiveActionIsIntact, Funded, PaymentHasPlan, [Next]_vars
    PROVE  PaymentHasPlan'
<1>1. ASSUME HasPayment => HasPlan', HasPayment' => HasPayment
      PROVE  PaymentHasPlan'
  BY <1>1 DEF PaymentHasPlan
<1>2. ASSUME UNCHANGED plan
      PROVE  HasPlan' <=> HasPlan
  BY <1>2 DEF HasPlan
<1>3. ASSUME UNCHANGED action
      PROVE  HasPayment' <=> HasPayment
  BY <1>3 DEF HasPayment
<1>4. CASE UNCHANGED vars
  BY <1>1, <1>2, <1>3, <1>4 DEF vars, PaymentHasPlan
<1>5. CASE Reset
  BY <1>5 DEF Reset, NoAction, LiveAction, HasPayment, PaymentHasPlan
<1>6. CASE LoadMaya
  BY <1>1, <1>2, <1>3, <1>6 DEF LoadMaya, PaymentHasPlan
<1>7. CASE Invalidate
  BY <1>7, InvalidateBlocks DEF PaymentHasPlan, HasPayment
<1>8. CASE FundNext \/ ObligationNext
  BY <1>7, <1>8 DEF FundNext, ObligationNext, AddFund, PatchFund, AddObligation,
                    PatchObligation, VerifyBeneficiary, ExtractFlagged
<1>9. ASSUME NEW b, RefreshActionApprovers(b)
      PROVE  PaymentHasPlan'
  <2>1. HasPayment' => HasPayment
    BY <1>9 DEF RefreshActionApprovers, TypeOK, HasPayment
  <2> QED BY <1>1, <1>2, <1>9, <2>1 DEF RefreshActionApprovers, PaymentHasPlan
<1>10. CASE PermissionNext
  BY <1>1, <1>2, <1>3, <1>7, <1>9, <1>10
     DEF PermissionNext, GrantFunding, GrantObligation, GrantPlan, GrantAction, Revoke,
         PaymentHasPlan
<1>11. CASE PlanNext
  BY <1>1, <1>3, <1>11, PlanStepHasPlan
     DEF PlanNext, GeneratePlan, ActivatePlan, PaymentHasPlan
<1>12. CASE ActionNext
  <2>1. ASSUME NEW a \in Action, NEW p \in Plan, NEW o \in Obligation, Prepare(a, p, o)
        PROVE  HasPlan'
    <3>1. plan' = plan /\ Fresh(p) /\ plan[p] \in PlanRow
      BY <2>1 DEF Prepare, TypeOK
    <3> QED BY <3>1 DEF HasPlan, Fresh, LivePlan, PlanRow, PlanStatus
  <2>2. ASSUME NEW a \in Action, NEW x \in Actor, Approve(a, x)
        PROVE  PaymentHasPlan'
    <3>1. HasPayment
      BY <2>2 DEF Approve, HasPayment
    <3> QED BY <1>2, <2>2, <3>1 DEF Approve, PaymentHasPlan
  <2>3. ASSUME NEW a \in Action, UNCHANGED plan,
               action' = [action EXCEPT ![a].status = "BLOCKED"]
        PROVE  PaymentHasPlan'
    <3>1. HasPayment' => HasPayment
      BY <2>3 DEF HasPayment, TypeOK, ActionRow, LiveAction
    <3> QED BY <1>1, <1>2, <2>3, <3>1 DEF PaymentHasPlan
  <2>4. ASSUME NEW a \in Action, Execute(a)
        PROVE  PaymentHasPlan'
    BY <2>4, ExecutePays, RenewalAdds DEF Funded, PaymentHasPlan
  <2> QED BY <1>12, <2>1, <2>2, <2>3, <2>4
          DEF ActionNext, ApproveBlocked, ExecuteBlocked, PaymentHasPlan
<1> QED BY <1>4, <1>5, <1>6, <1>8, <1>10, <1>11, <1>12 DEF Next

\* A step that blocks an action and leaves the plans alone moves nothing.
LEMMA BlockingMovesNothing ==
    ASSUME TypeOK, LiveActionIsIntact, Funded, PaymentHasPlan, [Next]_vars, NEW a \in Action,
           action[a].status # "BLOCKED", action'[a].status = "BLOCKED", plan' = plan
    PROVE  UNCHANGED <<fund, obligation>>
<1>0. action[a] \in ActionRow
  BY DEF TypeOK
<1>1. ~UNCHANGED action
  OBVIOUS
<1>2. ~Invalidate
  <2>1. SUFFICES ASSUME Invalidate PROVE FALSE
    OBVIOUS
  <2>2. action[a].status \in LiveAction
    BY <2>1 DEF Invalidate, BlockLive
  <2>3. HasPlan
    BY <2>2 DEF PaymentHasPlan, HasPayment
  <2>4. Generate(RetireLive(plan))
    BY <2>1, <2>3 DEF Invalidate, HasPlan
  <2> QED BY <2>4, RenewalAdds
<1>3. \A b \in Action : ~Execute(b)
  BY ExecutePays, RenewalAdds DEF Funded
<1>4. ~Reset
  BY DEF Reset, NoAction
<1>5. ~(FundNext \/ ObligationNext)
  BY <1>2 DEF FundNext, ObligationNext, AddFund, PatchFund, AddObligation,
              PatchObligation, VerifyBeneficiary, ExtractFlagged
<1>6. ~(LoadMaya \/ UNCHANGED vars)
  BY <1>1 DEF LoadMaya, vars
<1>7. PermissionNext \/ PlanNext => UNCHANGED <<fund, obligation>>
  BY DEF PermissionNext, GrantFunding, GrantObligation, GrantPlan, GrantAction, Revoke,
         PlanNext, GeneratePlan, ActivatePlan
<1>8. ActionNext => UNCHANGED <<fund, obligation>> \/ \E b \in Action : Execute(b)
  BY DEF ActionNext, Prepare, Approve, ApproveBlocked, ExecuteBlocked
<1> QED BY <1>3, <1>4, <1>5, <1>6, <1>7, <1>8 DEF Next

\* A live plan stands beside every live payment.
THEOREM PaymentsHavePlans == Spec => []PaymentHasPlan
<1>1. Init => PaymentHasPlan
  BY DEF Init, NoAction, LiveAction, PaymentHasPlan, HasPayment
<1>2. TypeOK /\ LiveActionIsIntact /\ Funded /\ PaymentHasPlan /\ [Next]_vars
        => PaymentHasPlan'
  BY PaymentHasPlanStep
<1> QED BY <1>1, <1>2, TypeCorrect, IntactCorrect, FundedCorrect, PTL DEF Spec

\* blocked: a request that ends by blocking one action commits no debit and pays
\* nothing, although blocked() commits whatever the handler changed before.
THEOREM RefusalsMoveNothing == Spec => BlockedMovesNothing
<1>1. TypeOK /\ LiveActionIsIntact /\ Funded /\ PaymentHasPlan /\ [Next]_vars
        => [\A a \in Action :
              /\ action[a].status # "BLOCKED"
              /\ action'[a].status = "BLOCKED"
              /\ plan' = plan
              => fund' = fund /\ obligation' = obligation]_vars
  BY BlockingMovesNothing
<1> QED BY <1>1, TypeCorrect, IntactCorrect, FundedCorrect, PaymentsHavePlans, PTL
        DEF Spec, BlockedMovesNothing
=============================================================================
