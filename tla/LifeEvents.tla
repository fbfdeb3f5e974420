----------------------------- MODULE LifeEvents -----------------------------
(***************************************************************************)
(* The private ledger of life events (apps/api/routes_life.py,             *)
(* lattice_core/life/service.py and effects.py): a captured sentence       *)
(* becomes a reviewed proposal, a real one is confirmed, counts as pending *)
(* in the canonical state (lattice_core/state.py), and is applied to the   *)
(* ledger once.  A handler is one action, as in ActionFlow; a request that *)
(* raises changes nothing, and one that carries an old event version       *)
(* raises, so only requests that carry the current version are taken.      *)
(*                                                                         *)
(* One student, one currency, one day.  Plans and payments appear as the   *)
(* events see them: a live plan is the state it was generated from, a live *)
(* action pays one bill whole from one source of the student's own, with   *)
(* approvals taken for given; ActionFlow has the rest.                     *)
(***************************************************************************)
EXTENDS Integers, FiniteSetsExt

CONSTANTS
    Event,          \* life event slots
    None,           \* no link
    SeedSource,     \* rows of the sources there before any event
    OwnSource,      \* those of them that are the student's own
    SeedBill,       \* amounts of the payable commitments there before any event
    Proposals,      \* the proposals a request may carry, links apart
    Amounts,        \* the amounts a changed recurrence may carry
    Corrections,    \* the corrections of a source its owner may send
    MaxDates,       \* bound: dates a recurrence materializes
    MaxVersion      \* bound: event and commitment versions are 1..MaxVersion

(***************************************************************************)
(* The identifier of a source or commitment that an event creates is       *)
(* derived from the event's own (add_financial), so the event stands for   *)
(* the source and <<event, date>> for the commitment.                      *)
(***************************************************************************)
Bill == DOMAIN SeedBill
Source == DOMAIN SeedSource \cup Event
Debt == Bill \cup (Event \X (1..MaxDates))

EXPENSES == {"PURCHASE_INTENT", "EXPENSE_OCCURRED", "LENDING"}
EXPECTED == {"FUNDING_EXPECTED", "REIMBURSEMENT_EXPECTED"}
OBLIGATIONS == {"NEW_OBLIGATION", "RECURRING_EXPENSE"}
OVERLAYS == {"FUNDING_REDUCED", "ACCOUNT_UNAVAILABLE"}
Received == {"FUNDING_RECEIVED", "BORROWING"}
NeverApplied == {"PURCHASE_INTENT", "OTHER", "SECURITY_INCIDENT"}
EventType == EXPENSES \cup EXPECTED \cup OBLIGATIONS \cup OVERLAYS
             \cup Received \cup NeverApplied \cup {"OBLIGATION_CHANGED"}

\* A proposal: amount 0 stands for an amount that was not given, owed for the
\* part of a shared bill someone else owes, flagged for detected instructions.
Proposal == [type : EventType, mode : {"HYPOTHETICAL", "ACTUAL", "EXPECTED"},
             amount : Nat, owed : Nat, delta : BOOLEAN, recurs : BOOLEAN,
             flagged : BOOLEAN]
NoProposal == [type |-> "OTHER", mode |-> "HYPOTHETICAL", amount |-> 0,
               owed |-> 0, delta |-> FALSE, recurs |-> FALSE, flagged |-> FALSE]

FundStatus == {"NONE", "AVAILABLE", "EXPECTED", "LOCKED", "DISPUTED"}
SourceRow == [amount : Nat, reserve : Nat, status : FundStatus]
NoSource == [amount |-> 0, reserve |-> 0, status |-> "NONE"]
DebtRow == [amount : Nat, status : {"NONE", "OPEN", "PAID", "SANDBOX_PAID"},
            version : Nat]
NoDebt == [amount |-> 0, status |-> "NONE", version |-> 0]

ASSUME SlotAssumption ==
    /\ Event \cap DOMAIN SeedSource = {}
    /\ None \notin Source \cup Debt
    /\ Bill \cap (Event \X (1..MaxDates)) = {}
    /\ OwnSource \subseteq DOMAIN SeedSource
ASSUME FiniteAssumption ==
    IsFiniteSet(Event) /\ IsFiniteSet(DOMAIN SeedSource) /\ IsFiniteSet(Bill)
ASSUME SeedAssumption ==
    /\ \A f \in DOMAIN SeedSource :
          /\ SeedSource[f] \in SourceRow
          /\ SeedSource[f].status # "NONE"
          /\ SeedSource[f].reserve <= SeedSource[f].amount
    /\ \A b \in Bill : SeedBill[b] \in Nat \ {0}
ASSUME InputAssumption ==
    /\ Proposals \subseteq Proposal
    /\ \A p \in Proposals : p.type = "EXPENSE_OCCURRED" => p.owed <= p.amount
    /\ Amounts \subseteq Nat
    /\ Corrections \subseteq [source : Source, amount : Nat, status : FundStatus \ {"NONE"}]
    /\ MaxDates \in Nat \ {0} /\ MaxVersion \in Nat \ {0, 1}

VARIABLES
    event,          \* life event rows
    fund,           \* funding source rows
    debt,           \* commitment rows
    plans,          \* the snapshots of the live plans
    actions         \* the live prepared payments

vars == <<event, fund, debt, plans, actions>>

(***************************************************************************)
(* An event row: proposal with its links (fund, debt), linked (the column  *)
(* linked_funding_source_id), flagged (original_security_flags), hash      *)
(* (confirmed_state_hash), overlay and posted (the amount in metadata      *)
(* "ledger").                                                              *)
(***************************************************************************)
Own(f) == f \in OwnSource \cup Event

NoOverlay == [fund |-> None, lock |-> FALSE, cap |-> 0]
NoEvent == [status |-> "NONE", version |-> 0, p |-> NoProposal, fund |-> None,
            debt |-> None, linked |-> None, flagged |-> FALSE, hash |-> None,
            overlay |-> NoOverlay, posted |-> 0]

EventStatus == {"NONE", "INTERPRETED", "REVIEW_REQUIRED", "SIMULATED",
                "CONFIRMED", "APPLIED", "RESOLVED", "DISMISSED"}
Reviewable == {"INTERPRETED", "REVIEW_REQUIRED", "SIMULATED", "CONFIRMED"}
Closed == {"NONE", "RESOLVED", "DISMISSED"}

-----------------------------------------------------------------------------
(* The canonical state *)

PendingIn(ev) ==
    {e \in Event : ev[e].status = "CONFIRMED" /\ ev[e].p.mode # "HYPOTHETICAL"}
Pending == PendingIn(event)

ReportsOn(f, ev) ==
    {e \in Event : ev[e].status = "APPLIED" /\ ev[e].overlay.fund = f}

\* A source as the applied reports leave it: no more than the smallest recorded
\* cap, locked if any report says so.
Projected(f, ev, row) ==
    LET caps == {ev[e].overlay.cap : e \in {r \in ReportsOn(f, ev) : ~ev[r].overlay.lock}}
        amount == Min({row.amount} \cup caps)
    IN  [amount |-> amount, reserve |-> Min({amount, row.reserve}),
         status |-> IF \E e \in ReportsOn(f, ev) : ev[e].overlay.lock
                    THEN "LOCKED" ELSE row.status]

\* financial_state; its hash is modelled as the value itself.
StateOf(ev, fu, de) ==
    [fund |-> [f \in Source |-> Projected(f, ev, fu[f])],
     debt |-> de,
     pending |-> {<<e, ev[e].version>> : e \in PendingIn(ev)}]
FinancialState == StateOf(event, fund, debt)

\* invalidate with a replacement plan, and with replan=False.
Invalidate ==
    /\ actions' = {}
    /\ plans' = IF plans = {} THEN {} ELSE {FinancialState'}
Retire == actions' = {} /\ plans' = {}

\* invalidate, then generate when there was nothing to replace.
Replan == actions' = {} /\ plans' = {FinancialState'}

-----------------------------------------------------------------------------
(* Capture and review *)

\* missing_fields; dates are always given here.
MissingFields(p, f, d, actual) ==
    \/ p.flagged \/ p.type = "SECURITY_INCIDENT"
    \/ p.type = "OTHER" /\ actual
    \/ p.type \notin {"OTHER", "ACCOUNT_UNAVAILABLE"} /\ p.amount = 0
    \/ p.type \in OVERLAYS /\ f = None
    \/ p.type \in EXPENSES /\ actual /\ f = None
    \/ p.type = "OBLIGATION_CHANGED" /\ d = None
    \/ p.type = "RECURRING_EXPENSE" /\ ~p.recurs

\* Mutant: a commitment may be settled whatever its status.
LinksWithoutStatus(p, f, d) ==
    /\ f # None => /\ fund[f].status # "NONE"
                   /\ p.type \notin OVERLAYS => Own(f)
    /\ d # None => /\ debt[d].status # "NONE"
                   /\ p.type = "EXPENSE_OCCURRED" =>
                        d \notin Bill /\ debt[d].amount = p.amount

\* validate_links
ValidLinks(p, f, d) ==
    /\ f # None => /\ fund[f].status # "NONE"
                   /\ p.type \notin OVERLAYS => Own(f)
    /\ d # None => /\ debt[d].status = "OPEN"
                   /\ p.type = "EXPENSE_OCCURRED" =>
                        d \notin Bill /\ debt[d].amount = p.amount

\* The links of the proposals that read them: requests carry no others.
FundLinks(p) ==
    IF p.type \in EXPENSES \cup OVERLAYS \cup EXPECTED
    THEN Source \cup {None} ELSE {None}
DebtLinks(p) ==
    IF p.type \in {"EXPENSE_OCCURRED", "OBLIGATION_CHANGED"}
    THEN Debt \cup {None} ELSE {None}

\* store_proposal.  A hash is read of a confirmed event only; other rows drop it.
Stored(row, p, f, d) ==
    [row EXCEPT !.p = p, !.fund = f, !.debt = d, !.linked = f, !.hash = None,
                !.version = row.version + 1]

Moved(row, status) ==
    [row EXCEPT !.status = status, !.hash = None, !.version = row.version + 1]

New(p, status) ==
    [NoEvent EXCEPT !.status = status, !.version = 1, !.p = p,
                    !.flagged = p.flagged]

Capture(e, p) ==
    /\ event[e].status = "NONE"
    /\ event' = [event EXCEPT ![e] =
          New(p, IF MissingFields(p, None, None, FALSE)
                 THEN "REVIEW_REQUIRED" ELSE "INTERPRETED")]
    /\ UNCHANGED <<fund, debt, plans, actions>>

\* capture and simulate in one request, always as a hypothetical.
PurchaseCheck(e, p) ==
    LET shadow == [p EXCEPT !.mode = "HYPOTHETICAL"]
    IN  /\ event[e].status = "NONE"
        /\ event' = [event EXCEPT ![e] =
              [Stored(New(p, "NONE"), shadow, None, None) EXCEPT !.status =
                  IF MissingFields(shadow, None, None, FALSE)
                  THEN "REVIEW_REQUIRED" ELSE "SIMULATED"]]
        /\ UNCHANGED <<fund, debt, plans, actions>>

\* Mutant: the flags are those the reviewed proposal carries.
FlagsAsGiven(e, p) == p

\* reviewed: the flags found at capture are never dropped by an edit.
Flagged(e, p) == [p EXCEPT !.flagged = @ \/ event[e].flagged]

Reviewed(e, p, f, d) ==
    /\ event[e].status \in Reviewable
    /\ event[e].version < MaxVersion
    /\ ValidLinks(p, f, d)

Simulate(e, proposal, f, d) ==
    LET p == Flagged(e, proposal)
    IN  /\ Reviewed(e, p, f, d)
        /\ event' = [event EXCEPT ![e] =
              [Stored(@, p, f, d) EXCEPT !.status =
                  IF MissingFields(p, f, d, FALSE)
                  THEN "REVIEW_REQUIRED" ELSE "SIMULATED"]]
        /\ UNCHANGED <<fund, debt>>
        /\ IF e \in Pending THEN Retire ELSE UNCHANGED <<plans, actions>>

Confirmable(e, p, f, d) ==
    /\ Reviewed(e, p, f, d)
    /\ ~p.flagged
    /\ ~MissingFields(p, f, d, p.mode # "HYPOTHETICAL")

\* The hash is taken of the state that already counts this event as pending.
Recorded(e, p, f, d) ==
    LET confirmed == [event EXCEPT ![e] =
            [Stored(@, p, f, d) EXCEPT !.status = "CONFIRMED"]]
    IN  event' = [confirmed EXCEPT ![e].hash = StateOf(confirmed, fund, debt)]

\* Mutant: a confirmation leaves plans and prepared payments as they are.
ConfirmQuietly(e, proposal, f, d) ==
    LET p == Flagged(e, proposal)
    IN  /\ Confirmable(e, p, f, d)
        /\ Recorded(e, p, f, d)
        /\ UNCHANGED <<fund, debt, plans, actions>>

Confirm(e, proposal, f, d) ==
    LET p == Flagged(e, proposal)
    IN  /\ Confirmable(e, p, f, d)
        /\ Recorded(e, p, f, d)
        /\ UNCHANGED <<fund, debt>>
        /\ IF p.mode # "HYPOTHETICAL" THEN Retire ELSE UNCHANGED <<plans, actions>>

-----------------------------------------------------------------------------
(* Application to the ledger *)

Applicable(e) ==
    LET row == event[e]
    IN  /\ e \in Pending
        /\ row.version < MaxVersion
        /\ row.p.type \notin NeverApplied
        /\ ~row.p.flagged
        /\ ~MissingFields(row.p, row.fund, row.debt, TRUE)
        /\ ValidLinks(row.p, row.fund, row.debt)
        /\ row.hash = FinancialState

Applied(e) ==
    [Moved(event[e], "APPLIED") EXCEPT !.posted = event[e].p.amount]

\* Mutant: the protected reserve is spent with the rest.
CoversWithReserve(f, amount) ==
    /\ Own(f)
    /\ Projected(f, event, fund[f]).status = "AVAILABLE"
    /\ amount <= Projected(f, event, fund[f]).amount

\* transform: the debit of an expense comes whole from the chosen source as the
\* reports leave it, above its reserve; apply checks the row once more.
Covers(f, amount) ==
    LET view == Projected(f, event, fund[f])
    IN  /\ Own(f)
        /\ view.status = "AVAILABLE"
        /\ amount <= view.amount - view.reserve
        /\ fund[f].amount - amount >= fund[f].reserve

\* A shared bill or a loan creates an event of its own for what is owed back.
Receivable(p) == IF p.type = "LENDING" /\ p.owed = 0 THEN p.amount ELSE p.owed
ChildOf(p) ==
    New([NoProposal EXCEPT !.type = "REIMBURSEMENT_EXPECTED", !.mode = "EXPECTED",
                           !.amount = Receivable(p)], "REVIEW_REQUIRED")
FreeChildren(p) ==
    IF Receivable(p) = 0 THEN {{}}
    ELSE {{c} : c \in {x \in Event : event[x].status = "NONE"}}

ApplyExpense(e) ==
    LET p == event[e].p
        f == event[e].fund
        settled == {event[e].debt} \ {None}
    IN  /\ Applicable(e)
        /\ p.type \in EXPENSES
        /\ Covers(f, p.amount)
        /\ fund' = [fund EXCEPT ![f].amount = @ - p.amount]
        /\ debt' = [d \in Debt |->
              IF d \in settled
              THEN [debt[d] EXCEPT !.status = "PAID", !.version = @ + 1]
              ELSE debt[d]]
        /\ \E children \in FreeChildren(p) :
              event' = [x \in Event |->
                  IF x = e THEN Applied(e)
                  ELSE IF x \in children THEN ChildOf(p) ELSE event[x]]
        /\ Replan

\* Expected money becomes a source that cannot be spent; received or borrowed
\* money is available at once, borrowed money together with its repayment.
ApplyFunding(e) ==
    LET p == event[e].p
    IN  /\ Applicable(e)
        /\ p.type \in EXPECTED \cup Received
        /\ fund' = [fund EXCEPT ![e] =
              [amount |-> p.amount, reserve |-> 0,
               status |-> IF p.type \in Received THEN "AVAILABLE" ELSE "EXPECTED"]]
        /\ debt' = IF p.type = "BORROWING"
                   THEN [debt EXCEPT ![<<e, 1>>] =
                          [amount |-> p.amount, status |-> "OPEN", version |-> 1]]
                   ELSE debt
        /\ event' = [event EXCEPT ![e] = [Applied(e) EXCEPT !.linked = e]]
        /\ Replan

ApplyObligation(e) ==
    LET p == event[e].p
        dates == IF p.type = "RECURRING_EXPENSE" THEN 1..MaxDates ELSE {1}
    IN  /\ Applicable(e)
        /\ p.type \in OBLIGATIONS
        /\ debt' = [d \in Debt |->
              IF d \in {e} \X dates
              THEN [amount |-> p.amount, status |-> "OPEN", version |-> 1]
              ELSE debt[d]]
        /\ event' = [event EXCEPT ![e] = Applied(e)]
        /\ UNCHANGED fund
        /\ Replan

ApplyChange(e) ==
    LET p == event[e].p
        d == event[e].debt
        owed == IF p.delta THEN debt[d].amount + p.amount ELSE p.amount
    IN  /\ Applicable(e)
        /\ p.type = "OBLIGATION_CHANGED"
        /\ debt[d].version < MaxVersion
        /\ debt' = [debt EXCEPT ![d] =
              [debt[d] EXCEPT !.amount = owed, !.version = debt[d].version + 1]]
        /\ event' = [event EXCEPT ![e] = Applied(e)]
        /\ UNCHANGED fund
        /\ Replan

\* A report only changes how the state shows the source: it records what the
\* source, as shown now, is reduced to, or that it is locked.
ApplyReport(e) ==
    LET p == event[e].p
        f == event[e].fund
        shown == Projected(f, event, fund[f]).amount
        cap == IF p.delta THEN Max({0, shown - p.amount}) ELSE Min({shown, p.amount})
    IN  /\ Applicable(e)
        /\ p.type \in OVERLAYS
        /\ event' = [event EXCEPT ![e] = [Applied(e) EXCEPT !.overlay =
              IF p.type = "FUNDING_REDUCED"
              THEN [fund |-> f, lock |-> FALSE, cap |-> cap]
              ELSE [fund |-> f, lock |-> TRUE, cap |-> 0]]]
        /\ UNCHANGED <<fund, debt>>
        /\ Replan

-----------------------------------------------------------------------------
(* Afterwards *)

\* Mutant: whether the money has arrived is not asked.
OwnExpectation(f) == Own(f)

\* An expectation can be received or cancelled while its source says EXPECTED.
Unreceived(f) == Own(f) /\ fund[f].status = "EXPECTED"

\* Mutant: only a confirmed event retires plans when it is dismissed.
OnlyConfirmed(e) == event[e].status = "CONFIRMED"

\* dismiss: the event was confirmed, in any mode, or created a source.
HasWeight(e) == event[e].status \in {"CONFIRMED", "APPLIED"}

\* dismiss: an idea or pending record is closed, an expectation cancelled.
Dismiss(e) ==
    LET row == event[e]
        cancelled == IF row.status = "APPLIED" THEN {row.linked} \ {None} ELSE {}
    IN  /\ row.status \notin Closed
        /\ row.status = "APPLIED" => row.p.type \in EXPECTED
        /\ row.version < MaxVersion
        /\ \A f \in cancelled : Unreceived(f)
        /\ fund' = [f \in Source |->
              IF f \in cancelled THEN [fund[f] EXCEPT !.status = "DISPUTED"] ELSE fund[f]]
        /\ event' = [event EXCEPT ![e] = Moved(@, "DISMISSED")]
        /\ UNCHANGED debt
        /\ IF HasWeight(e) THEN Invalidate ELSE UNCHANGED <<plans, actions>>

\* received: the linked expectation becomes available money, or a new source is
\* created under the identifier derived from the event, which must be unused.
Receive(e) ==
    LET row == event[e]
        linked == IF row.linked = None THEN e ELSE row.linked
    IN  /\ row.status \notin Closed
        /\ row.p.type \in EXPECTED
        /\ ~row.p.flagged
        /\ row.p.amount > 0
        /\ row.version < MaxVersion
        /\ IF row.linked = None
           THEN /\ fund[e].status = "NONE"
                /\ fund' = [fund EXCEPT ![e] =
                      [amount |-> row.p.amount, reserve |-> 0, status |-> "AVAILABLE"]]
           ELSE /\ Unreceived(linked)
                /\ fund' = [fund EXCEPT ![linked].status = "AVAILABLE"]
        /\ event' = [event EXCEPT ![e] =
              [Moved(@, "RESOLVED") EXCEPT !.linked = linked]]
        /\ UNCHANGED debt
        /\ Invalidate

Resolve(e) ==
    /\ event[e].status = "APPLIED"
    /\ event[e].p.type \notin EXPECTED
    /\ ~event[e].p.recurs
    /\ event[e].version < MaxVersion
    /\ event' = [event EXCEPT ![e] = Moved(@, "RESOLVED")]
    /\ UNCHANGED <<fund, debt>>
    /\ IF event[e].p.type \in OVERLAYS THEN Invalidate ELSE UNCHANGED <<plans, actions>>

\* The bit that mutes the reminder is read by the inbox only and left out.
Reminder(e) ==
    /\ event[e].status # "NONE"
    /\ event[e].version < MaxVersion
    /\ event' = [event EXCEPT ![e].version = @ + 1]
    /\ UNCHANGED <<fund, debt, plans, actions>>

\* recurrence: the open dates take the new amount, and the proposal is stored
\* again, which resets the linked source to the one the proposal names.
ChangeRecurrence(e, amount) ==
    LET row == event[e]
        dates == {d \in {e} \X (1..MaxDates) : debt[d].status = "OPEN"}
    IN  /\ row.status = "APPLIED"
        /\ row.p.recurs
        /\ amount > 0
        /\ row.version < MaxVersion
        /\ \A d \in dates : debt[d].version < MaxVersion
        /\ debt' = [d \in Debt |->
              IF d \in dates
              THEN [debt[d] EXCEPT !.amount = amount, !.version = @ + 1]
              ELSE debt[d]]
        /\ event' = [event EXCEPT ![e] =
              Stored(@, [row.p EXCEPT !.amount = amount], row.fund, row.debt)]
        /\ UNCHANGED fund
        /\ Invalidate

-----------------------------------------------------------------------------
(* The rest of the application, as the ledger meets it *)

\* Mutant: a correction leaves plans and prepared payments as they are.
PatchQuietly(f, amount, status) ==
    /\ fund[f].status # "NONE"
    /\ amount >= fund[f].reserve
    /\ fund' = [fund EXCEPT ![f] = [@ EXCEPT !.amount = amount, !.status = status]]
    /\ UNCHANGED <<event, debt, plans, actions>>

\* patch_fund
PatchFund(f, amount, status) ==
    /\ fund[f].status # "NONE"
    /\ amount >= fund[f].reserve
    /\ fund' = [fund EXCEPT ![f] = [@ EXCEPT !.amount = amount, !.status = status]]
    /\ UNCHANGED <<event, debt>>
    /\ Invalidate

GeneratePlan ==
    /\ plans' = plans \cup {FinancialState}
    /\ UNCHANGED <<event, fund, debt, actions>>

\* prepare: a fresh plan, nothing pending, and certain money for the bill.
Prepare(b, f) ==
    /\ Pending = {}
    /\ FinancialState \in plans
    /\ debt[b].status = "OPEN"
    /\ Covers(f, debt[b].amount)
    /\ actions' = actions \cup {[hash |-> FinancialState, bill |-> b, source |-> f]}
    /\ UNCHANGED <<event, fund, debt, plans>>

\* execute
Pay(a) ==
    /\ a.hash = FinancialState
    /\ fund[a.source].amount - debt[a.bill].amount >= fund[a.source].reserve
    /\ fund' = [fund EXCEPT ![a.source].amount = @ - debt[a.bill].amount]
    /\ debt' = [debt EXCEPT ![a.bill].status = "SANDBOX_PAID"]
    /\ UNCHANGED event
    /\ Replan

-----------------------------------------------------------------------------

Init ==
    /\ event = [e \in Event |-> NoEvent]
    /\ fund = [f \in Source |->
          IF f \in DOMAIN SeedSource THEN SeedSource[f] ELSE NoSource]
    /\ debt = [d \in Debt |->
          IF d \in Bill
          THEN [amount |-> SeedBill[d], status |-> "OPEN", version |-> 1]
          ELSE NoDebt]
    /\ plans = {}
    /\ actions = {}

ReviewNext(e) ==
    \E p \in Proposals :
        \/ Capture(e, p)
        \/ PurchaseCheck(e, p)
        \/ \E f \in FundLinks(p), d \in DebtLinks(p) :
              Simulate(e, p, f, d) \/ Confirm(e, p, f, d)

ApplyNext(e) ==
    \/ ApplyExpense(e) \/ ApplyFunding(e) \/ ApplyObligation(e)
    \/ ApplyChange(e) \/ ApplyReport(e)

AfterNext(e) ==
    \/ Dismiss(e) \/ Receive(e) \/ Resolve(e) \/ Reminder(e)
    \/ \E amount \in Amounts : ChangeRecurrence(e, amount)

OtherNext ==
    \/ GeneratePlan
    \/ \E c \in Corrections : PatchFund(c.source, c.amount, c.status)
    \/ \E b \in Bill, f \in Source : Prepare(b, f)
    \/ \E a \in actions : Pay(a)

Next ==
    \/ \E e \in Event : ReviewNext(e) \/ ApplyNext(e) \/ AfterNext(e)
    \/ OtherNext

Spec == Init /\ [][Next]_vars

-----------------------------------------------------------------------------
(* Properties *)

State == [fund : [Source -> SourceRow], debt : [Debt -> DebtRow],
          pending : SUBSET (Event \X Nat)]

\* Every row is one the schema admits; in particular no debit makes a balance
\* negative or takes it below the protected reserve.
TypeOK ==
    /\ event \in [Event ->
          [status : EventStatus, version : 0..MaxVersion, p : Proposal,
           fund : Source \cup {None}, debt : Debt \cup {None},
           linked : Source \cup {None}, flagged : BOOLEAN,
           hash : State \cup {None}, posted : Nat,
           overlay : [fund : Source \cup {None}, lock : BOOLEAN, cap : Nat]]]
    /\ fund \in [Source -> SourceRow]
    /\ \A f \in Source : fund[f].reserve <= fund[f].amount
    /\ debt \in [Debt -> DebtRow]
    /\ plans \subseteq State
    /\ actions \subseteq [hash : State, bill : Bill, source : Source]

\* What an event has put into, or taken from, the money that can be spent.
Counted(e) == event[e].status \in {"APPLIED", "RESOLVED"}
Brought(e) ==
    IF event[e].p.type \in Received /\ Counted(e) THEN event[e].posted
    ELSE IF event[e].p.type \in EXPECTED /\ event[e].status = "RESOLVED"
    THEN LET origin == event[e].linked
         IN  IF origin \in DOMAIN SeedSource THEN SeedSource[origin].amount
             ELSE IF event[origin].posted > 0 THEN event[origin].posted
             ELSE event[origin].p.amount
    ELSE 0

Took(e) ==
    IF event[e].p.type \in EXPENSES /\ Counted(e) THEN event[e].posted ELSE 0

\* What can be spent of a source, and could at the start, and what a bill has taken.
Spendable(f) == IF Own(f) /\ fund[f].status = "AVAILABLE" THEN fund[f].amount ELSE 0
Opening(f) == IF SeedSource[f].status = "AVAILABLE" THEN SeedSource[f].amount ELSE 0
Paid(b) == IF debt[b].status = "SANDBOX_PAID" THEN debt[b].amount ELSE 0

\* apply and received: where the owner corrects no balance, her spendable money
\* is what she opened with, plus every receipt and loan once, less every applied
\* expense once and every executed payment once - however often events were
\* reviewed, reopened, linked to the same source or retried.
MoneyAccounted ==
    SumFunctionOnSet([f \in Source |-> Spendable(f)], Source)
        = SumFunctionOnSet([f \in OwnSource |-> Opening(f)], OwnSource)
          + SumFunctionOnSet([e \in Event |-> Brought(e)], Event)
          - SumFunctionOnSet([e \in Event |-> Took(e)], Event)
          - SumFunctionOnSet([b \in Bill |-> Paid(b)], Bill)

\* validate_links and transform: a budget commitment is settled by exactly one
\* applied expense, of its full amount, and every applied expense that names a
\* commitment has settled it.
Settles(e, d) ==
    event[e].p.type = "EXPENSE_OCCURRED" /\ Counted(e) /\ event[e].debt = d
SettledOnce ==
    \A d \in Debt \ Bill :
        /\ debt[d].status = "PAID" =>
              \E e \in Event : Settles(e, d) /\ event[e].posted = debt[d].amount
        /\ \A e \in Event : Settles(e, d) =>
              /\ debt[d].status = "PAID"
              /\ \A x \in Event : Settles(x, d) => x = e

\* payment_block_reason and invalidate: a payment awaiting approval or execution
\* stands on the current state and never beside a pending event, so no payment
\* can spend what a confirmed event is about to.
NoPaymentBesidePending ==
    actions # {} => Pending = {} /\ \A a \in actions : a.hash = FinancialState

\* invalidate: a live plan knows the current balances, commitments and reports,
\* whichever event changed them last.
PlansKnowTheMoney ==
    \A s \in plans : s.fund = FinancialState.fund /\ s.debt = debt

\* reviewed: an event captured with injected instructions is never confirmed and
\* never reaches the ledger, whatever later reviews of it leave out.
FlaggedNeverCounts ==
    \A e \in Event : event[e].flagged =>
        event[e].status \notin {"CONFIRMED", "APPLIED", "RESOLVED"}

\* docs/threat-model.md: "Generic dismissal cannot reverse applied debits,
\* delete a repayment, or cancel received money."
DismissalReversesNothing ==
    [][(\E e \in Event : event'[e].status = "DISMISSED" /\ event[e].status # "DISMISSED")
       => /\ debt' = debt
          /\ \A f \in Source : fund[f].status = "AVAILABLE" => fund'[f] = fund[f]]_vars

\* docs/api.md: the recurrence endpoint is to "change amount of future unpaid
\* entries" - an applied expectation stays linked to the source it created, which
\* its receipt makes available and its dismissal disputes.
ExpectationKeepsItsSource ==
    \A e \in Event :
        event[e].status = "APPLIED" /\ event[e].p.type \in EXPECTED =>
            event[e].linked = e
=============================================================================
