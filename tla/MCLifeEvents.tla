---------------------------- MODULE MCLifeEvents ----------------------------
(***************************************************************************)
(* Small instances of LifeEvents: the student's account cash, a            *)
(* contribution gift of a parent, one payable commitment rent, and two or  *)
(* three events.                                                           *)
(***************************************************************************)
EXTENDS LifeEvents, TLC

CONSTANTS e1, e2, e3            \* life events
CONSTANTS cash, gift            \* funding sources
CONSTANTS rent                  \* a payable commitment

Slots == Permutations(Event)

Given(amount, reserve, status) ==
    [amount |-> amount, reserve |-> reserve, status |-> status]
MCCash == (cash :> Given(2, 1, "AVAILABLE"))
MCFamily == (cash :> Given(3, 1, "AVAILABLE")) @@ (gift :> Given(2, 0, "AVAILABLE"))
MCBlocked == {[source |-> cash, amount |-> 3, status |-> "LOCKED"]}
MCNoBill == <<>>
MCRent == (rent :> 1)

Said(type, mode) ==
    [NoProposal EXCEPT !.type = type, !.mode = mode, !.amount = 1]
Idea == Said("OTHER", "HYPOTHETICAL")
Expense == Said("EXPENSE_OCCURRED", "ACTUAL")
SharedBill == [Expense EXCEPT !.owed = 1]
Subscription == [Said("RECURRING_EXPENSE", "ACTUAL") EXCEPT !.recurs = TRUE]
Refund == Said("FUNDING_EXPECTED", "EXPECTED")
Allowance == [Refund EXCEPT !.recurs = TRUE]
Reduction == [Said("FUNDING_REDUCED", "ACTUAL") EXCEPT !.delta = TRUE]
Increase == [Said("OBLIGATION_CHANGED", "ACTUAL") EXCEPT !.delta = TRUE]
Lost == [Said("ACCOUNT_UNAVAILABLE", "ACTUAL") EXCEPT !.amount = 0]

\* What is said in each instance.
MCMoney == {Idea, SharedBill, Refund, Subscription, Reduction, Lost,
            [Subscription EXCEPT !.flagged = TRUE]}
MCSettling == {Expense, Said("BORROWING", "ACTUAL"), Increase}
MCAllowance == {Allowance}
=============================================================================
