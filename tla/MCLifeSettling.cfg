\* Repayments that are raised and settled by competing expenses.
CONSTANTS
    e1 = e1
    e2 = e2
    e3 = e3
    cash = cash
    gift = gift
    rent = rent
    None = None
    Event = {e1, e2, e3}
    SeedSource <- MCFamily
    OwnSource = {cash}
    SeedBill <- MCNoBill
    Proposals <- MCSettling
    Amounts = {1}
    Corrections <- MCBlocked
    MaxDates = 1
    MaxVersion = 3
SPECIFICATION Spec
SYMMETRY Slots
INVARIANTS SettledOnce PlansKnowTheMoney
