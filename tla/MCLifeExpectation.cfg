\* A recurring expected receipt whose amount is changed.
CONSTANTS
    e1 = e1
    e2 = e2
    e3 = e3
    cash = cash
    gift = gift
    rent = rent
    None = None
    Event = {e1}
    SeedSource <- MCCash
    OwnSource = {cash}
    SeedBill <- MCRent
    Proposals <- MCAllowance
    Amounts = {1}
    Corrections = {}
    MaxDates = 1
    MaxVersion = 4
SPECIFICATION Spec
INVARIANTS ExpectationKeepsItsSource
