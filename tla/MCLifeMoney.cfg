\* Shared bills, receipts, subscriptions and reports beside plans and payments.
CONSTANTS
    e1 = e1
    e2 = e2
    e3 = e3
    cash = cash
    gift = gift
    rent = rent
    None = None
    Event = {e1, e2}
    SeedSource <- MCCash
    OwnSource = {cash}
    SeedBill <- MCRent
    Proposals <- MCMoney
    Amounts = {2}
    Corrections = {}
    MaxDates = 2
    MaxVersion = 4
SPECIFICATION Spec
SYMMETRY Slots
INVARIANTS TypeOK MoneyAccounted NoPaymentBesidePending PlansKnowTheMoney FlaggedNeverCounts
PROPERTIES DismissalReversesNothing
