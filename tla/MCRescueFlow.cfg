\* Every kind of repair, beside corrections of amounts, deadlines and balances.
CONSTANTS
    Student = Student
    Admin = Admin
    Parent = Parent
    sponsor = sponsor
    Family = {Parent, sponsor}
    tuition = tuition
    rent = rent
    trip = trip
    own = own
    reserve = reserve
    gift = gift
    receipt = receipt
    None = None
    SeedSource <- MCSeedSource
    SeedBill <- MCSeedBill
    Horizon = 4
    Extension = 2
    Headroom = 1
    Edits <- MCEdits
    Documented = {tuition}
    Balances <- MCBalances
    Receipt = {receipt}
    MaxActions = 1
    MaxVersion = 3
SPECIFICATION Spec
INVARIANTS TypeOK OffersKnowTheState
PROPERTIES ContributionIsLeast  ChangesAreConsented HoldIsNotSplitAway CriticalStaysInside DebtIsKept
