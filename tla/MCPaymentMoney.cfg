\* Fees, a protected reserve, and money that is expected or locked.
CONSTANTS
    Student = s
    s = s
    p = p
    own = own
    gift = gift
    rent = rent
    fees = fees
    acc1 = acc1
    acc2 = acc2
    Family <- MCFamily
    Fund <- MCFund
    Obligation = {rent}
    Owner <- MCOwner
    Beneficiary = {acc1}
    MaxAmount = 3
    MaxPlan = 2
    MaxAction = 1
    MaxPerm = 2
    Fee = 1
    Amounts = {1, 3}
    PatchStatuses = {"AVAILABLE", "EXPECTED", "LOCKED"}
    MaxVersion = 2
    SeedFund <- MCSeedGiftWithFees
    SeedObligation <- MCSeedObligation
    SeedPerm <- MCSeedPerm
SPECIFICATION Spec
INVARIANTS LiveSourcesBear
PROPERTIES PaidInFull BlockedMovesNothing
