\* Two commitments and two prepared actions that compete for the same sources.
CONSTANTS
    Student = s
    s = s
    p = p
    own = own
    gift = gift
    rent = rent
    fees = fees
    acc1 = acc1
    acc2 = acc2
    Family <- MCFamily
    Fund <- MCGiftOnly
    Obligation = {rent, fees}
    Owner <- MCOwnerOfGift
    Beneficiary = {acc1}
    MaxAmount = 2
    MaxPlan = 3
    MaxAction = 2
    MaxPerm = 2
    Fee = 0
    Amounts = {2}
    PatchStatuses = {"AVAILABLE"}
    MaxVersion = 1
    SeedFund <- MCSeedGift
    SeedObligation <- MCSeedSmallRent
    SeedPerm <- MCSeedPerm
SPECIFICATION Spec
INVARIANTS NoDoublePayment
PROPERTIES KeepsPromise
