\* Two prepared actions, delegation, sharing and every edit of the data.
CONSTANTS
    Student = s
    s = s
    p = p
    own = own
    gift = gift
    rent = rent
    fees = fees
    acc1 = acc1
    acc2 = acc2
    Family <- MCFamily
    Fund <- MCFund
    Obligation = {rent}
    Owner <- MCOwner
    Beneficiary = {acc1, acc2}
    MaxAmount = 2
    MaxPlan = 2
    MaxAction = 2
    MaxPerm = 3
    Fee = 0
    Amounts = {1}
    PatchStatuses = {"AVAILABLE"}
    MaxVersion = 2
    SeedFund <- MCSeedFund
    SeedObligation <- MCSeedObligation
    SeedPerm <- MCSeedPerm
SPECIFICATION Spec
INVARIANTS TypeOK SingleActivePlan LiveActionIsIntact ExecutedWithConsent
PROPERTIES StaleStaysStale
