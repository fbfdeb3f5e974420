\* Two uploads of agreeing, new, flagged and repeated evidence.
CONSTANTS
    d1 = d1
    d2 = d2
    rent = rent
    new1 = new1
    new2 = new2
    None = None
    Document = {d1, d2}
    Bill = {rent, new1, new2}
    SeedBill <- MCSeedBill
    Value <- MCValue
    Inputs <- MCInputs
    Fractional <- MCFractional
    Edits <- MCEdits
    Attested <- MCAttested
    MaxLines = 4
    MaxVersion = 2
SPECIFICATION Spec
SYMMETRY Slots
INVARIANTS TypeOK FlaggedNeverPromoted RowsRestOnEvidence OneBillPerDocument PaymentsKnowHolds ForeignBeneficiaryHolds
PROPERTIES DocumentsOverwriteNothing 
