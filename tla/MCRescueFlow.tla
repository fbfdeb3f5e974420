---------------------------- MODULE MCRescueFlow ----------------------------
(***************************************************************************)
(* A small instance of RescueFlow: a tuition that may be paid in two parts,*)
(* the second beyond the horizon, a rent and an optional trip; a balance,  *)
(* a reserve and a gift of a sponsor that arrives too late for the tuition.*)
(* The seed's own proportions, in hundreds of euro and in steps of days.   *)
(***************************************************************************)
EXTENDS RescueFlow, TLC

CONSTANTS tuition, rent, trip           \* commitments
CONSTANTS own, reserve, gift            \* sources
CONSTANTS receipt, sponsor

MCOption == [amounts |-> <<2, 2>>, dates |-> <<2, 6>>, fee |-> 1]
Owes(amount, due, priority) ==
    [amount |-> amount, due |-> due, priority |-> priority, status |-> "OPEN",
     hold |-> FALSE, option |-> None, version |-> 1]
MCSeedBill ==
    tuition :> [Owes(4, 2, "CRITICAL") EXCEPT !.option = MCOption]
    @@ rent :> Owes(2, 3, "CRITICAL") @@ trip :> Owes(1, 1, "OPTIONAL")

Balance(amount) == [NoFund EXCEPT !.amount = amount, !.status = "AVAILABLE"]
MCSeedSource ==
    own :> Balance(2)
    @@ reserve :> [Balance(1) EXCEPT !.emergency = TRUE, !.reserve = 1]
    @@ gift :> [Balance(3) EXCEPT !.owner = sponsor, !.status = "PLANNED", !.from = 3]

MCBalances == {<<own, 5>>}

\* The rent is put off beyond the horizon, on which a rescue extends to its edge.
MCEdits == {<<rent, "due", 5>>}
\* The owner corrects the amount of the tuition.
MCPrincipal == {<<tuition, "amount", 6>>}
=============================================================================
