---------------------------- MODULE MCActionFlow ----------------------------
(***************************************************************************)
(* Small instances of ActionFlow: the student s with her own account, a    *)
(* contribution of a parent p that she may see and plan with, and one      *)
(* commitment (or two) that takes money from both.                         *)
(***************************************************************************)
EXTENDS ActionFlow, TLC

CONSTANTS s, p          \* actors
CONSTANTS own, gift     \* funding sources
CONSTANTS rent, fees    \* obligations
CONSTANTS acc1, acc2    \* payment accounts

MCFamily == {p}
MCFund == {own, gift}
MCOwner == (own :> s) @@ (gift :> p)
Account(amount, reserve) ==
    [amount |-> amount, reserve |-> reserve, status |-> "AVAILABLE"]
MCSeedFund == (own :> Account(1, 0)) @@ (gift :> Account(1, 0))
MCSeedGiftWithFees == (gift :> Account(3, 1))
Commitment(amount) == [amount |-> amount, beneficiary |-> acc1, hold |-> FALSE,
                       version |-> 1, status |-> "OPEN"]
MCGiftOnly == {gift}
MCOwnerOfGift == (gift :> p)
MCSeedGift == (gift :> Account(2, 0))

MCSeedObligation == (rent :> Commitment(2))
MCSeedSmallRent == (rent :> Commitment(1))
MCSeedPerm ==
    <<[kind |-> "VIEW_OWN_CONTRIBUTION", resource |-> gift, target |-> s, revoked |-> FALSE],
      [kind |-> "APPROVE_OWN_FUNDS", resource |-> gift, target |-> s, revoked |-> FALSE]>>
=============================================================================
