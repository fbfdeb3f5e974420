----------------------------- MODULE MCDocuments -----------------------------
(***************************************************************************)
(* A small instance of Documents: one commitment rent, two slots for       *)
(* commitments made from documents, two uploads.                           *)
(***************************************************************************)
EXTENDS Documents, TLC

CONSTANTS d1, d2                \* documents
CONSTANTS rent, new1, new2      \* commitments

Slots == Permutations(Document) \cup Permutations({new1, new2})

MCValue == {"100", "100.50", "VND", "soon", "late", "ABC", "XYZ"}
MCTerms == [amount |-> "100", currency |-> "VND", due_date |-> "soon",
            beneficiary |-> "ABC"]
MCSeedBill == rent :> MCTerms
MCFractional == {<<"100.50", "VND">>}
MCEdits == {<<"due_date", "late">>}
MCAttested == {"ABC", "XYZ"}

Says(field, value) == [field |-> field, value |-> value, supported |-> TRUE]
Unproved(field, value) == [Says(field, value) EXCEPT !.supported = FALSE]
Invoice(target, lines) ==
    [notice |-> FALSE, injected |-> FALSE, target |-> target, lines |-> lines]
Due == <<Says("currency", "VND"), Says("due_date", "soon")>>

\* A copy of the invoice for rent, and the same invoice uploaded on its own.
Copy == Invoice(rent, <<Says("amount", "100")>> \o Due \o <<Says("beneficiary", "ABC")>>)
Fresh == [Copy EXCEPT !.target = None]
Injected == [Invoice(None, <<Says("currency", "VND")>>) EXCEPT !.injected = TRUE]
\* Flags of each kind: another payee, at the end or not quoted, a fraction.
Replaced == Invoice(rent, <<Says("amount", "100"), Says("beneficiary", "XYZ")>>)
Spoofed == Invoice(rent, <<Unproved("beneficiary", "XYZ"), Says("amount", "100")>>)
Fraction == Invoice(None, <<Says("amount", "100.50"), Says("currency", "VND")>>)
Notice == [notice |-> TRUE, injected |-> FALSE, target |-> None, lines |->
    <<Says("amount", "100"), Says("currency", "VND"), Says("available_from", "soon")>>]

MCInputs == {Copy, Fresh, Injected, Replaced, Spoofed, Fraction, Notice}
=============================================================================
