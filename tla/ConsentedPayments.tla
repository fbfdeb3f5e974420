------------------------- MODULE ConsentedPayments -------------------------
(***************************************************************************)
(* What the payment flow promises, without plans, hashes or permissions: a *)
(* request to pay a debt names the actors whose money it takes; it is      *)
(* settled only while the debt is due and every one of them consents; and  *)
(* settling it ends every other open request, so that no debt is ever      *)
(* settled twice.  ActionFlow implements it (ActionFlow!Promise).          *)
(***************************************************************************)
EXTENDS TLAPS

CONSTANTS Party, Request, Debt

VARIABLES
    debt,       \* debt[d]: not incurred yet, due or settled
    request     \* request[r]: its phase, debt, payers and consents

promiseVars == <<debt, request>>

Phase == {"none", "open", "paid", "dead"}
RequestRow == [phase : Phase, debt : Debt, payers : SUBSET Party,
               consent : SUBSET Party]

PromiseTypeOK ==
    /\ debt \in [Debt -> {"none", "due", "settled"}]
    /\ request \in [Request -> RequestRow]

PromiseInit ==
    /\ debt = [d \in Debt |-> "none"]
    /\ request \in [Request -> RequestRow]
    /\ \A r \in Request : request[r].phase = "none"

\* Debts are incurred and open requests are given up, in any combination.
Drop(R) ==
    [r \in Request |-> IF r \in R THEN [request[r] EXCEPT !.phase = "dead"]
                       ELSE request[r]]

Change ==
    \E D \in SUBSET {d \in Debt : debt[d] = "none"},
       R \in SUBSET {r \in Request : request[r].phase = "open"} :
        /\ debt' = [d \in Debt |-> IF d \in D THEN "due" ELSE debt[d]]
        /\ request' = Drop(R)

Propose(r) ==
    /\ request[r].phase = "none"
    /\ \E d \in Debt, payers \in SUBSET Party :
          /\ debt[d] = "due"
          /\ request' = [request EXCEPT ![r] = [phase |-> "open", debt |-> d,
                            payers |-> payers, consent |-> {}]]
    /\ UNCHANGED debt

\* Consents are given one by one and may be withdrawn.
Consent(r) ==
    /\ request[r].phase = "open"
    /\ \E parties \in SUBSET Party :
          request' = [request EXCEPT ![r].consent = parties]
    /\ UNCHANGED debt

Settle(r) ==
    /\ request[r].phase = "open"
    /\ request[r].payers \subseteq request[r].consent
    /\ debt[request[r].debt] = "due"
    /\ debt' = [debt EXCEPT ![request[r].debt] = "settled"]
    /\ request' = [q \in Request |->
          IF q = r THEN [request[q] EXCEPT !.phase = "paid"]
          ELSE IF request[q].phase = "open"
          THEN [request[q] EXCEPT !.phase = "dead"] ELSE request[q]]

\* The demo data is reset: everything starts over.
StartOver ==
    /\ debt' = [d \in Debt |-> "none"]
    /\ request' \in [Request -> RequestRow]
    /\ \A r \in Request : request'[r].phase = "none"

PromiseNext ==
    \/ Change
    \/ \E r \in Request : Propose(r) \/ Consent(r) \/ Settle(r)
    \/ StartOver

PromiseSpec == PromiseInit /\ [][PromiseNext]_promiseVars

\* No debt is paid by two requests, and a paid request's payers all consented.
PaidOnce ==
    /\ \A r \in Request : request[r].phase = "paid" =>
          /\ request[r].payers \subseteq request[r].consent
          /\ debt[request[r].debt] = "settled"
    /\ \A q, r \in Request :
          /\ request[q].phase = "paid"
          /\ request[r].phase = "paid"
          /\ request[q].debt = request[r].debt
          => q = r

-----------------------------------------------------------------------------
(* The promise is worth having: PaidOnce follows from it *)

\* A step of the promise preserves PaidOnce.
LEMMA PaidOnceStep ==
    ASSUME PromiseTypeOK, PaidOnce, [PromiseNext]_promiseVars
    PROVE  PromiseTypeOK' /\ PaidOnce'
<1>1. CASE UNCHANGED promiseVars
  BY <1>1 DEF promiseVars, PromiseTypeOK, PaidOnce
<1>2. CASE Change
  <2>1. PICK D \in SUBSET {d \in Debt : debt[d] = "none"},
             R \in SUBSET {r \in Request : request[r].phase = "open"} :
          /\ debt' = [d \in Debt |-> IF d \in D THEN "due" ELSE debt[d]]
          /\ request' = Drop(R)
    BY <1>2 DEF Change
  <2>2. \A r \in Request : request[r] \in RequestRow
    BY DEF PromiseTypeOK
  <2>3. ASSUME NEW r \in Request
        PROVE  /\ request'[r] \in RequestRow
               /\ request'[r].phase = "paid" => request'[r] = request[r]
    BY <2>1, <2>2 DEF Drop, RequestRow, Phase
  <2>4. \A d \in Debt : debt[d] = "settled" => debt'[d] = "settled"
    BY <2>1
  <2>5. PromiseTypeOK'
    BY <2>1, <2>3 DEF Drop, PromiseTypeOK
  <2> QED BY <2>2, <2>3, <2>4, <2>5 DEF PaidOnce, RequestRow
<1>3. ASSUME NEW r \in Request, Propose(r)
      PROVE  PromiseTypeOK' /\ PaidOnce'
  <2>1. PICK d \in Debt, payers \in SUBSET Party :
          request' = [request EXCEPT ![r] = [phase |-> "open", debt |-> d,
                            payers |-> payers, consent |-> {}]]
    BY <1>3 DEF Propose
  <2>2. PromiseTypeOK'
    BY <1>3, <2>1 DEF Propose, PromiseTypeOK, RequestRow, Phase
  <2>3. \A q \in Request : request'[q].phase = "paid" => request'[q] = request[q]
    BY <2>1 DEF PromiseTypeOK
  <2> QED BY <1>3, <2>2, <2>3 DEF Propose, PaidOnce
<1>4. ASSUME NEW r \in Request, Consent(r)
      PROVE  PromiseTypeOK' /\ PaidOnce'
  <2>1. PICK parties \in SUBSET Party :
          request' = [request EXCEPT ![r].consent = parties]
    BY <1>4 DEF Consent
  <2>2. PromiseTypeOK'
    BY <1>4, <2>1 DEF Consent, PromiseTypeOK, RequestRow
  <2>3. ASSUME NEW q \in Request, request'[q].phase = "paid"
        PROVE  request'[q] = request[q]
    <3>1. request[r] \in RequestRow /\ request[r].phase = "open"
      BY <1>4 DEF Consent, PromiseTypeOK
    <3>2. request'[r].phase = "open"
      BY <2>1, <3>1 DEF PromiseTypeOK, RequestRow
    <3> QED BY <2>1, <2>3, <3>2 DEF PromiseTypeOK
  <2> QED BY <1>4, <2>2, <2>3 DEF Consent, PaidOnce
<1>5. ASSUME NEW r \in Request, Settle(r)
      PROVE  PromiseTypeOK' /\ PaidOnce'
  <2>1. \A q \in Request : request[q] \in RequestRow
    BY DEF PromiseTypeOK
  <2>2. ASSUME NEW q \in Request
        PROVE  /\ request'[q] \in RequestRow
               /\ request'[q].debt = request[q].debt
               /\ request'[q].payers = request[q].payers
               /\ request'[q].consent = request[q].consent
               /\ request'[q].phase = "paid" <=> q = r \/ request[q].phase = "paid"
    BY <1>5, <2>1 DEF Settle, RequestRow, Phase
  <2>3. request[r].debt \in Debt
    BY <2>1 DEF RequestRow
  <2>4. \A d \in Debt : debt'[d] = IF d = request[r].debt THEN "settled" ELSE debt[d]
    BY <1>5, <2>3 DEF Settle, PromiseTypeOK
  <2>5. PromiseTypeOK'
    BY <1>5, <2>2, <2>3 DEF Settle, PromiseTypeOK
  <2>6. \A q \in Request : request[q].phase = "paid" => request[q].debt # request[r].debt
    BY <1>5 DEF Settle, PaidOnce
  <2>7. request[r].payers \subseteq request[r].consent
    BY <1>5 DEF Settle
  <2>8. \A q \in Request : request[q].debt \in Debt
    BY <2>1 DEF RequestRow
  <2> QED BY <2>2, <2>4, <2>5, <2>6, <2>7, <2>8 DEF PaidOnce
<1>6. CASE StartOver
  BY <1>6 DEF StartOver, PromiseTypeOK, PaidOnce
<1> QED BY <1>1, <1>2, <1>3, <1>4, <1>5, <1>6 DEF PromiseNext

\* Whatever keeps the promise never settles a debt twice or without consent.
THEOREM PaidOnceHolds == PromiseSpec => []PaidOnce
<1>1. PromiseInit => PromiseTypeOK /\ PaidOnce
  BY DEF PromiseInit, PromiseTypeOK, PaidOnce
<1>2. PromiseTypeOK /\ PaidOnce /\ [PromiseNext]_promiseVars => PromiseTypeOK' /\ PaidOnce'
  BY PaidOnceStep
<1> QED BY <1>1, <1>2, PTL DEF PromiseSpec
=============================================================================
