-------------------------- MODULE RescueFlowProofs ---------------------------
(***************************************************************************)
(* Theorems about RescueFlow, for every value of its constants: whatever   *)
(* is prepared rests on the present state, every change is consented to,   *)
(* a hold is not split away and critical debt stays inside the horizon;    *)
(* the family is asked for the least that is enough, the repair covers     *)
(* what its trial covered and no debt is lost.                             *)
(***************************************************************************)
EXTENDS RescueFlow, SumTheorems, FiniteSetTheorems, WellFoundedInduction, TLAPS

Part == {"part2", "fee"}

\* The rows of commitments; a commitment stays open, keeps its priority, and keeps
\* its option until it is split.
Rows ==
    /\ bill \in [Debt -> DebtRow]
    /\ \A b \in Bill :
          /\ bill[b].status = "OPEN" /\ bill[b].priority = SeedBill[b].priority
          /\ bill[b].option \in {SeedBill[b].option, None}
          /\ \A x \in Part : bill[<<b, x>>].status = "OPEN" => bill[b].option = None

\* What is offered and prepared was computed by the planner.
Computed ==
    /\ \A o \in offers : \E k \in Kind : o.c = Candidate(k, o.plan)
    /\ \A a \in actions :
          /\ a = [hash |-> a.hash, c |-> a.c, approvals |-> a.approvals]
          /\ \E k \in Kind : a.c = Candidate(k, a.hash)

\* The inductive invariant.
IInv == Rows /\ Computed /\ OffersKnowTheState

\* The fields of a candidate (planner: rescue).
LEMMA Fields ==
    ASSUME NEW k, NEW s, NEW c, c = Candidate(k, s)
    PROVE  /\ c.split = Split(k, s) /\ c.deadline = Deadlines(k, s)
           /\ c.release = Released(k, s) /\ c.advance = Advanced(k, s)
           /\ c.required = RequiredActors(k, s, c.contribution)
           /\ c.feasible = Feasible(Trial(k, s), c.contribution)
<1> HIDE DEF Split, Deadlines, Released, Advanced, RequiredActors, Feasible, Trial,
             Contribution
<1> QED  BY DEF Candidate

\* What a candidate of the present state changes (planner: variants).
LEMMA SplitRowsAre ==
    ASSUME Rows, NEW k, NEW split, split = Split(k, FinancialState)
    PROVE  /\ DOMAIN split \subseteq Bill
           /\ \A b \in DOMAIN split :
                 /\ k = "USE_INSTALLMENT_OPTION" /\ bill[b].status = "OPEN"
                 /\ split[b] = bill[b].option
                 /\ split[b] \in Option
                 /\ bill[b].option = SeedBill[b].option /\ SeedBill[b].option # None
<1> DEFINE D == IF k = "USE_INSTALLMENT_OPTION" THEN Splittable(FinancialState) ELSE {}
<1>1. DOMAIN split = D /\ \A b \in D : split[b] = bill[b].option
  BY DEF Split, FinancialState
<1>2. \A b \in D : /\ k = "USE_INSTALLMENT_OPTION" /\ b \in Bill
                   /\ bill[b].status = "OPEN" /\ bill[b].option # None
  BY DEF Splittable, FinancialState
<1>3. \A b \in Bill : bill[b] \in DebtRow
  BY DEF Rows, Debt
<1> HIDE DEF D
<1> QED  BY <1>1, <1>2, <1>3 DEF Rows, DebtRow

LEMMA DeadlinesAre ==
    ASSUME Rows, NEW k, NEW deadline, deadline = Deadlines(k, FinancialState)
    PROVE  /\ DOMAIN deadline \subseteq Debt
           /\ \A d \in DOMAIN deadline :
                 /\ bill[d].status = "OPEN" /\ deadline[d] \in Int
                 /\ bill[d].priority = "CRITICAL" =>
                       k = "REQUEST_DEADLINE_EXTENSION" /\ deadline[d] <= Horizon
<1>1. \A d \in Debt : bill[d] \in DebtRow
  BY DEF Rows
<1>2. Horizon \in Nat /\ Extension \in Nat
  BY RescueAssumption
<1>3. \A x, y \in Int : Max({x, y}) \in {x, y}
  <2> SUFFICES ASSUME NEW x \in Int, NEW y \in Int PROVE Max({x, y}) \in {x, y}
    OBVIOUS
  <2>1. \E m \in {x, y} : \A n \in {x, y} : m >= n
    BY DEF FinancialState
  <2> QED  BY <2>1 DEF Max
<1>4. \A x, y \in Int : Min({x, y}) \in {x, y} /\ Min({x, y}) <= x
  <2> SUFFICES ASSUME NEW x \in Int, NEW y \in Int
               PROVE  Min({x, y}) \in {x, y} /\ Min({x, y}) <= x
    OBVIOUS
  <2>1. \E m \in {x, y} : \A n \in {x, y} : m <= n
    OBVIOUS
  <2> QED  BY <2>1 DEF Min
<1>5. CASE k = "DELAY_OPTIONAL_EXPENSE"
  <2> DEFINE D == {x \in OpenDebts(FinancialState) : bill[x].priority = "OPTIONAL"}
  <2>1. deadline = [d \in D |-> Max({bill[d].due, Horizon + 1})]
    BY <1>5 DEF Deadlines, FinancialState
  <2>2. \A d \in D : d \in Debt /\ bill[d].status = "OPEN" /\ bill[d].priority = "OPTIONAL"
    BY DEF OpenDebts, FinancialState
  <2>3. \A d \in D : Max({bill[d].due, Horizon + 1}) \in Int
    <3> TAKE d \in D
    <3>1. bill[d].due \in Int /\ Horizon + 1 \in Int
      BY <1>1, <1>2, <2>2 DEF DebtRow
    <3> QED  BY <3>1, <1>3
  <2> HIDE DEF D
  <2> QED  BY <2>1, <2>2, <2>3
<1>6. CASE k = "REQUEST_DEADLINE_EXTENSION"
  <2> DEFINE D == Extendable(FinancialState)
  <2>1. deadline = [d \in D |-> Extended(bill[d].due)]
    BY <1>6 DEF Deadlines, FinancialState
  <2>2. \A d \in D : d \in Debt /\ bill[d].status = "OPEN"
    BY DEF Extendable, OpenDebts, FinancialState
  <2>3. \A d \in D : Extended(bill[d].due) \in Int /\ Extended(bill[d].due) <= Horizon
    <3> TAKE d \in D
    <3>1. bill[d].due + Extension \in Int /\ Horizon \in Int
      BY <1>1, <1>2, <2>2 DEF DebtRow
    <3> QED  BY <3>1, <1>4 DEF Extended
  <2> HIDE DEF D
  <2> QED  BY <1>6, <2>1, <2>2, <2>3
<1>7. CASE k # "DELAY_OPTIONAL_EXPENSE" /\ k # "REQUEST_DEADLINE_EXTENSION"
  <2>1. deadline = <<>>
    BY <1>7 DEF Deadlines
  <2>2. DOMAIN deadline = {}
    BY <2>1
  <2> QED  BY <2>2
<1> QED  BY <1>5, <1>6, <1>7

LEMMA FundsAre ==
    ASSUME NEW k, NEW c, c = Candidate(k, FinancialState)
    PROVE  /\ \A f \in c.release : fund[f].owner = Student /\ fund[f].status # "NONE"
           /\ \A f \in c.advance : fund[f].owner \in c.required /\ fund[f].status # "NONE"
           /\ Student \in c.required
           /\ c.contribution # 0 => Parent \in c.required
           /\ k = "REQUEST_DEADLINE_EXTENSION" \/ DOMAIN c.split # {} => Admin \in c.required
<1>1. /\ c.split = Split(k, FinancialState)
      /\ c.release = Released(k, FinancialState) /\ c.advance = Advanced(k, FinancialState)
      /\ c.required = RequiredActors(k, FinancialState, c.contribution)
  BY Fields
<1>2. \A f \in c.release : fund[f].owner = Student /\ fund[f].status # "NONE"
  BY <1>1 DEF Released, Releasable, FinancialState
<1>3. \A f \in c.advance : fund[f].owner \in c.required /\ fund[f].status # "NONE"
  <2>1. \A f \in c.advance : fund[f].owner \in c.required
    BY <1>1 DEF RequiredActors, FinancialState
  <2>2. \A f \in c.advance : fund[f].status # "NONE"
    BY <1>1 DEF Advanced, Advanceable, FinancialState
  <2> QED  BY <2>1, <2>2
<1> HIDE DEF Split, Advanced
<1>4. /\ Student \in c.required
      /\ c.contribution # 0 => Parent \in c.required
      /\ k = "REQUEST_DEADLINE_EXTENSION" \/ DOMAIN c.split # {} => Admin \in c.required
  BY <1>1 DEF RequiredActors
<1> QED  BY <1>2, <1>3, <1>4

\* The first part of a commitment and the rows that are added are rows.
LEMMA FirstPartIsRow ==
    ASSUME NEW r \in DebtRow, NEW x \in Nat, NEW y \in Int
    PROVE  [r EXCEPT !.amount = x, !.due = y, !.option = None, !.version = @ + 1] \in DebtRow
<1>1. r.version + 1 \in Nat
  BY DEF DebtRow
<1>2. \A z \in Nat : [r EXCEPT !.amount = x, !.due = y, !.option = None, !.version = z]
                       \in DebtRow
  BY DEF DebtRow
<1> QED  BY ONLY <1>1, <1>2

LEMMA NewPartIsRow ==
    ASSUME NEW x \in Nat, NEW y \in Int, NEW p \in {"CRITICAL", "OPTIONAL"}
    PROVE  [NoDebt EXCEPT !.amount = x, !.due = y, !.status = "OPEN", !.priority = p,
                          !.version = 1] \in DebtRow
<1>1. NoDebt \in DebtRow
  BY DEF NoDebt, DebtRow
<1>2. \A r \in DebtRow :
         [r EXCEPT !.amount = x, !.due = y, !.status = "OPEN", !.priority = p, !.version = 1]
           \in DebtRow
  BY DEF DebtRow
<1> QED  BY ONLY <1>1, <1>2

\* What SplitBills does to the rows (execute: installments).
LEMMA SplitBillsAre ==
    ASSUME Rows, NEW k, NEW c, c.split = Split(k, FinancialState),
           NEW s, s = SplitBills(c)
    PROVE  /\ s \in [Debt -> DebtRow]
           /\ \A b \in Bill :
                 /\ s[b].status = "OPEN" /\ s[b].priority = bill[b].priority
                 /\ b \notin DOMAIN c.split => s[b] = bill[b]
                 /\ b \in DOMAIN c.split => s[b].option = None /\ s[b].due <= Horizon
                 /\ \A x \in Part : b \notin DOMAIN c.split => s[<<b, x>>] = bill[<<b, x>>]
<1> DEFINE split == c.split
<1> HIDE DEF split
<1>1. /\ DOMAIN split \subseteq Bill
      /\ \A b \in DOMAIN split :
            /\ split[b] \in Option /\ bill[b].option = SeedBill[b].option
            /\ split[b] = bill[b].option /\ SeedBill[b].option # None
  BY SplitRowsAre DEF split
<1>2. \A b \in Bill : bill[b] \in DebtRow /\ bill[b].status = "OPEN"
  BY DEF Rows, Debt
<1>3. \A b \in DOMAIN split : split[b].dates[1] <= Horizon
  BY <1>1, RescueAssumption
<1>4. \A b \in DOMAIN split :
         /\ split[b].amounts[1] \in Nat /\ split[b].amounts[2] \in Nat
         /\ split[b].dates[1] \in Int /\ split[b].dates[2] \in Int /\ split[b].fee \in Nat
  BY <1>1 DEF Option
<1>5. s = [d \in Debt |->
        IF d \in DOMAIN split
        THEN [bill[d] EXCEPT !.amount = split[d].amounts[1], !.due = split[d].dates[1],
                             !.option = None, !.version = @ + 1]
        ELSE IF d \in (DOMAIN split) \X {"part2"}
        THEN [NoDebt EXCEPT !.amount = split[d[1]].amounts[2],
                            !.due = split[d[1]].dates[2], !.status = "OPEN",
                            !.priority = bill[d[1]].priority, !.version = 1]
        ELSE IF d \in (DOMAIN split) \X {"fee"} /\ split[d[1]].fee > 0
        THEN [NoDebt EXCEPT !.amount = split[d[1]].fee, !.due = split[d[1]].dates[1],
                            !.status = "OPEN", !.priority = "CRITICAL", !.version = 1]
        ELSE bill[d]]
  BY DEF SplitBills, split
<1>6. \A d \in Debt : s[d] \in DebtRow
  <2> TAKE d \in Debt
  <2>1. CASE d \in DOMAIN split
    <3>1. d \in Bill
      BY <2>1, <1>1
    <3>2. s[d] = [bill[d] EXCEPT !.amount = split[d].amounts[1], !.due = split[d].dates[1],
                             !.option = None, !.version = @ + 1]
      BY <2>1, <1>5
    <3>3. /\ bill[d] \in DebtRow /\ split[d].amounts[1] \in Nat /\ split[d].dates[1] \in Int
      BY <3>1, <1>2, <1>4, <2>1
    <3>4. [bill[d] EXCEPT !.amount = split[d].amounts[1], !.due = split[d].dates[1],
                          !.option = None, !.version = @ + 1] \in DebtRow
      BY ONLY <3>3, FirstPartIsRow
    <3> QED  BY ONLY <3>2, <3>4
  <2>2. CASE d \notin DOMAIN split /\ d \in (DOMAIN split) \X {"part2"}
    <3>1. d[1] \in DOMAIN split
      BY <2>2
    <3>2. s[d] = [NoDebt EXCEPT !.amount = split[d[1]].amounts[2],
                            !.due = split[d[1]].dates[2], !.status = "OPEN",
                            !.priority = bill[d[1]].priority, !.version = 1]
      BY <2>2, <1>5
    <3>3. bill[d[1]].priority \in {"CRITICAL", "OPTIONAL"}
      BY <3>1, <1>1, <1>2 DEF DebtRow
    <3>4. split[d[1]].amounts[2] \in Nat /\ split[d[1]].dates[2] \in Int
      BY <3>1, <1>4
    <3>5. [NoDebt EXCEPT !.amount = split[d[1]].amounts[2], !.due = split[d[1]].dates[2],
              !.status = "OPEN", !.priority = bill[d[1]].priority, !.version = 1] \in DebtRow
      BY ONLY <3>3, <3>4, NewPartIsRow
    <3> QED  BY ONLY <3>2, <3>5
  <2>3. CASE /\ d \notin DOMAIN split /\ d \notin (DOMAIN split) \X {"part2"}
             /\ d \in (DOMAIN split) \X {"fee"} /\ split[d[1]].fee > 0
    <3>1. d[1] \in DOMAIN split
      BY <2>3
    <3>2. s[d] = [NoDebt EXCEPT !.amount = split[d[1]].fee, !.due = split[d[1]].dates[1],
                            !.status = "OPEN", !.priority = "CRITICAL", !.version = 1]
      BY <2>3, <1>5
    <3>3. split[d[1]].fee \in Nat /\ split[d[1]].dates[1] \in Int
      BY <3>1, <1>4
    <3>4. [NoDebt EXCEPT !.amount = split[d[1]].fee, !.due = split[d[1]].dates[1],
                        !.status = "OPEN", !.priority = "CRITICAL", !.version = 1] \in DebtRow
      BY ONLY <3>3, NewPartIsRow
    <3> QED  BY ONLY <3>2, <3>4
  <2>4. CASE /\ d \notin DOMAIN split /\ d \notin (DOMAIN split) \X {"part2"}
             /\ ~(d \in (DOMAIN split) \X {"fee"} /\ split[d[1]].fee > 0)
    <3>1. s[d] = bill[d]
      BY <2>4, <1>5
    <3> QED  BY <3>1 DEF Rows
  <2> QED  BY <2>1, <2>2, <2>3, <2>4
<1>7. \A b \in Bill :
         /\ s[b].status = "OPEN" /\ s[b].priority = bill[b].priority
         /\ b \notin DOMAIN split => s[b] = bill[b]
         /\ b \in DOMAIN split => s[b].option = None /\ s[b].due <= Horizon
  <2> TAKE b \in Bill
  <2>1. b \in Debt /\ b \notin (DOMAIN split) \X {"part2"} /\ b \notin (DOMAIN split) \X {"fee"}
    BY <1>1, RescueAssumption DEF Debt
  <2>2. CASE b \in DOMAIN split
    <3>1. s[b] = [bill[b] EXCEPT !.amount = split[b].amounts[1], !.due = split[b].dates[1],
                             !.option = None, !.version = @ + 1]
      BY <2>1, <2>2, <1>5
    <3>2. /\ s[b].status = bill[b].status /\ s[b].priority = bill[b].priority
          /\ s[b].option = None /\ s[b].due = split[b].dates[1]
      BY <3>1, <1>2 DEF DebtRow
    <3> QED  BY <2>2, <3>2, <1>2, <1>3
  <2>3. CASE b \notin DOMAIN split
    BY <2>1, <2>3, <1>2, <1>5
  <2> QED  BY <2>2, <2>3
<1>8. ASSUME NEW b \in Bill, NEW x \in Part, b \notin DOMAIN split
      PROVE  s[<<b, x>>] = bill[<<b, x>>]
  <2>1. <<b, x>> \in Debt /\ <<b, x>> \notin Bill
    BY RescueAssumption DEF Debt, Part
  <2>2. <<b, x>> \notin DOMAIN split
    BY <2>1, <1>1
  <2> QED  BY <2>1, <2>2, <1>5, <1>8
<1> QED  BY <1>5, <1>6, <1>7, <1>8 DEF split

LEMMA DueIsRow ==
    ASSUME NEW r \in DebtRow, NEW y \in Int
    PROVE  /\ [r EXCEPT !.due = y, !.version = @ + 1] \in DebtRow
           /\ [r EXCEPT !.due = y, !.version = @ + 1].due = y
           /\ [r EXCEPT !.due = y, !.version = @ + 1].status = r.status
           /\ [r EXCEPT !.due = y, !.version = @ + 1].priority = r.priority
           /\ [r EXCEPT !.due = y, !.version = @ + 1].option = r.option
<1>1. r.version + 1 \in Nat
  BY DEF DebtRow
<1>2. \A z \in Nat : /\ [r EXCEPT !.due = y, !.version = z] \in DebtRow
                     /\ [r EXCEPT !.due = y, !.version = z].due = y
                     /\ [r EXCEPT !.due = y, !.version = z].status = r.status
                     /\ [r EXCEPT !.due = y, !.version = z].priority = r.priority
                     /\ [r EXCEPT !.due = y, !.version = z].option = r.option
  BY DEF DebtRow
<1> QED  BY ONLY <1>1, <1>2

LEMMA AmountIsRow ==
    ASSUME NEW r \in DebtRow, NEW x \in Nat
    PROVE  /\ [r EXCEPT !.amount = x, !.version = @ + 1] \in DebtRow
           /\ [r EXCEPT !.amount = x, !.version = @ + 1].status = r.status
           /\ [r EXCEPT !.amount = x, !.version = @ + 1].priority = r.priority
           /\ [r EXCEPT !.amount = x, !.version = @ + 1].option = r.option
<1>1. r.version + 1 \in Nat
  BY DEF DebtRow
<1>2. \A z \in Nat : /\ [r EXCEPT !.amount = x, !.version = z] \in DebtRow
                     /\ [r EXCEPT !.amount = x, !.version = z].status = r.status
                     /\ [r EXCEPT !.amount = x, !.version = z].priority = r.priority
                     /\ [r EXCEPT !.amount = x, !.version = z].option = r.option
  BY DEF DebtRow
<1> QED  BY ONLY <1>1, <1>2

\* What Rescheduled does to the rows (execute: deferrals and extensions).
LEMMA RescheduledAre ==
    ASSUME NEW c, NEW s \in [Debt -> DebtRow],
           \A d \in DOMAIN c.deadline : c.deadline[d] \in Int,
           NEW t, t = Rescheduled(s, c)
    PROVE  /\ t \in [Debt -> DebtRow]
           /\ \A d \in Debt :
                 /\ t[d].status = s[d].status /\ t[d].priority = s[d].priority
                 /\ t[d].option = s[d].option
                 /\ d \notin DOMAIN c.deadline => t[d] = s[d]
                 /\ d \in DOMAIN c.deadline => t[d].due = c.deadline[d]
<1>1. t = [d \in Debt |-> IF d \in DOMAIN c.deadline
                         THEN [s[d] EXCEPT !.due = c.deadline[d], !.version = @ + 1]
                         ELSE s[d]]
  BY DEF Rescheduled
<1>2. ASSUME NEW d \in Debt
      PROVE  /\ t[d] \in DebtRow
             /\ t[d].status = s[d].status /\ t[d].priority = s[d].priority
             /\ t[d].option = s[d].option
             /\ d \notin DOMAIN c.deadline => t[d] = s[d]
             /\ d \in DOMAIN c.deadline => t[d].due = c.deadline[d]
  <2>1. CASE d \in DOMAIN c.deadline
    <3>1. t[d] = [s[d] EXCEPT !.due = c.deadline[d], !.version = @ + 1]
      BY <1>1, <2>1
    <3>2. s[d] \in DebtRow /\ c.deadline[d] \in Int
      BY <2>1
    <3> DEFINE q == [s[d] EXCEPT !.due = c.deadline[d], !.version = @ + 1]
    <3>3. /\ q \in DebtRow /\ q.due = c.deadline[d] /\ q.status = s[d].status
          /\ q.priority = s[d].priority /\ q.option = s[d].option
      BY ONLY <3>2, DueIsRow
    <3>4. t[d] = q
      BY <3>1
    <3> HIDE DEF q
    <3> QED  BY ONLY <2>1, <3>3, <3>4
  <2>2. CASE d \notin DOMAIN c.deadline
    <3>1. t[d] = s[d] /\ s[d] \in DebtRow
      BY <1>1, <2>2
    <3> QED  BY ONLY <2>2, <3>1
  <2> QED  BY <2>1, <2>2
<1>3. t = [d \in Debt |-> t[d]]
  BY <1>1
<1> QED  BY ONLY <1>2, <1>3

\* What execute does to the commitments.
LEMMA ExecutedBill ==
    ASSUME Rows, NEW k, NEW c, c = Candidate(k, FinancialState),
           bill' = Rescheduled(SplitBills(c), c)
    PROVE  /\ Rows'
           /\ \A b \in Bill :
                 /\ b \notin DOMAIN c.split \cup DOMAIN c.deadline => bill'[b] = bill[b]
                 /\ \A x \in Part :
                       b \notin DOMAIN c.split => bill'[<<b, x>>].status = bill[<<b, x>>].status
           /\ \A d \in Critical(FinancialState) : d \in Critical(FinancialState')
<1> DEFINE s == SplitBills(c)
<1>1. c.split = Split(k, FinancialState) /\ c.deadline = Deadlines(k, FinancialState)
  BY Fields
<1>2. /\ s \in [Debt -> DebtRow]
      /\ \A b \in Bill :
           /\ s[b].status = "OPEN" /\ s[b].priority = bill[b].priority
           /\ b \notin DOMAIN c.split => s[b] = bill[b]
           /\ b \in DOMAIN c.split => s[b].option = None /\ s[b].due <= Horizon
           /\ \A x \in Part : b \notin DOMAIN c.split => s[<<b, x>>] = bill[<<b, x>>]
  BY <1>1, SplitBillsAre
<1>3. \A d \in DOMAIN c.deadline :
         /\ c.deadline[d] \in Int
         /\ bill[d].priority = "CRITICAL" => c.deadline[d] <= Horizon
  BY <1>1, DeadlinesAre
<1> HIDE DEF s
<1>4. /\ bill' \in [Debt -> DebtRow]
      /\ \A d \in Debt :
           /\ bill'[d].status = s[d].status /\ bill'[d].priority = s[d].priority
           /\ bill'[d].option = s[d].option
           /\ d \notin DOMAIN c.deadline => bill'[d] = s[d]
           /\ d \in DOMAIN c.deadline => bill'[d].due = c.deadline[d]
  BY <1>2, <1>3, RescheduledAre DEF s
<1>5. \A b \in Bill : b \in Debt /\ \A x \in Part : <<b, x>> \in Debt
  BY DEF Debt, Part
<1>6. \A b \in DOMAIN c.split :
         /\ b \in Bill /\ bill[b].option # None
         /\ bill[b].option = SeedBill[b].option
  BY <1>1, SplitRowsAre
<1>7. ASSUME NEW b \in Bill
      PROVE  /\ bill'[b].status = "OPEN" /\ bill'[b].priority = SeedBill[b].priority
             /\ bill'[b].option \in {SeedBill[b].option, None}
             /\ \A x \in Part : bill'[<<b, x>>].status = "OPEN" => bill'[b].option = None
  <2>1. /\ bill[b].priority = SeedBill[b].priority
        /\ bill[b].option \in {SeedBill[b].option, None}
        /\ \A x \in Part : bill[<<b, x>>].status = "OPEN" => bill[b].option = None
    BY DEF Rows
  <2>2. CASE b \in DOMAIN c.split
    BY <2>1, <2>2, <1>2, <1>4, <1>5
  <2>3. CASE b \notin DOMAIN c.split
    BY <2>1, <2>3, <1>2, <1>4, <1>5
  <2> QED  BY <2>2, <2>3
<1>8. Rows'
  BY ONLY <1>4, <1>7 DEF Rows
<1>9. ASSUME NEW d \in Critical(FinancialState)
      PROVE  d \in Critical(FinancialState')
  <2>1. /\ d \in Debt /\ bill[d].status = "OPEN" /\ bill[d].priority = "CRITICAL"
        /\ bill[d].due <= Horizon
    BY <1>9 DEF Critical, FinancialState
  <2>2. s[d].status = "OPEN" /\ s[d].priority = "CRITICAL" /\ s[d].due <= Horizon
    <3>1. CASE d \in Bill
      BY <3>1, <2>1, <1>2
    <3>2. CASE d \notin Bill
      <4>1. PICK b \in Bill, x \in Part : d = <<b, x>>
        BY <2>1, <3>2 DEF Debt, Part
      <4>2. bill[b].option = None
        BY <4>1, <2>1 DEF Rows
      <4>3. b \notin DOMAIN c.split
        BY <4>2, <1>6
      <4> QED  BY <4>1, <4>3, <2>1, <1>2
    <3> QED  BY <3>1, <3>2
  <2>3. bill'[d].status = "OPEN" /\ bill'[d].priority = "CRITICAL" /\ bill'[d].due <= Horizon
    BY <2>1, <2>2, <1>3, <1>4
  <2> QED  BY <2>1, <2>3 DEF Critical, FinancialState
<1>10. \A b \in Bill :
         /\ b \notin DOMAIN c.split \cup DOMAIN c.deadline => bill'[b] = bill[b]
         /\ \A x \in Part :
               b \notin DOMAIN c.split => bill'[<<b, x>>].status = bill[<<b, x>>].status
  BY <1>2, <1>4, <1>5
<1> QED  BY <1>8, <1>9, <1>10

\* The owner's corrections keep the rows.
LEMMA OwnerKeepsRows ==
    ASSUME Rows, OwnerNext
    PROVE  Rows' /\ \A d \in Debt : bill'[d].status = bill[d].status
<1>1. ASSUME NEW b \in Bill, NEW r \in DebtRow, r.status = bill[b].status,
             r.priority = bill[b].priority, r.option = bill[b].option,
             bill' = [bill EXCEPT ![b] = r]
      PROVE  Rows' /\ \A d \in Debt : bill'[d].status = bill[d].status
  <2>1. b \in Debt /\ \A x \in Part : <<b, x>> \in Debt
    BY DEF Debt, Part
  <2>2. bill' \in [Debt -> DebtRow]
    BY <1>1, <2>1 DEF Rows
  <2>3. \A d \in Debt : /\ bill'[d].status = bill[d].status
                        /\ bill'[d].priority = bill[d].priority
                        /\ bill'[d].option = bill[d].option
    BY <1>1 DEF Rows
  <2>4. \A e \in Bill : e \in Debt /\ \A x \in Part : <<e, x>> \in Debt
    BY DEF Debt, Part
  <2> QED  BY <2>2, <2>3, <2>4 DEF Rows
<1>2. \A b \in Bill : bill[b] \in DebtRow
  BY DEF Rows, Debt
<1>3. ASSUME NEW e \in Edits, PatchObligation(e[1], e[2], e[3])
      PROVE  Rows' /\ \A d \in Debt : bill'[d].status = bill[d].status
  <2> DEFINE b == e[1]
             value == e[3]
  <2>1. b \in Bill /\ value \in Nat /\ value \in Int
    BY RescueAssumption
  <2>2. bill[b] \in DebtRow
    BY <2>1, <1>2
  <2>3. CASE e[2] = "amount"
    <3> DEFINE r == [bill[b] EXCEPT !.amount = value, !.version = @ + 1]
    <3>1. bill' = [bill EXCEPT ![b] = r]
      BY <1>3, <2>3, <2>1 DEF Rows, Debt, PatchObligation
    <3> HIDE DEF b, value
    <3>2. /\ r \in DebtRow /\ r.status = bill[b].status
          /\ r.priority = bill[b].priority /\ r.option = bill[b].option
      BY ONLY <2>1, <2>2, AmountIsRow
    <3> HIDE DEF r
    <3> QED  BY <2>1, <3>1, <3>2, <1>1
  <2>4. CASE e[2] # "amount"
    <3> DEFINE r == [bill[b] EXCEPT !.due = value, !.version = @ + 1]
    <3>1. bill' = [bill EXCEPT ![b] = r]
      BY <1>3, <2>4, <2>1 DEF Rows, Debt, PatchObligation
    <3> HIDE DEF b, value
    <3>2. /\ r \in DebtRow /\ r.status = bill[b].status
          /\ r.priority = bill[b].priority /\ r.option = bill[b].option
      BY ONLY <2>1, <2>2, DueIsRow
    <3> HIDE DEF r
    <3> QED  BY <2>1, <3>1, <3>2, <1>1
  <2> QED  BY <2>3, <2>4
<1>4. ASSUME NEW e \in Balances, PatchFund(e[1], e[2])
      PROVE  Rows' /\ \A d \in Debt : bill'[d].status = bill[d].status
  BY <1>4 DEF PatchFund, Rows
<1>5. ASSUME NEW b \in Documented, Hold(b) \/ VerifyBeneficiary(b)
      PROVE  Rows' /\ \A d \in Debt : bill'[d].status = bill[d].status
  <2> DEFINE r == IF Hold(b) THEN [bill[b] EXCEPT !.hold = TRUE]
                  ELSE [bill[b] EXCEPT !.hold = FALSE, !.version = @ + 1]
  <2>1. b \in Bill
    BY RescueAssumption
  <2>2. bill' = [bill EXCEPT ![b] = r]
    BY <1>5, <2>1, <1>2 DEF Hold, VerifyBeneficiary, Rows, Debt
  <2>3. bill[b] \in DebtRow /\ bill[b].version + 1 \in Nat
    BY <2>1, <1>2 DEF DebtRow
  <2>4. \A z \in Nat :
           /\ [bill[b] EXCEPT !.hold = FALSE, !.version = z] \in DebtRow
           /\ [bill[b] EXCEPT !.hold = FALSE, !.version = z].status = bill[b].status
           /\ [bill[b] EXCEPT !.hold = FALSE, !.version = z].priority = bill[b].priority
           /\ [bill[b] EXCEPT !.hold = FALSE, !.version = z].option = bill[b].option
    BY ONLY <2>3 DEF DebtRow
  <2>5. /\ [bill[b] EXCEPT !.hold = TRUE] \in DebtRow
        /\ [bill[b] EXCEPT !.hold = TRUE].status = bill[b].status
        /\ [bill[b] EXCEPT !.hold = TRUE].priority = bill[b].priority
        /\ [bill[b] EXCEPT !.hold = TRUE].option = bill[b].option
    BY ONLY <2>3 DEF DebtRow
  <2>6. /\ r \in DebtRow /\ r.status = bill[b].status
        /\ r.priority = bill[b].priority /\ r.option = bill[b].option
    BY ONLY <2>3, <2>4, <2>5
  <2> HIDE DEF r
  <2> QED  BY <2>1, <2>2, <2>6, <1>1
<1> QED  BY <1>3, <1>4, <1>5 DEF OwnerNext

\* A candidate of the present state that keeps its promise splits no commitment
\* on hold: the trial keeps the hold on the first part, which is due inside the
\* horizon and critical.
LEMMA FeasibleSplitsNoHold ==
    ASSUME Rows, NEW k, NEW c, c = Candidate(k, FinancialState), c.feasible
    PROVE  \A b \in DOMAIN c.split : ~bill[b].hold
<1> DEFINE split == c.split
           trial == Trial(k, FinancialState)
<1> SUFFICES ASSUME NEW b \in DOMAIN split PROVE ~bill[b].hold
  OBVIOUS
<1>1. /\ split = Split(k, FinancialState)
      /\ Feasible(trial, c.contribution)
  BY Fields
<1> HIDE DEF split
<1>2. /\ b \in Bill /\ bill[b].status = "OPEN" /\ split[b] \in Option
      /\ k = "USE_INSTALLMENT_OPTION"
      /\ split[b] = SeedBill[b].option /\ SeedBill[b].option # None
  BY <1>1, SplitRowsAre
<1>3. split[b].dates[1] <= Horizon /\ bill[b].priority = "CRITICAL"
  BY <1>2, RescueAssumption DEF Rows
<1>4. b \in Debt /\ bill[b] \in DebtRow
  BY <1>2 DEF Rows, Debt
<1>5. DOMAIN Deadlines(k, FinancialState) = {}
  <2>1. Deadlines(k, FinancialState) = <<>>
    BY <1>2 DEF Deadlines
  <2> QED  BY <2>1
<1> DEFINE row == [bill[b] EXCEPT !.amount = split[b].amounts[1],
                                  !.due = split[b].dates[1], !.option = None]
<1>6. trial.bill[b] = row
  BY <1>1, <1>4, <1>5 DEF Trial, TrialBill, FinancialState
<1>7. /\ row.status = bill[b].status /\ row.priority = bill[b].priority
      /\ row.due = split[b].dates[1] /\ row.hold = bill[b].hold
  BY ONLY <1>4 DEF DebtRow
<1> HIDE DEF row, trial
<1>8. b \in Critical(trial)
  BY <1>2, <1>3, <1>4, <1>6, <1>7 DEF Critical
<1>9. ~trial.bill[b].hold
  BY <1>1, <1>8 DEF Feasible
<1> QED  BY <1>6, <1>7, <1>9

-----------------------------------------------------------------------------
(* The inductive invariant *)

LEMMA InitIInv == Init => IInv
<1> SUFFICES ASSUME Init PROVE IInv
  OBVIOUS
<1>1. NoDebt \in DebtRow
  BY DEF NoDebt, DebtRow
<1>2. bill \in [Debt -> DebtRow]
  BY <1>1, RescueAssumption DEF Init
<1>3. ASSUME NEW b \in Bill
      PROVE  /\ bill[b].status = "OPEN" /\ bill[b].priority = SeedBill[b].priority
             /\ bill[b].option \in {SeedBill[b].option, None}
             /\ \A x \in Part : bill[<<b, x>>].status = "OPEN" => bill[b].option = None
  <2>1. b \in Debt /\ bill[b] = SeedBill[b]
    BY DEF Init, Debt
  <2>2. \A x \in Part : <<b, x>> \in Debt /\ <<b, x>> \notin Bill
    BY RescueAssumption DEF Debt, Part
  <2>3. \A x \in Part : bill[<<b, x>>] = NoDebt
    BY <2>2 DEF Init
  <2>4. NoDebt.status = "NONE"
    BY DEF NoDebt
  <2> QED  BY <2>1, <2>3, <2>4, RescueAssumption
<1>4. Rows
  BY <1>2, <1>3 DEF Rows
<1>5. Computed /\ OffersKnowTheState
  BY DEF Init, Computed, OffersKnowTheState
<1> QED  BY <1>4, <1>5 DEF IInv

\* Executing a prepared rescue: it is a candidate of the present state.
LEMMA ExecutesACandidate ==
    ASSUME IInv, NEW a \in actions
    PROVE  /\ a.hash = FinancialState /\ a.c.feasible
           /\ \E k \in Kind : a.c = Candidate(k, FinancialState)
<1>1. a.hash = FinancialState /\ a.c.feasible
  BY DEF IInv, OffersKnowTheState
<1> HIDE DEF FinancialState, Candidate
<1> QED  BY <1>1 DEF IInv, Computed

LEMMA IInvStep == IInv /\ [Next]_vars => IInv'
<1> SUFFICES ASSUME IInv, [Next]_vars PROVE IInv'
  OBVIOUS
<1>1. CASE OwnerNext
  <2>1. Rows'
    BY <1>1, OwnerKeepsRows DEF IInv
  <2>2. actions' = {} /\ offers' = {}
    BY <1>1 DEF OwnerNext, PatchObligation, PatchFund, Hold, VerifyBeneficiary, Invalidate
  <2> QED  BY <2>1, <2>2 DEF IInv, Computed, OffersKnowTheState
<1>2. CASE GeneratePlan
  BY <1>2 DEF GeneratePlan, IInv, Rows, Computed, OffersKnowTheState, FinancialState
<1>3. CASE GenerateRescue
  <2> DEFINE new == {[plan |-> FinancialState, c |-> Candidate(k, FinancialState)] :
                        k \in {x \in Kind : Applies(x, FinancialState)}}
  <2>1. UNCHANGED <<bill, fund, actions>> /\ offers' = offers \cup new
    BY <1>3 DEF GenerateRescue
  <2>2. FinancialState' = FinancialState
    BY <2>1 DEF FinancialState
  <2>3. \A o \in new : /\ o.plan = FinancialState
                       /\ \E k \in Kind : o.c = Candidate(k, o.plan)
    <3> HIDE DEF FinancialState, Candidate, Applies
    <3> QED  OBVIOUS
  <2> HIDE DEF new
  <2>4. Rows'
    BY <2>1 DEF IInv, Rows
  <2>5. Computed'
    BY <2>1, <2>3 DEF IInv, Computed
  <2>6. OffersKnowTheState'
    BY <2>1, <2>2, <2>3 DEF IInv, OffersKnowTheState
  <2> QED  BY <2>4, <2>5, <2>6 DEF IInv
<1>4. CASE \E o \in offers : Prepare(o)
  <2>1. PICK o \in offers : Prepare(o)
    BY <1>4
  <2> DEFINE new == [hash |-> FinancialState, c |-> o.c, approvals |-> {}]
  <2>2. /\ UNCHANGED <<bill, fund, plans, offers>> /\ actions' = actions \cup {new}
        /\ o.c.feasible /\ o.plan = FinancialState
    BY <2>1 DEF Prepare, Preparable
  <2>3. /\ new.hash = FinancialState /\ new.c = o.c
        /\ new = [hash |-> new.hash, c |-> new.c, approvals |-> new.approvals]
    OBVIOUS
  <2>4. \E k \in Kind : o.c = Candidate(k, FinancialState)
    BY <2>2 DEF IInv, Computed
  <2>5. FinancialState' = FinancialState
    BY <2>2 DEF FinancialState
  <2> HIDE DEF new
  <2>6. Rows'
    BY <2>2 DEF IInv, Rows
  <2>7. Computed'
    BY <2>2, <2>3, <2>4 DEF IInv, Computed
  <2>8. OffersKnowTheState'
    BY <2>2, <2>3, <2>5 DEF IInv, OffersKnowTheState
  <2> QED  BY <2>6, <2>7, <2>8 DEF IInv
<1>5. CASE \E a \in actions : \E actor \in Actor : Approve(a, actor)
  <2>1. PICK a \in actions, actor \in Actor : Approve(a, actor)
    BY <1>5
  <2> DEFINE new == [a EXCEPT !.approvals = @ \cup {actor}]
  <2>2. /\ UNCHANGED <<bill, fund, plans, offers>>
        /\ actions' = (actions \ {a}) \cup {new}
    BY <2>1 DEF Approve
  <2>3. /\ new.hash = a.hash /\ new.c = a.c
        /\ new = [hash |-> new.hash, c |-> new.c, approvals |-> new.approvals]
    <3>1. a = [hash |-> a.hash, c |-> a.c, approvals |-> a.approvals]
      BY DEF IInv, Computed
    <3>2. new = [hash |-> a.hash, c |-> a.c, approvals |-> a.approvals \cup {actor}]
      BY ONLY <3>1
    <3> HIDE DEF new
    <3> QED  BY ONLY <3>2
  <2>4. FinancialState' = FinancialState
    BY <2>2 DEF FinancialState
  <2> HIDE DEF new
  <2>5. Rows'
    BY <2>2 DEF IInv, Rows
  <2>6. Computed'
    BY <2>2, <2>3 DEF IInv, Computed
  <2>7. OffersKnowTheState'
    BY <2>2, <2>3, <2>4 DEF IInv, OffersKnowTheState
  <2> QED  BY <2>5, <2>6, <2>7 DEF IInv
<1>6. CASE \E a \in actions : Execute(a)
  <2>1. PICK a \in actions : Execute(a)
    BY <1>6
  <2>2. /\ bill' = Rescheduled(SplitBills(a.c), a.c)
        /\ actions' = {} /\ offers' = {}
    BY <2>1 DEF Execute
  <2>3. \E k \in Kind : a.c = Candidate(k, FinancialState)
    BY ExecutesACandidate
  <2>4. Rows'
    BY <2>2, <2>3, ExecutedBill DEF IInv
  <2> QED  BY <2>2, <2>4 DEF IInv, Computed, OffersKnowTheState
<1>7. CASE UNCHANGED vars
  BY <1>7 DEF vars, IInv, Rows, Computed, OffersKnowTheState, FinancialState
<1> QED  BY <1>1, <1>2, <1>3, <1>4, <1>5, <1>6, <1>7 DEF Next, RescueNext

LEMMA Invariance == Spec => []IInv
BY InitIInv, IInvStep, PTL DEF Spec

-----------------------------------------------------------------------------
(* The theorems *)

\* invalidate (planning.py): whatever a candidate or a prepared rescue was computed
\* from still stands when it is prepared, approved or executed.
THEOREM StateIsKnown == Spec => []OffersKnowTheState
<1>1. IInv => OffersKnowTheState
  BY DEF IInv
<1> QED  BY Invariance, <1>1, PTL

\* Executing a rescue changes a source with the approval of its owner, brings money
\* in with the parent's and reschedules critical debt with the institution's.
LEMMA ExecuteIsConsented ==
    ASSUME IInv, NEW a \in actions, Execute(a)
    PROVE  /\ Student \in a.approvals
           /\ \A f \in Source :
                 /\ fund[f].status # "NONE" /\ fund'[f] # fund[f]
                       => fund[f].owner \in a.approvals
                 /\ fund[f].status = "NONE" /\ fund'[f] # fund[f] => Parent \in a.approvals
           /\ \A b \in Bill : bill'[b] # bill[b] /\ bill[b].priority = "CRITICAL"
                 => Admin \in a.approvals
<1> DEFINE c == a.c
<1>1. PICK k \in Kind : c = Candidate(k, FinancialState)
  BY ExecutesACandidate
<1>2. PICK receipts \in Received(c) : fund' = Funded(c, receipts)
  BY DEF Execute
<1>3. c.required \subseteq a.approvals /\ bill' = Rescheduled(SplitBills(c), c)
  BY DEF Execute
<1> HIDE DEF c
<1>4. /\ \A f \in c.release : fund[f].owner = Student /\ fund[f].status # "NONE"
      /\ \A f \in c.advance : fund[f].owner \in c.required /\ fund[f].status # "NONE"
      /\ Student \in c.required
      /\ c.contribution # 0 => Parent \in c.required
      /\ k = "REQUEST_DEADLINE_EXTENSION" \/ DOMAIN c.split # {} => Admin \in c.required
  BY <1>1, FundsAre
<1>5. \A f \in receipts : fund[f].status = "NONE" /\ c.contribution # 0
  BY <1>2 DEF Received
<1>6. \A f \in Source :
         fund'[f] # fund[f] => f \in receipts \/ f \in c.release \/ f \in c.advance
  BY <1>2 DEF Funded
<1>7. ASSUME NEW b \in Bill, bill'[b] # bill[b], bill[b].priority = "CRITICAL"
      PROVE  Admin \in c.required
  <2>1. b \in DOMAIN c.split \cup DOMAIN c.deadline
    BY <1>1, <1>3, <1>7, ExecutedBill DEF IInv
  <2>2. CASE b \in DOMAIN c.split
    BY <2>2, <1>4
  <2>3. CASE b \in DOMAIN c.deadline
    <3>1. c.deadline = Deadlines(k, FinancialState)
      BY <1>1, Fields
    <3>2. k = "REQUEST_DEADLINE_EXTENSION"
      BY <3>1, <2>3, <1>7, DeadlinesAre DEF IInv
    <3> QED  BY <3>2, <1>4
  <2> QED  BY <2>1, <2>2, <2>3
<1> QED  BY <1>3, <1>4, <1>5, <1>6, <1>7

\* Threat model: a source is released, sent earlier or brought in, a schedule or a
\* deadline is changed, only with the approval of the one who has to agree.
THEOREM EveryChangeIsConsented == Spec => ChangesAreConsented
<1>1. IInv /\ [Next]_vars =>
        [\A a \in actions : Execute(a) =>
          /\ Student \in a.approvals
          /\ \A f \in Source :
                /\ fund[f].status # "NONE" /\ fund'[f] # fund[f]
                      => fund[f].owner \in a.approvals
                /\ fund[f].status = "NONE" /\ fund'[f] # fund[f] => Parent \in a.approvals
          /\ \A b \in Bill : bill'[b] # bill[b] /\ bill[b].priority = "CRITICAL"
                => Admin \in a.approvals]_vars
  BY ExecuteIsConsented
<1> QED  BY Invariance, <1>1, PTL DEF Spec, ChangesAreConsented

LEMMA StepSplitsNoHold ==
    ASSUME IInv, [Next]_vars, NEW d \in Debt,
           bill[d].status = "NONE", bill'[d].status = "OPEN"
    PROVE  ~bill[d[1]].hold
<1>1. Rows
  BY DEF IInv
<1>2. ~OwnerNext
  BY <1>1, OwnerKeepsRows
<1>3. bill' # bill
  OBVIOUS
<1>4. PICK a \in actions : Execute(a)
  BY <1>2, <1>3
  DEF Next, RescueNext, GeneratePlan, GenerateRescue, Prepare, Approve, vars
<1>5. a.c.feasible /\ \E k \in Kind : a.c = Candidate(k, FinancialState)
  BY ExecutesACandidate
<1>6. PICK k \in Kind : a.c = Candidate(k, FinancialState)
  BY <1>5
<1>7. bill' = Rescheduled(SplitBills(a.c), a.c)
  BY <1>4 DEF Execute
<1>8. d \notin Bill
  BY <1>1 DEF Rows
<1>9. PICK b \in Bill, x \in Part : d = <<b, x>>
  BY <1>8 DEF Debt, Part
<1>10. b \in DOMAIN a.c.split
  BY <1>1, <1>6, <1>7, <1>9, ExecutedBill
<1>11. ~bill[b].hold
  BY <1>1, <1>5, <1>6, <1>10, FeasibleSplitsNoHold
<1> QED  BY <1>9, <1>11

\* execute, security_hold: parts are added to commitments without a hold only, so
\* that splitting never lifts one.
THEOREM NoHoldIsSplitAway == Spec => HoldIsNotSplitAway
<1>1. IInv /\ [Next]_vars =>
        [\A d \in Debt :
           bill[d].status = "NONE" /\ bill'[d].status = "OPEN" => ~bill[d[1]].hold]_vars
  BY StepSplitsNoHold
<1> QED  BY Invariance, <1>1, PTL DEF Spec, HoldIsNotSplitAway

\* docs/architecture.md, "Extensions keep critical debt inside the horizon": what
\* execute does to a critical row inside the horizon leaves it there.
THEOREM CriticalDebtStays == Spec => CriticalStaysInside
<1>1. ASSUME IInv, NEW a \in actions, Execute(a)
      PROVE  \A d \in Critical(FinancialState) : d \in Critical(FinancialState')
  <2>1. \E k \in Kind : a.c = Candidate(k, FinancialState)
    BY <1>1, ExecutesACandidate
  <2>2. bill' = Rescheduled(SplitBills(a.c), a.c) /\ Rows
    BY <1>1 DEF Execute, IInv
  <2> QED  BY <2>1, <2>2, ExecutedBill
<1>2. IInv /\ [Next]_vars =>
        [\A a \in actions : Execute(a) =>
           \A d \in Critical(FinancialState) : d \in Critical(FinancialState')]_vars
  BY <1>1
<1> QED  BY Invariance, <1>2, PTL DEF Spec, CriticalStaysInside

-----------------------------------------------------------------------------
(* The search for the least contribution *)

\* A contribution that is enough stays enough when it grows.
Upward(s) == \A m, n \in Nat : Feasible(s, m) /\ m <= n => Feasible(s, n)

\* n is the least feasible number from low on, or high when there is none below.
Least(s, low, high, n) ==
    /\ n \in low..high
    /\ Feasible(s, n) \/ n = high
    /\ \A m \in low..high : m < n => ~Feasible(s, m)

\* The recursive function of Search.
IsSearch(s, g) ==
    g = [x \in Nat \X Nat |->
            LET mid == (x[1] + x[2]) \div 2
            IN  IF x[1] >= x[2] THEN x[1]
                ELSE IF Feasible(s, mid) THEN g[<<x[1], mid>>]
                ELSE g[<<mid + 1, x[2]>>]]

\* Search is the value of that function.
LEMMA SearchIsChosen ==
    ASSUME NEW s, NEW low, NEW high
    PROVE  Search(s, low, high) = (CHOOSE g : IsSearch(s, g))[<<low, high>>]
BY DEF Search, IsSearch

\* The middle of an interval that is not a single number.
LEMMA Middle ==
    ASSUME NEW low \in Nat, NEW high \in Nat, low < high
    PROVE  LET mid == (low + high) \div 2
           IN  mid \in Nat /\ low <= mid /\ mid < high
OBVIOUS

\* What is found in the half that is searched is found in the interval.
LEMMA LowerHalf ==
    ASSUME NEW s, NEW low \in Nat, NEW mid \in Nat, NEW high \in Nat,
           low <= mid, mid < high, Feasible(s, mid), NEW n, Least(s, low, mid, n)
    PROVE  Least(s, low, high, n)
<1> HIDE DEF Feasible
<1> QED  BY DEF Least

\* Likewise in the upper half: below the middle nothing is enough.
LEMMA UpperHalf ==
    ASSUME NEW s, Upward(s), NEW low \in Nat, NEW mid \in Nat, NEW high \in Nat,
           low <= mid, mid < high, ~Feasible(s, mid), NEW n, Least(s, mid + 1, high, n)
    PROVE  Least(s, low, high, n)
<1>1. \A m \in low..mid : ~Feasible(s, m)
  BY DEF Upward
<1> QED  BY <1>1 DEF Least

\* A nonempty set of numbers has a least one.
LEMMA LeastNumber ==
    ASSUME NEW S \in SUBSET Nat, S # {}
    PROVE  \E x \in S : \A y \in S : x <= y
<1> DEFINE R == {ss \in Nat \X Nat : ss[1] < ss[2]}
<1>1. IsWellFoundedOn(R, Nat)
  BY NatLessThanWellFounded DEF OpToRel
<1>2. \A x, y \in Nat : y < x => <<y, x>> \in R
  OBVIOUS
<1>3. \E x \in S : \A y \in S : ~(<<y, x>> \in R)
  <2> HIDE DEF R
  <2> QED  BY <1>1, WFMin, Zenon
<1>4. PICK x \in S : \A y \in S : ~(<<y, x>> \in R)
  BY <1>3
<1> HIDE DEF R
<1>5. \A y \in S : ~(y < x)
  BY <1>2, <1>4
<1> QED  BY <1>5

\* The least number exists and is one.
LEMMA LeastExists ==
    ASSUME NEW s, NEW low \in Nat, NEW high \in Nat, low <= high
    PROVE  \E n \in Nat : Least(s, low, high, n)
<1> DEFINE S == {n \in low..high : Feasible(s, n)}
<1>1. CASE S = {}
  <2>1. Least(s, low, high, high)
    BY <1>1 DEF Least
  <2> QED  BY <2>1
<1>2. CASE S # {}
  <2>1. S \in SUBSET Nat
    OBVIOUS
  <2>2. \A n \in S : n \in low..high /\ Feasible(s, n)
    OBVIOUS
  <2>3. \A n \in low..high : Feasible(s, n) => n \in S
    OBVIOUS
  <2> HIDE DEF S
  <2>4. PICK x \in S : \A y \in S : x <= y
    BY <1>2, <2>1, LeastNumber
  <2>5. x \in Nat
    BY <2>1
  <2>6. Least(s, low, high, x)
    <3>1. ASSUME NEW m \in low..high, m < x, Feasible(s, m) PROVE FALSE
      <4>1. m \in S
        BY <2>3, <3>1
      <4>2. x <= m /\ m \in Nat
        BY <4>1, <2>4, <2>1
      <4> QED  BY <4>2, <2>5, <3>1
    <3> QED  BY <3>1, <2>2 DEF Least
  <2> QED  BY <2>5, <2>6
<1> QED  BY <1>1, <1>2

\* No two numbers are the least.
LEMMA LeastIsOne ==
    ASSUME NEW s, NEW low \in Nat, NEW high \in Nat, NEW m, NEW n,
           Least(s, low, high, m), Least(s, low, high, n)
    PROVE  m = n
BY DEF Least

\* There is such a function: it gives the least numbers.
LEMMA SearchExists ==
    ASSUME NEW s, Upward(s)
    PROVE  \E g : IsSearch(s, g)
<1> DEFINE L(low, high) == CHOOSE n \in Nat : Least(s, low, high, n)
           g == [x \in Nat \X Nat |-> IF x[1] >= x[2] THEN x[1] ELSE L(x[1], x[2])]
           v(x) == LET mid == (x[1] + x[2]) \div 2
                   IN  IF x[1] >= x[2] THEN x[1]
                       ELSE IF Feasible(s, mid) THEN g[<<x[1], mid>>]
                       ELSE g[<<mid + 1, x[2]>>]
<1>1. ASSUME NEW low \in Nat, NEW high \in Nat, low <= high
      PROVE  Least(s, low, high, g[<<low, high>>])
  <2>1. CASE low = high
    <3>1. g[<<low, high>>] = low
      BY <2>1
    <3> HIDE DEF g
    <3> QED  BY <2>1, <3>1 DEF Least
  <2>2. CASE low < high
    <3>1. g[<<low, high>>] = L(low, high)
      BY <2>2
    <3>2. \E n \in Nat : Least(s, low, high, n)
      BY <1>1, LeastExists
    <3>3. Least(s, low, high, L(low, high))
      BY <3>2
    <3> HIDE DEF g, L
    <3> QED  BY <3>1, <3>3
  <2> QED  BY <1>1, <2>1, <2>2
<1>2. ASSUME NEW low \in Nat, NEW high \in Nat
      PROVE  g[<<low, high>>] = v(<<low, high>>)
  <2>1. CASE low >= high
    BY <2>1
  <2>2. CASE low < high
    <3>1. PICK mid : mid = (low + high) \div 2
      OBVIOUS
    <3>2. mid \in Nat /\ low <= mid /\ mid < high
      BY <2>2, <3>1, Middle
    <3>3. v(<<low, high>>) = IF Feasible(s, mid) THEN g[<<low, mid>>]
                             ELSE g[<<mid + 1, high>>]
      <4> HIDE DEF g
      <4> QED  BY <2>2, <3>1
    <3> HIDE DEF g, v
    <3>4. Least(s, low, high, g[<<low, high>>])
      BY <1>1, <2>2
    <3>5. CASE Feasible(s, mid)
      <4>1. Least(s, low, mid, g[<<low, mid>>])
        BY <1>1, <3>2
      <4>2. Least(s, low, high, g[<<low, mid>>])
        BY <4>1, <3>2, <3>5, LowerHalf
      <4> QED  BY <4>2, <3>4, <3>3, <3>5, LeastIsOne
    <3>6. CASE ~Feasible(s, mid)
      <4>1. Least(s, mid + 1, high, g[<<mid + 1, high>>])
        BY <1>1, <3>2
      <4>2. Least(s, low, high, g[<<mid + 1, high>>])
        BY <4>1, <3>2, <3>6, UpperHalf
      <4> QED  BY <4>2, <3>4, <3>3, <3>6, LeastIsOne
    <3> QED  BY <3>5, <3>6
  <2> QED  BY <2>1, <2>2
<1>3. g = [x \in Nat \X Nat |-> g[x]]
  OBVIOUS
<1>4. \A x \in Nat \X Nat : g[x] = v(x)
  <2> TAKE x \in Nat \X Nat
  <2>1. x = <<x[1], x[2]>> /\ x[1] \in Nat /\ x[2] \in Nat
    OBVIOUS
  <2> HIDE DEF g, v
  <2> QED  BY <2>1, <1>2
<1>5. g = [x \in Nat \X Nat |-> v(x)]
  <2> HIDE DEF g, v
  <2> QED  BY <1>3, <1>4
<1>6. IsSearch(s, g)
  <2> HIDE DEF g
  <2> QED  BY <1>5 DEF IsSearch
<1> QED  BY <1>6

\* planner: the binary search finds the least contribution that is enough, or the
\* largest that is tried.
THEOREM SearchFinds ==
    ASSUME NEW s, Upward(s), NEW low \in Nat, NEW high \in Nat, low <= high
    PROVE  Least(s, low, high, Search(s, low, high))
<1> DEFINE h == CHOOSE g : IsSearch(s, g)
<1>1. IsSearch(s, h)
  BY SearchExists
<1>2. Search(s, low, high) = h[<<low, high>>]
  BY SearchIsChosen
<1> HIDE DEF h
<1>3. ASSUME NEW m \in Nat, NEW n \in Nat
      PROVE  h[<<m, n>>] = LET mid == (m + n) \div 2
                           IN  IF m >= n THEN m
                               ELSE IF Feasible(s, mid) THEN h[<<m, mid>>]
                               ELSE h[<<mid + 1, n>>]
  <2>1. <<m, n>> \in Nat \X Nat /\ <<m, n>>[1] = m /\ <<m, n>>[2] = n
    OBVIOUS
  <2> HIDE DEF Feasible
  <2> QED  BY <1>1, <2>1 DEF IsSearch
<1> DEFINE W == {w \in Nat : \E m \in Nat : ~Least(s, m, m + w, h[<<m, m + w>>])}
<1>4. CASE W # {}
  <2>1. W \in SUBSET Nat
    OBVIOUS
  <2>2. PICK w \in W : \A y \in W : w <= y
    BY <1>4, <2>1, LeastNumber
  <2>3. PICK m \in Nat : ~Least(s, m, m + w, h[<<m, m + w>>])
    OBVIOUS
  <2>4. w \in Nat
    OBVIOUS
  <2>5. ASSUME NEW p \in Nat, NEW q \in Nat, p <= q, q - p < w
        PROVE  Least(s, p, q, h[<<p, q>>])
    <3>1. q - p \in Nat /\ p + (q - p) = q
      BY <2>5
    <3>2. q - p \notin W
      <4> HIDE DEF W
      <4> QED  BY <2>2, <2>4, <2>5, <3>1, <2>1
    <3>3. Least(s, p, p + (q - p), h[<<p, p + (q - p)>>])
      BY <3>1, <3>2
    <3> QED  BY <3>1, <3>3
  <2> HIDE DEF W
  <2>6. PICK n \in Nat : n = m + w
    BY <2>4
  <2>7. CASE w = 0
    <3>1. n = m /\ h[<<m, n>>] = m
      <4>1. n = m
        BY ONLY <2>6, <2>7, m \in Nat
      <4>2. m >= n => h[<<m, n>>] = m
        <5> HIDE DEF Feasible
        <5> QED  BY ONLY <1>3, m \in Nat, n \in Nat, <4>1
      <4> QED  BY <4>1, <4>2
    <3>2. Least(s, m, n, m)
      BY <3>1 DEF Least
    <3> QED  BY <2>3, <2>6, <3>1, <3>2
  <2>8. CASE w # 0
    <3>1. m < n
      BY <2>4, <2>6, <2>8
    <3>2. PICK mid : mid = (m + n) \div 2
      OBVIOUS
    <3>3. mid \in Nat /\ m <= mid /\ mid < n
      BY <3>1, <3>2, Middle
    <3>4. h[<<m, n>>] = IF Feasible(s, mid) THEN h[<<m, mid>>] ELSE h[<<mid + 1, n>>]
      BY <1>3, <3>1, <3>2
    <3>5. CASE Feasible(s, mid)
      <4>1. Least(s, m, mid, h[<<m, mid>>])
        BY <2>4, <2>5, <2>6, <3>3
      <4>2. Least(s, m, n, h[<<m, mid>>])
        BY <4>1, <3>3, <3>5, LowerHalf
      <4> QED  BY <4>2, <3>4, <3>5, <2>3, <2>6
    <3>6. CASE ~Feasible(s, mid)
      <4>1. Least(s, mid + 1, n, h[<<mid + 1, n>>])
        BY <2>4, <2>5, <2>6, <3>3
      <4>2. Least(s, m, n, h[<<mid + 1, n>>])
        BY <4>1, <3>3, <3>6, UpperHalf
      <4> QED  BY <4>2, <3>4, <3>6, <2>3, <2>6
    <3> QED  BY <3>5, <3>6
  <2> QED  BY <2>7, <2>8
<1>5. CASE W = {}
  <2>1. high - low \in Nat /\ low + (high - low) = high
    OBVIOUS
  <2>2. high - low \notin W
    BY <1>5
  <2>3. Least(s, low, low + (high - low), h[<<low, low + (high - low)>>])
    BY <2>1, <2>2
  <2> QED  BY <2>1, <2>3, <1>2
<1> QED  BY <1>4, <1>5

-----------------------------------------------------------------------------
(* What is due and what has arrived by a day *)

\* The rows of the sources.
Funds == fund \in [Source -> FundRow]

\* The two sides of Fits.
DueBy(s, day) == {d \in Critical(s) : s.bill[d].due <= day}
ThereBy(s, day) == {f \in Source : Max({0, s.fund[f].from}) <= day}
OwedBy(s, day) == SumFunctionOnSet([d \in Debt |-> s.bill[d].amount], DueBy(s, day))
FundedBy(s, day) ==
    SumFunctionOnSet([f \in Source |-> Capacity(s.fund[f])], ThereBy(s, day))

\* Fits compares the two sums.
LEMMA FitsIs ==
    ASSUME NEW s, NEW extra, NEW day
    PROVE  Fits(s, extra, day)
             <=> OwedBy(s, day) <= FundedBy(s, day) + IF day >= 0 THEN extra ELSE 0
BY DEF Fits, OwedBy, FundedBy, DueBy, ThereBy

\* The rows are finitely many.
LEMMA FinitelyMany == IsFiniteSet(Debt) /\ IsFiniteSet(Source)
<1>1. IsFiniteSet({"part2"}) /\ IsFiniteSet({"part2"} \cup {"fee"})
  BY FS_Singleton, FS_AddElement
<1>2. {"part2", "fee"} = {"part2"} \cup {"fee"}
  OBVIOUS
<1>3. IsFiniteSet(Bill) /\ IsFiniteSet(DOMAIN SeedSource) /\ IsFiniteSet(Receipt)
  BY RescueAssumption
<1>4. IsFiniteSet({"part2", "fee"})
  BY <1>1, <1>2
<1>5. IsFiniteSet(Bill \X {"part2", "fee"})
  BY <1>3, <1>4, FS_Product
<1> QED  BY <1>3, <1>5, FS_Union DEF Debt, Source

\* A state has rows of the schema.
LEMMA StateRows ==
    ASSUME NEW s \in State
    PROVE  /\ \A d \in Debt : s.bill[d] \in DebtRow
           /\ \A f \in Source : s.fund[f] \in FundRow
BY DEF State

\* Capacities, debts and capacities that are there are never negative.
LEMMA CapacityNat ==
    ASSUME NEW f \in FundRow
    PROVE  Capacity(f) \in Nat
BY DEF Capacity, FundRow

\* What any commitments owe together.
LEMMA OwedNat ==
    ASSUME NEW s \in State, NEW R \in SUBSET Debt
    PROVE  SumFunctionOnSet([d \in Debt |-> s.bill[d].amount], R) \in Nat
<1> DEFINE w == [d \in Debt |-> s.bill[d].amount]
<1>1. \A d \in R : w[d] \in Nat
  BY StateRows DEF DebtRow
<1>2. IsFiniteSet(R)
  BY FinitelyMany, FS_Subset
<1> HIDE DEF w
<1>3. SumFunctionOnSet(w, R) \in Nat
  BY <1>1, <1>2, SumNat
<1> QED  BY <1>3 DEF w

\* What any sources hold together.
LEMMA FundedNat ==
    ASSUME NEW s \in State, NEW R \in SUBSET Source
    PROVE  SumFunctionOnSet([f \in Source |-> Capacity(s.fund[f])], R) \in Nat
<1> DEFINE w == [f \in Source |-> Capacity(s.fund[f])]
<1>1. \A f \in R : w[f] \in Nat
  BY StateRows, CapacityNat
<1>2. IsFiniteSet(R)
  BY FinitelyMany, FS_Subset
<1> HIDE DEF w
<1>3. SumFunctionOnSet(w, R) \in Nat
  BY <1>1, <1>2, SumNat
<1> QED  BY <1>3 DEF w

\* More money from the family never makes a plan fail (planner: the search may be
\* a binary one).
THEOREM MoreIsEnough ==
    ASSUME NEW s \in State
    PROVE  Upward(s)
<1> SUFFICES ASSUME NEW m \in Nat, NEW n \in Nat, Feasible(s, m), m <= n,
                    NEW d \in Critical(s)
             PROVE  ~s.bill[d].hold /\ Fits(s, n, s.bill[d].due)
  BY DEF Upward, Feasible
<1>1. d \in Debt
  BY DEF Critical
<1>2. PICK day \in Int : day = s.bill[d].due
  BY <1>1, StateRows DEF DebtRow
<1>3. ~s.bill[d].hold /\ Fits(s, m, day)
  BY <1>2 DEF Feasible
<1>4. DueBy(s, day) \in SUBSET Debt /\ ThereBy(s, day) \in SUBSET Source
  BY DEF DueBy, ThereBy, Critical
<1>5. OwedBy(s, day) \in Nat /\ FundedBy(s, day) \in Nat
  BY <1>4, OwedNat, FundedNat DEF OwedBy, FundedBy
<1>6. OwedBy(s, day) <= FundedBy(s, day) + IF day >= 0 THEN m ELSE 0
  BY <1>3, FitsIs
<1>7. OwedBy(s, day) <= FundedBy(s, day) + IF day >= 0 THEN n ELSE 0
  BY <1>5, <1>6
<1> QED  BY <1>2, <1>3, <1>7, FitsIs

\* The largest contribution that is tried.
LEMMA HighNat ==
    ASSUME NEW s \in State
    PROVE  High(s) \in Nat
<1>1. OpenDebts(s) \in SUBSET Debt
  BY DEF OpenDebts
<1>2. SumFunctionOnSet([d \in Debt |-> s.bill[d].amount], OpenDebts(s)) \in Nat
  BY <1>1, OwedNat
<1>3. Headroom \in Nat
  BY RescueAssumption
<1> QED  BY <1>2, <1>3 DEF High

\* planner: what the family is asked for is the least that is enough, and nothing
\* when the largest that is tried is not.
LEMMA ContributionIs ==
    ASSUME NEW s \in State
    PROVE  /\ Contribution(s) \in Nat
           /\ IF Feasible(s, Contribution(s))
              THEN \A n \in 0..(Contribution(s) - 1) : ~Feasible(s, n)
              ELSE Contribution(s) = 0 /\ \A n \in 0..High(s) : ~Feasible(s, n)
<1> DEFINE high == High(s)
<1>1. Upward(s) /\ high \in Nat
  BY MoreIsEnough, HighNat
<1> HIDE DEF high
<1>2. CASE Feasible(s, high)
  <2>1. PICK n : n = Search(s, 0, high)
    OBVIOUS
  <2>2. Least(s, 0, high, n)
    BY <1>1, <2>1, SearchFinds
  <2>3. Contribution(s) = n
    BY <1>2, <2>1 DEF Contribution, high
  <2>4. n \in Nat /\ Feasible(s, n) /\ \A m \in 0..(n - 1) : ~Feasible(s, m)
    BY <1>1, <1>2, <2>2 DEF Least
  <2> QED  BY <2>3, <2>4
<1>3. CASE ~Feasible(s, high)
  <2>1. Contribution(s) = 0
    BY <1>3 DEF Contribution, high
  <2>2. \A n \in 0..high : ~Feasible(s, n)
    BY <1>1, <1>3 DEF Upward
  <2>3. ~Feasible(s, 0)
    BY <2>2, <1>1
  <2> QED  BY <2>1, <2>2, <2>3 DEF high
<1> QED  BY <1>2, <1>3

\* planner: a trial is a state.
LEMMA TrialIsState ==
    ASSUME Rows, Funds, NEW k
    PROVE  Trial(k, FinancialState) \in State
<1> DEFINE s == FinancialState
           split == Split(k, s)
           deadline == Deadlines(k, s)
           Piece(b, i) == [bill[b] EXCEPT !.amount = split[b].amounts[i],
                                         !.due = split[b].dates[i], !.option = None]
           tb == TrialBill(k, s)
           tf == TrialFund(k, s)
<1>1. \A d \in Debt : bill[d] \in DebtRow
  BY DEF Rows
<1>2. DOMAIN deadline \subseteq Debt /\ \A d \in DOMAIN deadline : deadline[d] \in Int
  BY DeadlinesAre
<1>3. DOMAIN split \subseteq Bill /\ \A b \in DOMAIN split : split[b] \in Option
  BY SplitRowsAre
<1>4. \A d \in Debt :
        tb[d] = IF d \in DOMAIN deadline THEN [bill[d] EXCEPT !.due = deadline[d]]
                ELSE IF d \in DOMAIN split THEN Piece(d, 1)
                ELSE IF d \in (DOMAIN split) \X {"part2"} THEN Piece(d[1], 2)
                ELSE IF d \in (DOMAIN split) \X {"fee"} /\ split[d[1]].fee > 0
                THEN [Piece(d[1], 1) EXCEPT !.amount = split[d[1]].fee]
                ELSE bill[d]
  <2> HIDE DEF split, deadline
  <2> QED  BY DEF TrialBill, FinancialState, split, deadline
<1>5. tb = [d \in Debt |-> tb[d]]
  <2> HIDE DEF split, deadline
  <2> QED  BY DEF TrialBill, FinancialState, split, deadline
<1>6. \A f \in Source : tf[f] \in FundRow
  <2> HIDE DEF Released, Advanced
  <2>1. ASSUME NEW r \in FundRow
        PROVE  /\ [r EXCEPT !.emergency = FALSE, !.reserve = 0] \in FundRow
               /\ [r EXCEPT !.from = 0] \in FundRow
    <3> HIDE DEF Piece, tb, tf, split, deadline
    <3>1. [r EXCEPT !.from = 0] \in FundRow
      BY ONLY <2>1 DEF FundRow
    <3>2. [r EXCEPT !.emergency = FALSE] \in FundRow
      BY ONLY <2>1 DEF FundRow
    <3>3. [r EXCEPT !.emergency = FALSE, !.reserve = 0] \in FundRow
      BY ONLY <2>1 DEF FundRow
    <3> QED  BY ONLY <3>1, <3>3
  <2> QED  BY <2>1 DEF Funds, TrialFund, FinancialState
<1>7. tf = [f \in Source |-> tf[f]]
  BY DEF TrialFund
<1> HIDE DEF tb, tf, split, deadline
<1>8. \A d \in Debt : tb[d] \in DebtRow
  <2>1. ASSUME NEW r \in DebtRow, NEW x \in Nat, NEW y \in Int
        PROVE  /\ [r EXCEPT !.due = y] \in DebtRow
               /\ [r EXCEPT !.amount = x, !.due = y, !.option = None] \in DebtRow
               /\ [r EXCEPT !.amount = x] \in DebtRow
    BY ONLY <2>1 DEF DebtRow
  <2>2. \A b \in DOMAIN split : /\ Piece(b, 1) \in DebtRow /\ Piece(b, 2) \in DebtRow
                                /\ split[b].fee \in Nat
    <3> TAKE b \in DOMAIN split
    <3>1. /\ split[b].amounts[1] \in Nat /\ split[b].amounts[2] \in Nat
          /\ split[b].dates[1] \in Int /\ split[b].dates[2] \in Int /\ split[b].fee \in Nat
      BY <1>3 DEF Option
    <3>2. bill[b] \in DebtRow
      BY <1>1, <1>3 DEF Debt
    <3> QED  BY ONLY <3>1, <3>2, <2>1
  <2> TAKE d \in Debt
  <2> HIDE DEF Piece
  <2>3. CASE d \in DOMAIN deadline
    <3>1. tb[d] = [bill[d] EXCEPT !.due = deadline[d]]
      BY <1>4, <2>3
    <3>2. bill[d] \in DebtRow /\ deadline[d] \in Int /\ 0 \in Nat
      BY <1>1, <1>2, <2>3
    <3> QED  BY ONLY <3>1, <3>2, <2>1
  <2>4. CASE d \notin DOMAIN deadline
    <3>1. CASE d \in DOMAIN split
      BY <1>4, <2>4, <3>1, <2>2
    <3>2. CASE d \notin DOMAIN split /\ d \in (DOMAIN split) \X {"part2"}
      <4>1. tb[d] = Piece(d[1], 2) /\ d[1] \in DOMAIN split
        BY <1>4, <2>4, <3>2
      <4> QED  BY <4>1, <2>2
    <3>3. CASE /\ d \notin DOMAIN split /\ d \notin (DOMAIN split) \X {"part2"}
               /\ d \in (DOMAIN split) \X {"fee"} /\ split[d[1]].fee > 0
      <4>1. /\ tb[d] = [Piece(d[1], 1) EXCEPT !.amount = split[d[1]].fee]
            /\ d[1] \in DOMAIN split
        BY <1>4, <2>4, <3>3
      <4>2. Piece(d[1], 1) \in DebtRow /\ split[d[1]].fee \in Nat /\ 0 \in Int
        BY <4>1, <2>2
      <4> QED  BY ONLY <4>1, <4>2, <2>1
    <3>4. CASE /\ d \notin DOMAIN split /\ d \notin (DOMAIN split) \X {"part2"}
               /\ ~(d \in (DOMAIN split) \X {"fee"} /\ split[d[1]].fee > 0)
      <4>1. tb[d] = bill[d]
        BY <1>4, <2>4, <3>4
      <4> QED  BY <4>1, <1>1
    <3> QED  BY <3>1, <3>2, <3>3, <3>4
  <2> QED  BY <2>3, <2>4
<1>9. tb \in [Debt -> DebtRow] /\ tf \in [Source -> FundRow]
  BY <1>5, <1>6, <1>7, <1>8
<1> QED  BY <1>9 DEF Trial, State, tb, tf

-----------------------------------------------------------------------------
(* The typed invariant *)

\* A row that does not exist is blank.
Blank ==
    /\ \A r \in Receipt : fund[r].status = "NONE" => fund[r] = NoFund
    /\ \A d \in Debt : bill[d].status = "NONE" => bill[d] = NoDebt

\* Plans are states and approvals are those of actors who must agree.
Agreed == plans \subseteq State /\ \A a \in actions : a.approvals \subseteq a.c.required

\* The inductive invariant with the sources.
TInv == IInv /\ Funds /\ Blank /\ Agreed

\* The present state is one of the schema.
LEMMA PresentIsState ==
    ASSUME Rows, Funds
    PROVE  FinancialState \in State
BY DEF Rows, Funds, FinancialState, State

\* What a candidate of the present state asks for is a number.
LEMMA ContributionNat ==
    ASSUME Rows, Funds, NEW k, NEW c, c = Candidate(k, FinancialState)
    PROVE  c.contribution = Contribution(Trial(k, FinancialState)) /\ c.contribution \in Nat
<1>1. Trial(k, FinancialState) \in State
  BY TrialIsState
<1>2. c.contribution = Contribution(Trial(k, FinancialState))
  <2> HIDE DEF Split, Deadlines, Released, Advanced, RequiredActors, Feasible, Trial,
               Contribution
  <2> QED  BY DEF Candidate
<1> QED  BY <1>1, <1>2, ContributionIs

\* So are the rows that do not exist.
LEMMA BlankRows == NoFund \in FundRow /\ NoDebt \in DebtRow
<1>1. NoFund \in FundRow
  BY DEF NoFund, FundRow, FundStatus, Actor
<1>2. NoDebt \in DebtRow
  BY DEF NoDebt, DebtRow
<1> QED  BY <1>1, <1>2

\* What execute does to the sources.
LEMMA ExecutedFund ==
    ASSUME Rows, Funds, Blank, NEW k, NEW c, c = Candidate(k, FinancialState),
           NEW receipts \in Received(c), fund' = Funded(c, receipts)
    PROVE  /\ Funds'
           /\ \A r \in Receipt : fund'[r].status = "NONE" => fund'[r] = NoFund
           /\ \A r \in receipts : /\ fund[r] = NoFund /\ r \in Receipt
                                  /\ fund'[r] = [NoFund EXCEPT !.amount = c.contribution,
                                                              !.status = "AVAILABLE"]
           /\ \A f \in Source \ receipts : fund'[f] = TrialFund(k, FinancialState)[f]
<1>1. \A r \in receipts : r \in Receipt /\ fund[r].status = "NONE"
  BY DEF Received
<1>2. /\ c.release = Released(k, FinancialState) /\ c.advance = Advanced(k, FinancialState)
  BY Fields
<1>3. /\ \A f \in c.release : fund[f].status # "NONE"
      /\ \A f \in c.advance : fund[f].status # "NONE"
  BY FundsAre
<1>4. c.contribution \in Nat
  BY ContributionNat
<1> DEFINE got == [NoFund EXCEPT !.amount = c.contribution, !.status = "AVAILABLE"]
<1>5. \A f \in Source :
        fund'[f] = IF f \in receipts THEN got
                   ELSE IF f \in c.release
                   THEN [fund[f] EXCEPT !.emergency = FALSE, !.reserve = 0]
                   ELSE IF f \in c.advance THEN [fund[f] EXCEPT !.from = 0]
                   ELSE fund[f]
  BY DEF Funded
<1>6. DOMAIN fund' = Source /\ fund' = [f \in Source |-> fund'[f]]
  BY DEF Funded
<1>7. got \in FundRow /\ got.status = "AVAILABLE"
  <2>1. PICK n \in Nat : n = c.contribution
    BY <1>4
  <2>2. [NoFund EXCEPT !.amount = n, !.status = "AVAILABLE"] \in FundRow
    <3>1. \A r \in FundRow : [r EXCEPT !.amount = n, !.status = "AVAILABLE"] \in FundRow
      BY ONLY <2>1 DEF FundRow, FundStatus
    <3> QED  BY ONLY <3>1, BlankRows
  <2>3. [NoFund EXCEPT !.amount = n, !.status = "AVAILABLE"].status = "AVAILABLE"
    BY ONLY <2>1 DEF NoFund
  <2> QED  BY <2>1, <2>2, <2>3
<1> HIDE DEF got
<1>8. \A f \in Source :
        /\ fund[f] \in FundRow
        /\ [fund[f] EXCEPT !.from = 0] \in FundRow
        /\ [fund[f] EXCEPT !.emergency = FALSE, !.reserve = 0] \in FundRow
        /\ [fund[f] EXCEPT !.from = 0].status = fund[f].status
        /\ [fund[f] EXCEPT !.emergency = FALSE, !.reserve = 0].status = fund[f].status
  <2>1. ASSUME NEW r \in FundRow
        PROVE  /\ [r EXCEPT !.from = 0] \in FundRow
               /\ [r EXCEPT !.emergency = FALSE, !.reserve = 0] \in FundRow
               /\ [r EXCEPT !.from = 0].status = r.status
               /\ [r EXCEPT !.emergency = FALSE, !.reserve = 0].status = r.status
    <3>1. [r EXCEPT !.from = 0] \in FundRow
      BY ONLY <2>1 DEF FundRow
    <3>2. [r EXCEPT !.emergency = FALSE, !.reserve = 0] \in FundRow
      BY ONLY <2>1 DEF FundRow
    <3>3. /\ [r EXCEPT !.from = 0].status = r.status
          /\ [r EXCEPT !.emergency = FALSE, !.reserve = 0].status = r.status
      BY ONLY <2>1 DEF FundRow
    <3> QED  BY ONLY <3>1, <3>2, <3>3
  <2> QED  BY <2>1 DEF Funds
<1>9. Funds'
  <2>1. \A f \in Source : fund'[f] \in FundRow
    BY <1>5, <1>7, <1>8
  <2> QED  BY <2>1, <1>6 DEF Funds
<1>10. \A r \in Receipt : fund'[r].status = "NONE" => fund'[r] = NoFund
  <2> TAKE r \in Receipt
  <2>1. r \in Source
    BY DEF Source
  <2> QED  BY <2>1, <1>3, <1>5, <1>7, <1>8 DEF Blank
<1>11. \A r \in receipts : /\ fund[r] = NoFund /\ r \in Receipt /\ fund'[r] = got
  BY <1>1, <1>5 DEF Blank, Source
<1>12. \A f \in Source \ receipts : fund'[f] = TrialFund(k, FinancialState)[f]
  <2> HIDE DEF Released, Advanced
  <2> QED  BY <1>2, <1>5 DEF TrialFund, FinancialState
<1> QED  BY <1>9, <1>10, <1>11, <1>12 DEF got

\* A row that does not exist stays blank when a rescue is executed.
LEMMA ExecutedBlank ==
    ASSUME Rows, Blank, NEW k, NEW c, c = Candidate(k, FinancialState),
           bill' = Rescheduled(SplitBills(c), c)
    PROVE  \A d \in Debt : bill'[d].status = "NONE" => bill'[d] = NoDebt
<1> DEFINE s == SplitBills(c)
<1>1. c.split = Split(k, FinancialState) /\ c.deadline = Deadlines(k, FinancialState)
  BY Fields
<1>2. DOMAIN c.deadline \subseteq Debt /\ \A d \in DOMAIN c.deadline : bill[d].status = "OPEN"
  BY <1>1, DeadlinesAre
<1>3. DOMAIN c.split \subseteq Bill
  BY <1>1, SplitRowsAre
<1>4. s \in [Debt -> DebtRow] /\ \A b \in Bill : s[b].status = "OPEN"
  BY <1>1, SplitBillsAre
<1>5. \A d \in Debt : s[d] = bill[d] \/ s[d].status = "OPEN"
  <2> TAKE d \in Debt
  <2>1. CASE d \in Bill
    BY <2>1, <1>4
  <2>2. CASE d \notin Bill
    BY <2>2, <1>3 DEF SplitBills, NoDebt
  <2> QED  BY <2>1, <2>2
<1>6. \A d \in DOMAIN c.deadline : c.deadline[d] \in Int
  BY <1>1, DeadlinesAre
<1>7. bill' = Rescheduled(s, c)
  OBVIOUS
<1> HIDE DEF s
<1>8. ASSUME NEW d \in Debt, bill'[d].status = "NONE"
      PROVE  bill'[d] = NoDebt
  <2>1. CASE d \in DOMAIN c.deadline
    <3>1. bill'[d] = [s[d] EXCEPT !.due = c.deadline[d], !.version = @ + 1]
      BY <1>7, <2>1 DEF Rescheduled
    <3>2. s[d] \in DebtRow /\ c.deadline[d] \in Int
      BY <1>4, <1>6, <2>1
    <3>3. bill'[d].status = s[d].status
      BY ONLY <3>1, <3>2, DueIsRow
    <3>4. s[d].status = "OPEN"
      BY <1>2, <1>5, <2>1
    <3> QED  BY <3>3, <3>4, <1>8
  <2>2. CASE d \notin DOMAIN c.deadline
    <3>1. bill'[d] = s[d]
      BY <1>7, <2>2 DEF Rescheduled
    <3>2. s[d] = bill[d]
      BY <3>1, <1>5, <1>8
    <3> QED  BY <3>1, <3>2, <1>8 DEF Blank
  <2> QED  BY <2>1, <2>2
<1> QED  BY <1>8

\* The strengthened invariant holds at first and is kept.
LEMMA InitTInv == Init => TInv
<1> SUFFICES ASSUME Init PROVE TInv
  OBVIOUS
<1>1. \A f \in Source : fund[f] \in FundRow
  BY BlankRows, RescueAssumption DEF Init, Source
<1>2. Funds
  BY <1>1 DEF Init, Funds
<1>3. \A r \in Receipt : fund[r] = NoFund
  BY DEF Init, Source
<1>4. \A d \in Debt : bill[d].status = "NONE" => bill[d] = NoDebt
  BY RescueAssumption DEF Init
<1>5. Agreed
  BY DEF Init, Agreed
<1> QED  BY <1>2, <1>3, <1>4, <1>5, InitIInv DEF TInv, Blank

\* The owner's corrections.
LEMMA OwnerKeepsFunds ==
    ASSUME Rows, Funds, Blank, OwnerNext
    PROVE  Funds' /\ Blank'
<1>1. ASSUME NEW b \in Bill, bill' = [bill EXCEPT ![b] = bill'[b]], fund' = fund
      PROVE  Funds' /\ Blank'
  <2>1. \A d \in Debt : d # b => bill'[d] = bill[d]
    BY <1>1 DEF Rows
  <2>2. bill'[b].status = "OPEN"
    BY OwnerKeepsRows DEF Rows
  <2> QED  BY <1>1, <2>1, <2>2 DEF Funds, Blank
<1>2. ASSUME NEW e \in Edits, PatchObligation(e[1], e[2], e[3])
      PROVE  Funds' /\ Blank'
  <2>1. e[1] \in Bill
    BY RescueAssumption
  <2>2. bill' = [bill EXCEPT ![e[1]] = bill'[e[1]]] /\ fund' = fund
    BY <1>2, <2>1 DEF PatchObligation, Rows, Debt
  <2> QED  BY <2>1, <2>2, <1>1
<1>3. ASSUME NEW b \in Documented, Hold(b) \/ VerifyBeneficiary(b)
      PROVE  Funds' /\ Blank'
  <2>1. b \in Bill
    BY RescueAssumption
  <2>2. bill' = [bill EXCEPT ![b] = bill'[b]] /\ fund' = fund
    BY <1>3, <2>1 DEF Hold, VerifyBeneficiary, Rows, Debt
  <2> QED  BY <2>1, <2>2, <1>1
<1>4. ASSUME NEW e \in Balances, PatchFund(e[1], e[2])
      PROVE  Funds' /\ Blank'
  <2> DEFINE f == e[1]
             amount == e[2]
  <2>1. f \in Source /\ amount \in Nat
    BY RescueAssumption
  <2>2. /\ fund[f].status # "NONE" /\ bill' = bill
        /\ fund' = [fund EXCEPT ![f] = [fund[f] EXCEPT !.amount = amount]]
    BY <1>4, <2>1 DEF PatchFund, Funds
  <2> HIDE DEF f, amount
  <2>3. fund[f] \in FundRow
    BY <2>1 DEF Funds
  <2>4. /\ [fund[f] EXCEPT !.amount = amount] \in FundRow
        /\ [fund[f] EXCEPT !.amount = amount].status = fund[f].status
    BY ONLY <2>1, <2>3 DEF FundRow
  <2>5. Funds'
    BY <2>2, <2>4 DEF Funds
  <2>6. \A g \in Source : g # f => fund'[g] = fund[g]
    BY <2>2 DEF Funds
  <2>7. fund'[f].status # "NONE"
    BY <2>1, <2>2, <2>4 DEF Funds
  <2>8. Receipt \subseteq Source
    BY DEF Source
  <2> QED  BY <2>2, <2>5, <2>6, <2>7, <2>8 DEF Blank
<1> QED  BY <1>2, <1>3, <1>4 DEF OwnerNext

\* Each request keeps it: corrections, plans, candidates, approvals and execute.
LEMMA TInvStep == TInv /\ [Next]_vars => TInv'
<1> SUFFICES ASSUME TInv, [Next]_vars PROVE TInv'
  OBVIOUS
<1>1. IInv'
  BY IInvStep DEF TInv
<1>2. FinancialState \in State
  BY PresentIsState DEF TInv, IInv
<1>3. Rows /\ Funds /\ Blank /\ Agreed
  BY DEF TInv, IInv
<1>4. ASSUME Funds', Blank' PROVE FinancialState' \in State
  BY <1>1, <1>4 DEF IInv, Rows, Funds, FinancialState, State
<1>5. CASE OwnerNext
  <2>1. Funds' /\ Blank'
    BY <1>3, <1>5, OwnerKeepsFunds
  <2>2. actions' = {} /\ (plans' = {} \/ plans' = {FinancialState'})
    BY <1>5 DEF OwnerNext, PatchObligation, PatchFund, Hold, VerifyBeneficiary, Invalidate
  <2>3. Agreed'
    BY <2>1, <2>2, <1>4 DEF Agreed
  <2> QED  BY <1>1, <2>1, <2>3 DEF TInv
<1>6. CASE GeneratePlan
  <2>1. UNCHANGED <<bill, fund, actions>> /\ plans' = plans \cup {FinancialState}
    BY <1>6 DEF GeneratePlan
  <2> QED  BY <1>1, <1>2, <1>3, <2>1 DEF TInv, Funds, Blank, Agreed
<1>7. CASE GenerateRescue
  <2>1. UNCHANGED <<bill, fund, actions>> /\ plans' = plans \cup {FinancialState}
    BY <1>7 DEF GenerateRescue
  <2> QED  BY <1>1, <1>2, <1>3, <2>1 DEF TInv, Funds, Blank, Agreed
<1>8. CASE \E o \in offers : Prepare(o)
  <2>1. PICK o \in offers : Prepare(o)
    BY <1>8
  <2> DEFINE new == [hash |-> FinancialState, c |-> o.c, approvals |-> {}]
  <2>2. /\ UNCHANGED <<bill, fund, plans>> /\ actions' = actions \cup {new}
    BY <2>1 DEF Prepare
  <2>3. new.approvals = {}
    OBVIOUS
  <2> HIDE DEF new
  <2> QED  BY <1>1, <1>3, <2>2, <2>3 DEF TInv, Funds, Blank, Agreed
<1>9. CASE \E a \in actions : \E actor \in Actor : Approve(a, actor)
  <2>1. PICK a \in actions, actor \in Actor : Approve(a, actor)
    BY <1>9
  <2> DEFINE new == [a EXCEPT !.approvals = @ \cup {actor}]
  <2>2. /\ UNCHANGED <<bill, fund, plans>>
        /\ actions' = (actions \ {a}) \cup {new}
        /\ actor \in a.c.required
    BY <2>1 DEF Approve
  <2>3. new.c = a.c /\ new.approvals = a.approvals \cup {actor}
    <3>1. a = [hash |-> a.hash, c |-> a.c, approvals |-> a.approvals]
      BY DEF TInv, IInv, Computed
    <3>2. new = [hash |-> a.hash, c |-> a.c, approvals |-> a.approvals \cup {actor}]
      BY ONLY <3>1
    <3> HIDE DEF new
    <3> QED  BY ONLY <3>2
  <2> HIDE DEF new
  <2>4. new.approvals \subseteq new.c.required
    BY <1>3, <2>2, <2>3 DEF Agreed
  <2> QED  BY <1>1, <1>3, <2>2, <2>4 DEF TInv, Funds, Blank, Agreed
<1>10. CASE \E a \in actions : Execute(a)
  <2>1. PICK a \in actions : Execute(a)
    BY <1>10
  <2>2. PICK k \in Kind : a.c = Candidate(k, FinancialState)
    BY ExecutesACandidate DEF TInv
  <2>3. PICK receipts \in Received(a.c) : fund' = Funded(a.c, receipts)
    BY <2>1 DEF Execute
  <2>4. /\ bill' = Rescheduled(SplitBills(a.c), a.c)
        /\ actions' = {} /\ plans' = {FinancialState'}
    BY <2>1 DEF Execute
  <2>5. /\ Funds' /\ \A r \in Receipt : fund'[r].status = "NONE" => fund'[r] = NoFund
    BY <1>3, <2>2, <2>3, ExecutedFund
  <2>6. \A d \in Debt : bill'[d].status = "NONE" => bill'[d] = NoDebt
    BY <1>3, <2>2, <2>4, ExecutedBlank
  <2>7. Blank'
    BY <2>5, <2>6 DEF Blank
  <2>8. Agreed'
    BY <1>4, <2>4, <2>5, <2>7 DEF Agreed
  <2> QED  BY <1>1, <2>5, <2>7, <2>8 DEF TInv
<1>11. CASE UNCHANGED vars
  BY <1>1, <1>3, <1>11 DEF vars, TInv, Funds, Blank, Agreed
<1> QED  BY <1>5, <1>6, <1>7, <1>8, <1>9, <1>10, <1>11 DEF Next, RescueNext

\* It therefore always holds.
LEMMA TypedInvariance == Spec => []TInv
BY InitTInv, TInvStep, PTL DEF Spec

\* Every row, and every row of a plan, is one the schema admits; approvals are those
\* of actors who must agree.
THEOREM RowsAreTyped == Spec => []TypeOK
<1>1. TInv => TypeOK
  <2> SUFFICES ASSUME TInv PROVE TypeOK
    OBVIOUS
  <2>1. FinancialState \in State
    BY PresentIsState DEF TInv, IInv
  <2>2. /\ \A a \in actions : a.hash = FinancialState
        /\ \A o \in offers : o.plan = FinancialState
    BY DEF TInv, IInv, OffersKnowTheState
  <2> QED  BY <2>1, <2>2 DEF TInv, Agreed, TypeOK
<1> QED  BY TypedInvariance, <1>1, PTL

\* What is newly offered was computed from the present state.
LEMMA OfferedNow ==
    ASSUME TInv, [Next]_vars, NEW o \in offers' \ offers
    PROVE  /\ o.plan = FinancialState
           /\ \E k \in Kind : o.c = Candidate(k, FinancialState)
<1>1. GenerateRescue
  BY DEF Next, OwnerNext, PatchObligation, PatchFund, Hold, VerifyBeneficiary, Invalidate,
         RescueNext, GeneratePlan, Prepare, Execute, Approve, vars
<1> DEFINE new == {[plan |-> FinancialState, c |-> Candidate(k, FinancialState)] :
                      k \in {x \in Kind : Applies(x, FinancialState)}}
<1>2. offers' = offers \cup new
  BY <1>1 DEF GenerateRescue
<1> HIDE DEF FinancialState, Candidate, Applies
<1> QED  BY <1>2

\* planner: the family is asked for the least amount, to the unit, with which the
\* change covers every critical commitment, and for nothing when none would.
THEOREM TheLeastIsAsked == Spec => ContributionIsLeast
<1>1. ASSUME TInv, [Next]_vars, NEW o \in offers' \ offers
      PROVE  LET trial == Trial(o.c.kind, o.plan)
             IN  /\ \A n \in 0..(IF o.c.feasible THEN o.c.contribution - 1
                                 ELSE High(trial)) : ~Feasible(trial, n)
                 /\ IF o.c.feasible THEN Feasible(trial, o.c.contribution)
                    ELSE o.c.contribution = 0
  <2>1. PICK k \in Kind : o.c = Candidate(k, FinancialState)
    BY <1>1, OfferedNow
  <2>2. o.plan = FinancialState
    BY <1>1, OfferedNow
  <2> DEFINE trial == Trial(k, FinancialState)
  <2>3. trial \in State
    BY <1>1, TrialIsState DEF TInv, IInv
  <2>4. o.c.contribution = Contribution(trial)
    BY <1>1, <2>1, ContributionNat DEF TInv, IInv
  <2>5. o.c.feasible = Feasible(trial, o.c.contribution)
    BY <2>1, Fields
  <2>6. o.c.kind = k
    <3> HIDE DEF Split, Deadlines, Released, Advanced, RequiredActors, Feasible, Trial,
                 Contribution, FinancialState
    <3> QED  BY <2>1 DEF Candidate
  <2> HIDE DEF trial
  <2>7. IF Feasible(trial, Contribution(trial))
        THEN \A n \in 0..(Contribution(trial) - 1) : ~Feasible(trial, n)
        ELSE Contribution(trial) = 0 /\ \A n \in 0..High(trial) : ~Feasible(trial, n)
    BY <2>3, ContributionIs
  <2>8. Trial(o.c.kind, o.plan) = trial
    BY <2>2, <2>6 DEF trial
  <2> HIDE DEF Feasible, Contribution, High, Trial
  <2> QED  BY <2>4, <2>5, <2>7, <2>8
<1>2. TInv /\ [Next]_vars =>
        [\A o \in offers' \ offers :
          LET trial == Trial(o.c.kind, o.plan)
          IN  /\ \A n \in 0..(IF o.c.feasible THEN o.c.contribution - 1 ELSE High(trial)) :
                    ~Feasible(trial, n)
              /\ IF o.c.feasible THEN Feasible(trial, o.c.contribution)
                 ELSE o.c.contribution = 0]_vars
  BY <1>1
<1> QED  BY TypedInvariance, <1>2, PTL DEF Spec, ContributionIsLeast

-----------------------------------------------------------------------------
(* What execute does to the ledger covers what the trial covered *)

\* What coverage knows of a commitment; hold may only be lifted.
SameDebt(r, t) ==
    /\ r.amount = t.amount /\ r.due = t.due
    /\ r.priority = t.priority /\ r.status = t.status
    /\ r.hold => t.hold

\* The rows of execute are those of the trial.
LEMMA ExecutedAsTried ==
    ASSUME Rows, Funds, NEW k, NEW c, c = Candidate(k, FinancialState),
           bill' = Rescheduled(SplitBills(c), c)
    PROVE  \A d \in Debt : SameDebt(bill'[d], TrialBill(k, FinancialState)[d])
<1> DEFINE split == Split(k, FinancialState)
           deadline == Deadlines(k, FinancialState)
           s == SplitBills(c)
           t == TrialBill(k, FinancialState)
           Piece(b, i) == [bill[b] EXCEPT !.amount = split[b].amounts[i],
                                          !.due = split[b].dates[i], !.option = None]
<1>1. c.split = split /\ c.deadline = deadline
  BY Fields
<1>2. \A d \in Debt : bill[d] \in DebtRow
  BY DEF Rows
<1>3. DOMAIN deadline \subseteq Debt /\ \A d \in DOMAIN deadline : deadline[d] \in Int
  BY DeadlinesAre
<1>4. /\ DOMAIN split \subseteq Bill
      /\ \A b \in DOMAIN split :
            /\ split[b] \in Option /\ bill[b].status = "OPEN" /\ bill[b].priority = "CRITICAL"
            /\ k = "USE_INSTALLMENT_OPTION"
  BY SplitRowsAre, RescueAssumption DEF Rows
<1>5. k = "USE_INSTALLMENT_OPTION" => DOMAIN deadline = {}
  <2>1. k = "USE_INSTALLMENT_OPTION" => deadline = <<>>
    BY DEF Deadlines
  <2> QED  BY <2>1
<1>6. s \in [Debt -> DebtRow]
  BY <1>1, SplitBillsAre
<1> HIDE DEF split, deadline
<1>7. \A d \in Debt :
        t[d] = IF d \in DOMAIN deadline THEN [bill[d] EXCEPT !.due = deadline[d]]
               ELSE IF d \in DOMAIN split THEN Piece(d, 1)
               ELSE IF d \in (DOMAIN split) \X {"part2"} THEN Piece(d[1], 2)
               ELSE IF d \in (DOMAIN split) \X {"fee"} /\ split[d[1]].fee > 0
               THEN [Piece(d[1], 1) EXCEPT !.amount = split[d[1]].fee]
               ELSE bill[d]
  BY DEF TrialBill, FinancialState, split, deadline
<1>8. \A d \in Debt :
        s[d] = IF d \in DOMAIN split
        THEN [bill[d] EXCEPT !.amount = split[d].amounts[1], !.due = split[d].dates[1],
                             !.option = None, !.version = @ + 1]
        ELSE IF d \in (DOMAIN split) \X {"part2"}
        THEN [NoDebt EXCEPT !.amount = split[d[1]].amounts[2],
                            !.due = split[d[1]].dates[2], !.status = "OPEN",
                            !.priority = bill[d[1]].priority, !.version = 1]
        ELSE IF d \in (DOMAIN split) \X {"fee"} /\ split[d[1]].fee > 0
        THEN [NoDebt EXCEPT !.amount = split[d[1]].fee, !.due = split[d[1]].dates[1],
                            !.status = "OPEN", !.priority = "CRITICAL", !.version = 1]
        ELSE bill[d]
  BY <1>1 DEF SplitBills
<1>9. \A d \in Debt : bill'[d] = IF d \in DOMAIN deadline
                                 THEN [s[d] EXCEPT !.due = deadline[d], !.version = @ + 1]
                                 ELSE s[d]
  BY <1>1 DEF Rescheduled
<1> HIDE DEF s, t
<1> DEFINE First(r, x, y) == [r EXCEPT !.amount = x, !.due = y, !.option = None,
                                        !.version = @ + 1]
           Tried(r, x, y) == [r EXCEPT !.amount = x, !.due = y, !.option = None]
           Added(p, x, y) == [NoDebt EXCEPT !.amount = x, !.due = y, !.status = "OPEN",
                                            !.priority = p, !.version = 1]
<1>10. ASSUME NEW r \in DebtRow, NEW y \in Int
       PROVE  SameDebt([r EXCEPT !.due = y, !.version = @ + 1], [r EXCEPT !.due = y])
  <2>1. r.version + 1 \in Nat
    BY ONLY <1>10 DEF DebtRow
  <2>2. \A z \in Nat : SameDebt([r EXCEPT !.due = y, !.version = z], [r EXCEPT !.due = y])
    BY ONLY <1>10 DEF DebtRow, SameDebt
  <2> QED  BY ONLY <2>1, <2>2
<1>11. ASSUME NEW r \in DebtRow, NEW x \in Nat, NEW y \in Int
       PROVE  SameDebt(First(r, x, y), Tried(r, x, y))
  <2>1. r.version + 1 \in Nat
    BY ONLY <1>11 DEF DebtRow
  <2>2. \A z \in Nat :
           SameDebt([r EXCEPT !.amount = x, !.due = y, !.option = None, !.version = z],
                    [r EXCEPT !.amount = x, !.due = y, !.option = None])
    BY ONLY <1>11 DEF DebtRow, SameDebt
  <2> QED  BY ONLY <2>1, <2>2
<1>12. ASSUME NEW r \in DebtRow, r.status = "OPEN", NEW x \in Nat, NEW y \in Int
       PROVE  SameDebt(Added(r.priority, x, y), Tried(r, x, y))
  BY ONLY <1>12 DEF DebtRow, NoDebt, SameDebt
<1>13. ASSUME NEW d \in Debt PROVE SameDebt(bill'[d], t[d])
  <2>1. CASE d \in DOMAIN deadline
    <3>1. d \notin DOMAIN split /\ d \notin (DOMAIN split) \X {"part2"}
          /\ d \notin (DOMAIN split) \X {"fee"}
      BY <1>4, <1>5, <2>1
    <3>2. s[d] = bill[d]
      BY <3>1, <1>8
    <3>3. /\ bill'[d] = [bill[d] EXCEPT !.due = deadline[d], !.version = @ + 1]
          /\ t[d] = [bill[d] EXCEPT !.due = deadline[d]]
      BY <3>2, <1>7, <1>9, <2>1
    <3>4. bill[d] \in DebtRow /\ deadline[d] \in Int
      BY <1>2, <1>3, <2>1
    <3> QED  BY ONLY <3>3, <3>4, <1>10
  <2>2. CASE d \notin DOMAIN deadline
    <3>1. bill'[d] = s[d]
      BY <2>2, <1>9
    <3>2. CASE d \in DOMAIN split
      <4>1. /\ s[d] = First(bill[d], split[d].amounts[1], split[d].dates[1])
            /\ t[d] = Tried(bill[d], split[d].amounts[1], split[d].dates[1])
        BY <2>2, <3>2, <1>7, <1>8
      <4>2. /\ bill[d] \in DebtRow /\ split[d].amounts[1] \in Nat
            /\ split[d].dates[1] \in Int
        BY <1>2, <1>4, <3>2 DEF Option
      <4> HIDE DEF First, Tried
      <4> QED  BY ONLY <3>1, <4>1, <4>2, <1>11
    <3>3. CASE d \notin DOMAIN split /\ d \in (DOMAIN split) \X {"part2"}
      <4>1. d[1] \in DOMAIN split
        BY <3>3
      <4>2. /\ s[d] = Added(bill[d[1]].priority, split[d[1]].amounts[2],
                             split[d[1]].dates[2])
            /\ t[d] = Tried(bill[d[1]], split[d[1]].amounts[2], split[d[1]].dates[2])
        BY <2>2, <3>3, <1>7, <1>8
      <4>3. /\ bill[d[1]] \in DebtRow /\ split[d[1]].amounts[2] \in Nat
            /\ split[d[1]].dates[2] \in Int /\ bill[d[1]].status = "OPEN"
        BY <4>1, <1>2, <1>4 DEF Option, Debt
      <4> HIDE DEF Added, Tried
      <4> QED  BY ONLY <3>1, <4>2, <4>3, <1>12
    <3>4. CASE /\ d \notin DOMAIN split /\ d \notin (DOMAIN split) \X {"part2"}
               /\ d \in (DOMAIN split) \X {"fee"} /\ split[d[1]].fee > 0
      <4>1. d[1] \in DOMAIN split
        BY <3>4
      <4>2. /\ bill[d[1]] \in DebtRow /\ split[d[1]].amounts[1] \in Nat
            /\ split[d[1]].fee \in Nat
            /\ split[d[1]].dates[1] \in Int /\ bill[d[1]].status = "OPEN"
            /\ bill[d[1]].priority = "CRITICAL"
        BY <4>1, <1>2, <1>4 DEF Option, Debt
      <4>3. /\ s[d] = Added(bill[d[1]].priority, split[d[1]].fee, split[d[1]].dates[1])
            /\ t[d] = [Piece(d[1], 1) EXCEPT !.amount = split[d[1]].fee]
        BY <2>2, <3>4, <4>2, <1>7, <1>8
      <4>4. \A r \in DebtRow : \A x, z \in Nat : \A y \in Int :
               [[r EXCEPT !.amount = x, !.due = y, !.option = None] EXCEPT !.amount = z]
                 = [r EXCEPT !.amount = z, !.due = y, !.option = None]
        BY ONLY DEF DebtRow
      <4>5. t[d] = Tried(bill[d[1]], split[d[1]].fee, split[d[1]].dates[1])
        BY ONLY <4>2, <4>3, <4>4
      <4> HIDE DEF Added, Tried
      <4> QED  BY ONLY <3>1, <4>2, <4>3, <4>5, <1>12
    <3>5. CASE /\ d \notin DOMAIN split /\ d \notin (DOMAIN split) \X {"part2"}
               /\ ~(d \in (DOMAIN split) \X {"fee"} /\ split[d[1]].fee > 0)
      <4>1. s[d] = bill[d] /\ t[d] = bill[d]
        BY <2>2, <3>5, <1>7, <1>8
      <4> QED  BY <3>1, <4>1 DEF SameDebt
    <3> QED  BY <3>2, <3>3, <3>4, <3>5
  <2> QED  BY <2>1, <2>2
<1> QED  BY <1>13 DEF t

\* The sources of s are those of t with n received in the rows R.
Brings(s, t, n, R) ==
    /\ IF n = 0 THEN R = {} ELSE \E r \in Source : R = {r}
    /\ \A r \in R : /\ t.fund[r] = NoFund
                    /\ s.fund[r] = [NoFund EXCEPT !.amount = n, !.status = "AVAILABLE"]
    /\ \A f \in Source \ R : s.fund[f] = t.fund[f]

\* What has arrived by a day grows by the contribution, which is there today.
LEMMA ReceivedIsThere ==
    ASSUME NEW s \in State, NEW t \in State, NEW n \in Nat, NEW R \in SUBSET Source,
           Brings(s, t, n, R),
           NEW day \in Int
    PROVE  FundedBy(s, day) = FundedBy(t, day) + IF day >= 0 THEN n ELSE 0
<1> DEFINE v == [f \in Source |-> Capacity(s.fund[f])]
           w == [f \in Source |-> Capacity(t.fund[f])]
<1>1. \A r \in R : s.fund[r].from = 0 /\ t.fund[r].from = 0
  <2>1. PICK got : got = [NoFund EXCEPT !.amount = n, !.status = "AVAILABLE"]
    OBVIOUS
  <2>2. got.from = 0 /\ NoFund.from = 0
    BY ONLY <2>1 DEF NoFund
  <2> QED  BY <2>1, <2>2 DEF Brings
<1>2. ThereBy(s, day) = ThereBy(t, day)
  BY <1>1 DEF ThereBy, Brings
<1>3. PICK there : there = ThereBy(t, day)
  OBVIOUS
<1>4. there \in SUBSET Source /\ IsFiniteSet(there)
  BY <1>3, FinitelyMany, FS_Subset DEF ThereBy
<1>5. \A f \in there : v[f] \in Nat /\ w[f] \in Nat
  BY <1>4, StateRows, CapacityNat
<1>6. \A f \in there \ R : v[f] = w[f]
  BY <1>4 DEF Brings
<1>7. \A r \in R : v[r] = n /\ w[r] = 0
  <2> TAKE r \in R
  <2>1. PICK got : got = [NoFund EXCEPT !.amount = n, !.status = "AVAILABLE"]
    OBVIOUS
  <2>2. /\ got.status = "AVAILABLE" /\ got.emergency = FALSE
        /\ got.amount = n /\ got.reserve = 0
    BY ONLY <2>1 DEF NoFund
  <2>3. Capacity(got) = n
    <3>1. n > 0 \/ n = 0
      OBVIOUS
    <3> QED  BY ONLY <2>2, <3>1, n \in Nat DEF Capacity
  <2>4. Capacity(NoFund) = 0
    BY DEF Capacity, NoFund
  <2> QED  BY <2>1, <2>3, <2>4 DEF Brings
<1>8. FundedBy(s, day) = SumFunctionOnSet(v, there)
      /\ FundedBy(t, day) = SumFunctionOnSet(w, there)
  BY <1>2, <1>3 DEF FundedBy
<1>9. \A r \in R : r \in there <=> day >= 0
  <2> TAKE r \in R
  <2>1. Max({0, t.fund[r].from}) = 0
    <3>1. {0, t.fund[r].from} = {0}
      BY <1>1
    <3>2. \A x \in {0} : x = 0
      OBVIOUS
    <3>3. 0 \in {0} /\ \A x \in {0} : 0 >= x
      OBVIOUS
    <3> QED  BY <3>1, <3>2, <3>3 DEF Max
  <2> QED  BY <2>1, <1>3 DEF ThereBy
<1> HIDE DEF v, w
<1>10. CASE n = 0 \/ ~(day >= 0)
  <2>1. \A f \in there : v[f] = w[f]
    BY <1>6, <1>7, <1>9, <1>10 DEF Brings
  <2>2. SumFunctionOnSet(v, there) = SumFunctionOnSet(w, there)
    BY <1>4, <2>1, SumOfSame
  <2>3. SumFunctionOnSet(w, there) \in Nat
    BY <1>4, <1>5, SumNat
  <2> QED  BY <2>2, <2>3, <1>8, <1>10
<1>11. CASE n # 0 /\ day >= 0
  <2>1. PICK r \in Source : R = {r}
    BY <1>11 DEF Brings
  <2>2. r \in there /\ v[r] = n /\ w[r] = 0
    BY <2>1, <1>7, <1>9, <1>11
  <2>3. \A f \in there : v[f] \in Int /\ w[f] \in Int /\ (f # r => v[f] = w[f])
    BY <1>5, <1>6, <2>1
  <2>4. SumFunctionOnSet(v, there) = SumFunctionOnSet(w, there) - w[r] + v[r]
    BY <1>4, <2>2, <2>3, SumAfterChange
  <2>5. SumFunctionOnSet(w, there) \in Nat
    BY <1>4, <1>5, SumNat
  <2> QED  BY <2>2, <2>4, <2>5, <1>8, <1>11
<1> QED  BY <1>10, <1>11

\* A state whose commitments are those of a trial and whose sources are the trial's
\* with the contribution received covers what the trial covers with it.
LEMMA CoversAsTried ==
    ASSUME NEW s \in State, NEW t \in State, NEW n \in Nat, NEW R \in SUBSET Source,
           Brings(s, t, n, R),
           \A d \in Debt : SameDebt(s.bill[d], t.bill[d]),
           Feasible(t, n)
    PROVE  Feasible(s, 0)
<1>1. Critical(s) = Critical(t)
  BY DEF Critical, SameDebt
<1> SUFFICES ASSUME NEW d \in Critical(s)
             PROVE  ~s.bill[d].hold /\ Fits(s, 0, s.bill[d].due)
  BY DEF Feasible
<1>2. d \in Debt /\ d \in Critical(t)
  BY <1>1 DEF Critical
<1>3. PICK day \in Int : day = s.bill[d].due /\ day = t.bill[d].due
  BY <1>2, StateRows DEF DebtRow, SameDebt
<1>4. ~s.bill[d].hold /\ Fits(t, n, day)
  BY <1>2, <1>3 DEF Feasible, SameDebt
<1>5. FundedBy(s, day) = FundedBy(t, day) + IF day >= 0 THEN n ELSE 0
  BY ReceivedIsThere
<1>6. OwedBy(s, day) = OwedBy(t, day)
  <2> DEFINE v == [e \in Debt |-> s.bill[e].amount]
             w == [e \in Debt |-> t.bill[e].amount]
  <2>1. DueBy(s, day) = DueBy(t, day)
    BY <1>1 DEF DueBy, Critical, SameDebt
  <2>2. PICK due : due = DueBy(t, day)
    OBVIOUS
  <2>3. due \in SUBSET Debt /\ IsFiniteSet(due)
    BY <2>2, FinitelyMany, FS_Subset DEF DueBy, Critical
  <2>4. \A e \in due : v[e] = w[e]
    BY <2>3 DEF SameDebt
  <2>5. OwedBy(s, day) = SumFunctionOnSet(v, due) /\ OwedBy(t, day) = SumFunctionOnSet(w, due)
    BY <2>1, <2>2 DEF OwedBy
  <2> HIDE DEF v, w
  <2> QED  BY <2>3, <2>4, <2>5, SumOfSame
<1>7. ThereBy(t, day) \in SUBSET Source /\ DueBy(t, day) \in SUBSET Debt
  BY DEF ThereBy, DueBy, Critical
<1>8. FundedBy(t, day) \in Nat /\ OwedBy(t, day) \in Nat
  BY <1>7, OwedNat, FundedNat DEF OwedBy, FundedBy
<1>9. OwedBy(t, day) <= FundedBy(t, day) + IF day >= 0 THEN n ELSE 0
  BY <1>4, FitsIs
<1>10. OwedBy(s, day) <= FundedBy(s, day) + IF day >= 0 THEN 0 ELSE 0
  BY <1>5, <1>6, <1>8, <1>9
<1> QED  BY <1>3, <1>4, <1>10, FitsIs

\* README, "The new plan covers the critical commitments within the 45-day horizon":
\* what execute does to the ledger covers them as the trial of the planner did.
THEOREM WhatIsExecutedCovers == Spec => RepairCovers
<1>1. ASSUME TInv, TInv', NEW a \in actions, Execute(a)
      PROVE  Feasible(FinancialState', 0)
  <2>1. Rows /\ Funds /\ Blank
    BY <1>1 DEF TInv, IInv
  <2>2. PICK k \in Kind : a.c = Candidate(k, FinancialState)
    BY <1>1, ExecutesACandidate DEF TInv
  <2>3. PICK receipts \in Received(a.c) : fund' = Funded(a.c, receipts)
    BY <1>1 DEF Execute
  <2>4. bill' = Rescheduled(SplitBills(a.c), a.c)
    BY <1>1 DEF Execute
  <2>5. PICK n \in Nat : n = a.c.contribution
    BY <2>1, <2>2, ContributionNat
  <2>6. PICK t : t = Trial(k, FinancialState)
    OBVIOUS
  <2>7. t \in State /\ t.bill = TrialBill(k, FinancialState)
        /\ t.fund = TrialFund(k, FinancialState)
    <3> HIDE DEF TrialBill, TrialFund
    <3> QED  BY <2>1, <2>6, TrialIsState DEF Trial
  <2>8. Feasible(t, n)
    <3>1. a.c.feasible
      BY <1>1, ExecutesACandidate DEF TInv
    <3>2. a.c.feasible = Feasible(Trial(k, FinancialState), a.c.contribution)
      BY <2>2, Fields
    <3> QED  BY <3>1, <3>2, <2>5, <2>6
  <2>9. PICK s : s = FinancialState'
    OBVIOUS
  <2>10. s \in State /\ s.bill = bill' /\ s.fund = fund'
    BY <1>1, <2>9 DEF TInv, IInv, Rows, Funds, FinancialState, State
  <2>11. \A d \in Debt : SameDebt(s.bill[d], t.bill[d])
    BY <2>1, <2>2, <2>4, <2>7, <2>10, ExecutedAsTried
  <2>12. /\ \A r \in receipts :
               /\ fund[r] = NoFund /\ r \in Receipt
               /\ fund'[r] = [NoFund EXCEPT !.amount = a.c.contribution,
                                            !.status = "AVAILABLE"]
         /\ \A f \in Source \ receipts : fund'[f] = TrialFund(k, FinancialState)[f]
    <3> HIDE DEF TrialFund
    <3> QED  BY <2>1, <2>2, <2>3, ExecutedFund
  <2>13. \A r \in receipts : t.fund[r] = NoFund
    <3>1. \A f \in a.c.release \cup a.c.advance : fund[f].status # "NONE"
      BY <2>2, FundsAre
    <3>2. a.c.release = Released(k, FinancialState) /\ a.c.advance = Advanced(k, FinancialState)
      BY <2>2, Fields
    <3>3. \A r \in receipts : fund[r].status = "NONE"
      BY <2>12 DEF NoFund
    <3>4. \A r \in receipts : r \in Source /\ r \notin a.c.release /\ r \notin a.c.advance
      BY <2>12, <3>1, <3>3 DEF Source
    <3> HIDE DEF Released, Advanced
    <3>5. \A r \in receipts : TrialFund(k, FinancialState)[r] = fund[r]
      BY <3>2, <3>4 DEF TrialFund, FinancialState
    <3> QED  BY <2>7, <2>12, <3>5
  <2>14. receipts \in SUBSET Source /\ Brings(s, t, n, receipts)
    <3>1. receipts \in SUBSET Source /\ IF n = 0 THEN receipts = {}
                                        ELSE \E r \in Source : receipts = {r}
      BY <2>5 DEF Received, Source
    <3> HIDE DEF TrialFund
    <3> QED  BY <2>5, <2>7, <2>10, <2>12, <2>13, <3>1 DEF Brings
  <2>15. Feasible(s, 0)
    BY <2>7, <2>8, <2>10, <2>11, <2>14, CoversAsTried
  <2> QED  BY <2>9, <2>15
<1>2. TInv /\ TInv' /\ [Next]_vars =>
        [\A a \in actions : Execute(a) => Feasible(FinancialState', 0)]_vars
  BY <1>1
<1> QED  BY TypedInvariance, <1>2, PTL DEF Spec, RepairCovers

-----------------------------------------------------------------------------
(* What is owed *)

\* The parts of an installment option make up the commitment, and the owner does not
\* correct the amount of a commitment that has one.
OptionsAreWhole ==
    /\ \A b \in Bill : SeedBill[b].option # None =>
          SeedBill[b].option.amounts[1] + SeedBill[b].option.amounts[2] = SeedBill[b].amount
    /\ \A e \in Edits : e[2] = "amount" => SeedBill[e[1]].option = None

\* A commitment that may still be split owes what its option was made for.
Unsplit == \A b \in Bill : bill[b].option # None => bill[b].amount = SeedBill[b].amount

\* The amounts that execute leaves.
LEMMA ExecutedAmounts ==
    ASSUME Rows, Funds, NEW k, NEW c, c = Candidate(k, FinancialState),
           bill' = Rescheduled(SplitBills(c), c)
    PROVE  /\ \A d \in Debt :
                 /\ d \notin DOMAIN c.split
                 /\ d \notin (DOMAIN c.split) \X {"part2"}
                 /\ d \notin (DOMAIN c.split) \X {"fee"}
                 => bill'[d].amount = bill[d].amount
           /\ \A b \in DOMAIN c.split :
                 /\ bill'[b].amount = bill[b].option.amounts[1]
                 /\ bill'[<<b, "part2">>].amount = bill[b].option.amounts[2]
                 /\ bill'[<<b, "fee">>].amount = IF bill[b].option.fee > 0
                                                 THEN bill[b].option.fee
                                                 ELSE bill[<<b, "fee">>].amount
<1> DEFINE split == Split(k, FinancialState)
           deadline == Deadlines(k, FinancialState)
           t == TrialBill(k, FinancialState)
           Piece(b, i) == [bill[b] EXCEPT !.amount = split[b].amounts[i],
                                          !.due = split[b].dates[i], !.option = None]
<1>1. c.split = split
  BY Fields
<1>2. \A d \in Debt : bill[d] \in DebtRow
  BY DEF Rows
<1>3. DOMAIN deadline \subseteq Debt /\ \A d \in DOMAIN deadline : deadline[d] \in Int
  BY DeadlinesAre
<1>4. /\ DOMAIN split \subseteq Bill
      /\ \A b \in DOMAIN split :
            split[b] \in Option /\ split[b] = bill[b].option /\ k = "USE_INSTALLMENT_OPTION"
  BY SplitRowsAre
<1>5. k = "USE_INSTALLMENT_OPTION" => DOMAIN deadline = {}
  <2>1. k = "USE_INSTALLMENT_OPTION" => deadline = <<>>
    BY DEF Deadlines
  <2> QED  BY <2>1
<1>6. \A d \in Debt : bill'[d].amount = t[d].amount
  BY ExecutedAsTried DEF SameDebt
<1> HIDE DEF split, deadline
<1>7. \A d \in Debt :
        t[d] = IF d \in DOMAIN deadline THEN [bill[d] EXCEPT !.due = deadline[d]]
               ELSE IF d \in DOMAIN split THEN Piece(d, 1)
               ELSE IF d \in (DOMAIN split) \X {"part2"} THEN Piece(d[1], 2)
               ELSE IF d \in (DOMAIN split) \X {"fee"} /\ split[d[1]].fee > 0
               THEN [Piece(d[1], 1) EXCEPT !.amount = split[d[1]].fee]
               ELSE bill[d]
  BY DEF TrialBill, FinancialState, split, deadline
<1> HIDE DEF t
<1>8. \A r \in DebtRow : \A y \in Int : [r EXCEPT !.due = y].amount = r.amount
  BY ONLY DEF DebtRow
<1>9. ASSUME NEW r \in DebtRow, NEW x \in Nat, NEW y \in Int, NEW z \in Nat
      PROVE  /\ [r EXCEPT !.amount = x, !.due = y, !.option = None].amount = x
             /\ [[r EXCEPT !.amount = x, !.due = y, !.option = None]
                    EXCEPT !.amount = z].amount = z
  BY ONLY <1>9 DEF DebtRow
<1>10. ASSUME NEW d \in Debt, d \notin DOMAIN split, d \notin (DOMAIN split) \X {"part2"},
              d \notin (DOMAIN split) \X {"fee"}
       PROVE  bill'[d].amount = bill[d].amount
  <2>1. /\ d \notin DOMAIN split /\ d \notin (DOMAIN split) \X {"part2"}
        /\ d \notin (DOMAIN split) \X {"fee"} /\ d \in Debt
    BY <1>10
  <2>2. CASE d \in DOMAIN deadline
    <3>1. t[d] = [bill[d] EXCEPT !.due = deadline[d]]
      BY <1>7, <2>1, <2>2
    <3>2. t[d].amount = bill[d].amount
      BY ONLY <3>1, <1>8, <1>2, <1>3, <2>1, <2>2
    <3> QED  BY <3>2, <1>6, <2>1
  <2>3. CASE d \notin DOMAIN deadline
    <3>1. t[d] = bill[d]
      BY <1>7, <2>1, <2>3
    <3> QED  BY <3>1, <1>6, <2>1
  <2> QED  BY <2>2, <2>3
<1>11. ASSUME NEW b \in DOMAIN split
       PROVE  /\ bill'[b].amount = split[b].amounts[1]
              /\ bill'[<<b, "part2">>].amount = split[b].amounts[2]
              /\ bill'[<<b, "fee">>].amount = IF split[b].fee > 0 THEN split[b].fee
                                              ELSE bill[<<b, "fee">>].amount
  <2>1. /\ b \in Bill /\ b \in Debt
        /\ <<b, "part2">> \in Debt /\ <<b, "part2">> \notin Bill
        /\ <<b, "fee">> \in Debt /\ <<b, "fee">> \notin Bill
    BY <1>4, RescueAssumption DEF Debt
  <2>2. DOMAIN deadline = {}
    BY <1>4, <1>5
  <2>3. /\ bill[b] \in DebtRow
        /\ split[b].amounts[1] \in Nat /\ split[b].amounts[2] \in Nat
        /\ split[b].dates[1] \in Int /\ split[b].dates[2] \in Int /\ split[b].fee \in Nat
    BY <1>2, <1>4, <2>1 DEF Option
  <2>4. t[b] = Piece(b, 1)
    BY <1>7, <2>1, <2>2
  <2>5. t[<<b, "part2">>] = Piece(b, 2)
    <3>1. <<b, "part2">> \in (DOMAIN split) \X {"part2"} /\ <<b, "part2">> \notin DOMAIN split
          /\ <<b, "part2">>[1] = b
      BY <1>4, <2>1
    <3> HIDE DEF Piece
    <3> QED  BY <1>7, <2>1, <2>2, <3>1
  <2>6. t[<<b, "fee">>] = IF split[b].fee > 0
                          THEN [Piece(b, 1) EXCEPT !.amount = split[b].fee]
                          ELSE bill[<<b, "fee">>]
    <3>1. <<b, "fee">> \in (DOMAIN split) \X {"fee"} /\ <<b, "fee">> \notin DOMAIN split
          /\ <<b, "fee">>[1] = b /\ <<b, "fee">> \notin (DOMAIN split) \X {"part2"}
      BY <1>4, <2>1
    <3> HIDE DEF Piece
    <3> QED  BY <1>7, <2>1, <2>2, <3>1
  <2>7. /\ Piece(b, 1).amount = split[b].amounts[1]
        /\ Piece(b, 2).amount = split[b].amounts[2]
        /\ [Piece(b, 1) EXCEPT !.amount = split[b].fee].amount = split[b].fee
    BY ONLY <2>3, <1>9
  <2> HIDE DEF Piece
  <2> QED  BY <1>6, <2>1, <2>4, <2>5, <2>6, <2>7
<1>12. \A b \in DOMAIN split : split[b] = bill[b].option
  BY <1>4
<1>13. \A d \in Debt :
         /\ d \notin DOMAIN split
         /\ d \notin (DOMAIN split) \X {"part2"}
         /\ d \notin (DOMAIN split) \X {"fee"}
         => bill'[d].amount = bill[d].amount
  BY <1>10
<1> HIDE DEF Piece
<1>14. \A b \in DOMAIN split :
         /\ bill'[b].amount = bill[b].option.amounts[1]
         /\ bill'[<<b, "part2">>].amount = bill[b].option.amounts[2]
         /\ bill'[<<b, "fee">>].amount = IF bill[b].option.fee > 0 THEN bill[b].option.fee
                                         ELSE bill[<<b, "fee">>].amount
  BY ONLY <1>11, <1>12
<1> QED  BY ONLY <1>1, <1>13, <1>14

\* The options of rows after execute.
LEMMA ExecutedOptions ==
    ASSUME Rows, NEW k, NEW c, c = Candidate(k, FinancialState),
           bill' = Rescheduled(SplitBills(c), c)
    PROVE  \A b \in Bill : bill'[b].option = IF b \in DOMAIN c.split THEN None
                                             ELSE bill[b].option
<1> DEFINE s == SplitBills(c)
<1>1. c.split = Split(k, FinancialState) /\ c.deadline = Deadlines(k, FinancialState)
  BY Fields
<1>2. \A d \in DOMAIN c.deadline : c.deadline[d] \in Int
  BY <1>1, DeadlinesAre
<1>3. /\ s \in [Debt -> DebtRow]
      /\ \A b \in Bill : s[b].option = IF b \in DOMAIN c.split THEN None ELSE bill[b].option
  BY <1>1, SplitBillsAre
<1>4. bill' = Rescheduled(s, c)
  OBVIOUS
<1> HIDE DEF s
<1>5. \A b \in Bill : b \in Debt
  BY DEF Debt
<1> TAKE b \in Bill
<1>6. CASE b \in DOMAIN c.deadline
  <2>1. bill'[b] = [s[b] EXCEPT !.due = c.deadline[b], !.version = @ + 1]
    BY <1>4, <1>5, <1>6 DEF Rescheduled
  <2>2. PICK r \in DebtRow, y \in Int : r = s[b] /\ y = c.deadline[b]
    BY <1>2, <1>3, <1>5, <1>6
  <2>3. bill'[b].option = s[b].option
    <3>1. [r EXCEPT !.due = y, !.version = @ + 1].option = r.option
      BY ONLY r \in DebtRow, y \in Int, DueIsRow
    <3> QED  BY ONLY <2>1, <2>2, <3>1
  <2> QED  BY <2>3, <1>3
<1>7. CASE b \notin DOMAIN c.deadline
  BY <1>3, <1>4, <1>5, <1>7 DEF Rescheduled
<1> QED  BY <1>6, <1>7

\* A commitment with an option is never given another amount.
LEMMA UnsplitStep ==
    ASSUME OptionsAreWhole, TInv, Unsplit, [Next]_vars
    PROVE  Unsplit'
<1>1. Rows /\ Funds
  BY DEF TInv, IInv
<1>2. \A b \in Bill : b \in Debt /\ bill[b] \in DebtRow
  BY <1>1 DEF Rows, Debt
<1>3. CASE \E a \in actions : Execute(a)
  <2>1. PICK a \in actions : Execute(a)
    BY <1>3
  <2>2. PICK k \in Kind : a.c = Candidate(k, FinancialState)
    BY ExecutesACandidate DEF TInv
  <2>3. bill' = Rescheduled(SplitBills(a.c), a.c)
    BY <2>1 DEF Execute
  <2>4. \A b \in Bill : /\ b \notin (DOMAIN a.c.split) \X {"part2"}
                        /\ b \notin (DOMAIN a.c.split) \X {"fee"}
    <3>1. a.c.split = Split(k, FinancialState)
      BY <2>2, Fields
    <3>2. DOMAIN a.c.split \subseteq Bill
      BY <3>1, <1>1, SplitRowsAre
    <3> QED  BY <3>2, RescueAssumption
  <2>5. /\ \A b \in Bill : b \notin DOMAIN a.c.split => bill'[b].amount = bill[b].amount
        /\ \A b \in Bill : bill'[b].option = IF b \in DOMAIN a.c.split THEN None
                                             ELSE bill[b].option
    BY <1>1, <1>2, <2>2, <2>3, <2>4, ExecutedAmounts, ExecutedOptions
  <2> QED  BY <2>5 DEF Unsplit
<1>4. CASE OwnerNext
  <2>1. ASSUME NEW e \in Edits, PatchObligation(e[1], e[2], e[3])
        PROVE  Unsplit'
    <3> DEFINE b == e[1]
               value == e[3]
    <3>1. b \in Bill /\ value \in Nat /\ e = <<e[1], e[2], e[3]>>
      BY RescueAssumption
    <3>2. value \in Int
      BY <3>1
    <3>3. CASE e[2] = "amount"
      <4>1. SeedBill[b].option = None
        BY <3>3 DEF OptionsAreWhole
      <4>2. bill[b].option = None
        BY <4>1, <3>1, <1>1 DEF Rows
      <4>3. bill' = [bill EXCEPT ![b] = [bill[b] EXCEPT !.amount = value, !.version = @ + 1]]
        BY <2>1, <3>1, <3>3, <1>2, <1>1 DEF PatchObligation, Rows
      <4> HIDE DEF b, value
      <4>4. bill'[b].option = bill[b].option
        <5>1. bill[b] \in DebtRow
          BY <1>2, <3>1
        <5>2. [bill[b] EXCEPT !.amount = value, !.version = @ + 1].option = bill[b].option
          BY ONLY <5>1, <3>1, AmountIsRow
        <5>3. bill'[b] = [bill[b] EXCEPT !.amount = value, !.version = @ + 1]
          BY <4>3, <1>1, <1>2, <3>1 DEF Rows
        <5> QED  BY ONLY <5>2, <5>3
      <4>5. \A x \in Bill : x # b => bill'[x] = bill[x]
        BY <4>3, <1>1, <1>2 DEF Rows
      <4> QED  BY <4>2, <4>4, <4>5 DEF Unsplit
    <3>4. CASE e[2] # "amount"
      <4>1. bill' = [bill EXCEPT ![b] = [bill[b] EXCEPT !.due = value, !.version = @ + 1]]
        BY <2>1, <3>1, <3>4, <1>2, <1>1 DEF PatchObligation, Rows
      <4> HIDE DEF b, value
      <4>2. bill'[b].option = bill[b].option /\ bill'[b].amount = bill[b].amount
        <5>1. bill[b] \in DebtRow /\ bill[b].version + 1 \in Nat
          BY <1>2, <3>1 DEF DebtRow
        <5>2. \A z \in Nat :
                 /\ [bill[b] EXCEPT !.due = value, !.version = z].option = bill[b].option
                 /\ [bill[b] EXCEPT !.due = value, !.version = z].amount = bill[b].amount
          BY ONLY <5>1 DEF DebtRow
        <5>3. bill'[b] = [bill[b] EXCEPT !.due = value, !.version = @ + 1]
          BY <4>1, <1>1, <1>2, <3>1 DEF Rows
        <5> QED  BY ONLY <5>1, <5>2, <5>3
      <4>3. \A x \in Bill : x # b => bill'[x] = bill[x]
        BY <4>1, <1>1, <1>2 DEF Rows
      <4> QED  BY <4>2, <4>3 DEF Unsplit
    <3> QED  BY <3>3, <3>4
  <2>2. ASSUME NEW e \in Balances, PatchFund(e[1], e[2])
        PROVE  Unsplit'
    BY <2>2 DEF PatchFund, Unsplit
  <2>3. ASSUME NEW b \in Documented, Hold(b) \/ VerifyBeneficiary(b)
        PROVE  Unsplit'
    <3>1. b \in Bill
      BY RescueAssumption
    <3>2. \/ bill' = [bill EXCEPT ![b] = [bill[b] EXCEPT !.hold = TRUE]]
          \/ bill' = [bill EXCEPT ![b] = [bill[b] EXCEPT !.hold = FALSE, !.version = @ + 1]]
      BY <2>3, <3>1, <1>1, <1>2 DEF Hold, VerifyBeneficiary, Rows
    <3>3. bill'[b].option = bill[b].option /\ bill'[b].amount = bill[b].amount
      <4>1. bill[b] \in DebtRow /\ bill[b].version + 1 \in Nat
        BY <1>2, <3>1 DEF DebtRow
      <4>2. \A z \in Nat :
               /\ [bill[b] EXCEPT !.hold = FALSE, !.version = z].option = bill[b].option
               /\ [bill[b] EXCEPT !.hold = FALSE, !.version = z].amount = bill[b].amount
               /\ [bill[b] EXCEPT !.hold = TRUE].option = bill[b].option
               /\ [bill[b] EXCEPT !.hold = TRUE].amount = bill[b].amount
        BY ONLY <4>1 DEF DebtRow
      <4>3. \/ bill'[b] = [bill[b] EXCEPT !.hold = TRUE]
            \/ bill'[b] = [bill[b] EXCEPT !.hold = FALSE, !.version = @ + 1]
        BY <3>1, <3>2, <1>1, <1>2 DEF Rows
      <4> QED  BY ONLY <4>1, <4>2, <4>3
    <3>4. \A x \in Bill : x # b => bill'[x] = bill[x]
      BY <3>2, <1>1, <1>2 DEF Rows
    <3> QED  BY <3>3, <3>4 DEF Unsplit
  <2> QED  BY <1>4, <2>1, <2>2, <2>3 DEF OwnerNext
<1>5. CASE bill' = bill
  BY <1>5 DEF Unsplit
<1> QED  BY <1>3, <1>4, <1>5
   DEF Next, RescueNext, GeneratePlan, GenerateRescue, Prepare, Approve, vars

\* The parts that c agrees on make up the commitments as they are.
Whole(c) ==
    \A b \in DOMAIN c.split : bill[b].amount = c.split[b].amounts[1] + c.split[b].amounts[2]

\* What a rescue adds to one commitment and its parts is its fee.
LEMMA OwedGrowsByFee ==
    ASSUME TInv, NEW k, NEW c, c = Candidate(k, FinancialState), Whole(c),
           bill' = Rescheduled(SplitBills(c), c), NEW b \in Bill
    PROVE  /\ OwedFor(b) \in Nat
           /\ b \in DOMAIN c.split => c.split[b].fee \in Nat
           /\ OwedFor(b)' = OwedFor(b) + IF b \in DOMAIN c.split THEN c.split[b].fee ELSE 0
<1>1. Rows /\ Funds /\ Blank
  BY DEF TInv, IInv
<1>2. c.split = Split(k, FinancialState)
  BY Fields
<1>3. b \in Debt /\ <<b, "part2">> \in Debt /\ <<b, "fee">> \in Debt
  BY DEF Debt
<1>4. /\ bill[b].amount \in Nat /\ bill[<<b, "part2">>].amount \in Nat
      /\ bill[<<b, "fee">>].amount \in Nat
  BY <1>1, <1>3 DEF Rows, DebtRow
<1>5. OwedFor(b) \in Nat
  BY <1>4 DEF OwedFor
<1>6. DOMAIN c.split \subseteq Bill
  BY <1>1, <1>2, SplitRowsAre
<1>7. CASE b \notin DOMAIN c.split
  <2>1. /\ b \notin (DOMAIN c.split) \X {"part2"} /\ b \notin (DOMAIN c.split) \X {"fee"}
        /\ <<b, "part2">> \notin DOMAIN c.split /\ <<b, "fee">> \notin DOMAIN c.split
    BY <1>6, <1>7, RescueAssumption
  <2>2. bill'[b].amount = bill[b].amount
    BY <1>1, <1>3, <1>7, <2>1, ExecutedAmounts
  <2>3. /\ <<b, "part2">> \notin (DOMAIN c.split) \X {"part2"}
        /\ <<b, "part2">> \notin (DOMAIN c.split) \X {"fee"}
        /\ <<b, "fee">> \notin (DOMAIN c.split) \X {"part2"}
        /\ <<b, "fee">> \notin (DOMAIN c.split) \X {"fee"}
    BY <1>7
  <2>4. /\ bill'[<<b, "part2">>].amount = bill[<<b, "part2">>].amount
        /\ bill'[<<b, "fee">>].amount = bill[<<b, "fee">>].amount
    BY <1>1, <1>3, <2>1, <2>3, ExecutedAmounts
  <2> QED  BY <1>4, <1>5, <1>7, <2>2, <2>4 DEF OwedFor
<1>8. CASE b \in DOMAIN c.split
  <2>1. /\ c.split[b] = bill[b].option /\ c.split[b] \in Option
        /\ bill[b].option = SeedBill[b].option /\ SeedBill[b].option # None
    BY <1>1, <1>2, <1>8, SplitRowsAre
  <2>2. PICK p \in Option : p = c.split[b] /\ p = bill[b].option
    BY <2>1
  <2>3. p.amounts[1] \in Nat /\ p.amounts[2] \in Nat /\ p.fee \in Nat
    BY DEF Option
  <2>4. bill[b].amount = p.amounts[1] + p.amounts[2]
    BY <1>8, <2>2 DEF Whole
  <2>5. \A x \in Part : bill[<<b, x>>].status = "NONE"
    <3>1. \A x \in Part : bill[<<b, x>>].status # "OPEN"
      BY <1>1, <2>1 DEF Rows
    <3>2. \A x \in Part : bill[<<b, x>>] \in DebtRow
      BY <1>1, <1>3 DEF Rows, Part
    <3> QED  BY <3>1, <3>2 DEF DebtRow
  <2>6. bill[<<b, "part2">>].amount = 0 /\ bill[<<b, "fee">>].amount = 0
    BY <1>1, <1>3, <2>5 DEF Blank, Part, NoDebt
  <2>7. /\ bill'[b].amount = p.amounts[1]
        /\ bill'[<<b, "part2">>].amount = p.amounts[2]
        /\ bill'[<<b, "fee">>].amount = IF p.fee > 0 THEN p.fee ELSE bill[<<b, "fee">>].amount
    <3>1. /\ bill'[b].amount = bill[b].option.amounts[1]
          /\ bill'[<<b, "part2">>].amount = bill[b].option.amounts[2]
          /\ bill'[<<b, "fee">>].amount = IF bill[b].option.fee > 0 THEN bill[b].option.fee
                                          ELSE bill[<<b, "fee">>].amount
      BY <1>1, <1>8, ExecutedAmounts
    <3> QED  BY ONLY <3>1, <2>2
  <2>8. bill'[<<b, "fee">>].amount = p.fee
    BY <2>3, <2>6, <2>7
  <2>9. OwedFor(b) = p.amounts[1] + p.amounts[2]
    BY <2>3, <2>4, <2>6 DEF OwedFor
  <2>10. OwedFor(b)' = p.amounts[1] + p.amounts[2] + p.fee
    BY <2>7, <2>8 DEF OwedFor
  <2> QED  BY <1>5, <1>8, <2>2, <2>3, <2>9, <2>10
<1> QED  BY <1>5, <1>7, <1>8

\* What is owed after an execution of c.
Grown(c) ==
    Owed' = Owed + SumFunctionOnSet([b \in DOMAIN c.split |-> c.split[b].fee], DOMAIN c.split)

\* docs/architecture.md, "All installment principal, deferred debts and institution
\* fees remain represented": whatever the owner has corrected before, an execution
\* whose parts make up the commitments changes what is owed by its fees only.
THEOREM OnlyFeesAreAdded ==
    Spec => [][\A a \in actions : Execute(a) /\ Whole(a.c) => Grown(a.c)]_vars
<1>1. ASSUME TInv, NEW a \in actions, Execute(a), Whole(a.c)
      PROVE  Grown(a.c)
  <2>1. PICK k \in Kind : a.c = Candidate(k, FinancialState)
    BY <1>1, ExecutesACandidate DEF TInv
  <2>2. bill' = Rescheduled(SplitBills(a.c), a.c)
    BY <1>1 DEF Execute
  <2>3. PICK D, fees : D = DOMAIN a.c.split
                       /\ fees = [b \in DOMAIN a.c.split |-> a.c.split[b].fee]
    OBVIOUS
  <2>4. D \in SUBSET Bill
    <3>1. a.c.split = Split(k, FinancialState)
      BY <2>1, Fields
    <3> QED  BY <3>1, <2>3, <1>1, SplitRowsAre DEF TInv, IInv
  <2>5. PICK u, v, w : /\ u = [b \in Bill |-> OwedFor(b)']
                       /\ v = [b \in Bill |-> OwedFor(b)]
                       /\ w = [b \in Bill |-> IF b \in D THEN fees[b] ELSE 0]
    OBVIOUS
  <2>6. \A b \in Bill : /\ OwedFor(b) \in Nat
                        /\ b \in D => fees[b] \in Nat
                        /\ OwedFor(b)' = OwedFor(b) + IF b \in D THEN fees[b] ELSE 0
    <3> TAKE b \in Bill
    <3>1. /\ OwedFor(b) \in Nat
          /\ b \in DOMAIN a.c.split => a.c.split[b].fee \in Nat
          /\ OwedFor(b)' = OwedFor(b) + IF b \in DOMAIN a.c.split THEN a.c.split[b].fee ELSE 0
      BY <1>1, <2>1, <2>2, OwedGrowsByFee
    <3> QED  BY <3>1, <2>3
  <2>7. \A b \in Bill : v[b] \in Int /\ w[b] \in Int /\ u[b] = v[b] + w[b]
    BY <2>5, <2>6
  <2>8. Owed = SumFunctionOnSet(v, Bill) /\ Owed' = SumFunctionOnSet(u, Bill)
    BY <2>5 DEF Owed
  <2>9. IsFiniteSet(Bill) /\ IsFiniteSet(D) /\ IsFiniteSet(Bill \ D)
    BY <2>4, RescueAssumption, FS_Subset
  <2>10. SumFunctionOnSet(u, Bill) = SumFunctionOnSet(v, Bill) + SumFunctionOnSet(w, Bill)
    BY <2>7, <2>9, SumOfSum
  <2>11. SumFunctionOnSet(w, Bill) = SumFunctionOnSet(w, D) + SumFunctionOnSet(w, Bill \ D)
    BY <2>4, <2>7, <2>9, SumOfParts
  <2>12. SumFunctionOnSet(w, Bill \ D) = 0
    <3>1. \A b \in Bill \ D : w[b] = 0
      BY <2>5
    <3> QED  BY <3>1, <2>9, SumOfZeros
  <2>13. SumFunctionOnSet(w, D) = SumFunctionOnSet(fees, D)
    <3>1. \A b \in D : w[b] = fees[b]
      BY <2>4, <2>5
    <3> QED  BY <3>1, <2>9, SumOfSame
  <2>14. SumFunctionOnSet(w, D) \in Int
    <3>1. \A b \in D : w[b] \in Int
      BY <2>4, <2>7
    <3> QED  BY <3>1, <2>9, SumInt
  <2> QED  BY <2>3, <2>8, <2>10, <2>11, <2>12, <2>13, <2>14 DEF Grown
<1>2. TInv /\ [Next]_vars =>
        [\A a \in actions : Execute(a) /\ Whole(a.c) => Grown(a.c)]_vars
  BY <1>1
<1> QED  BY TypedInvariance, <1>2, PTL DEF Spec

\* The same of every execution, where the parts of every option make up its commitment
\* and no amount is corrected under an option.
THEOREM NoDebtIsLost == ASSUME OptionsAreWhole PROVE Spec => DebtIsKept
<1>1. Init => Unsplit
  BY DEF Init, Unsplit, Debt
<1>2. TInv /\ Unsplit /\ [Next]_vars => Unsplit'
  BY UnsplitStep
<1>3. Spec => []Unsplit
  BY TypedInvariance, <1>1, <1>2, PTL DEF Spec
<1>4. ASSUME TInv, Unsplit, NEW a \in actions
      PROVE  Whole(a.c)
  <2>1. PICK k \in Kind : a.c = Candidate(k, FinancialState)
    BY <1>4, ExecutesACandidate DEF TInv
  <2>2. a.c.split = Split(k, FinancialState)
    BY <2>1, Fields
  <2>3. \A b \in DOMAIN a.c.split :
           /\ b \in Bill /\ a.c.split[b] = bill[b].option
           /\ bill[b].option = SeedBill[b].option /\ SeedBill[b].option # None
    BY <1>4, <2>2, SplitRowsAre DEF TInv, IInv
  <2> QED  BY <1>4, <2>3 DEF Whole, Unsplit, OptionsAreWhole
<1>5. TInv /\ Unsplit
        /\ [\A a \in actions : Execute(a) /\ Whole(a.c) => Grown(a.c)]_vars =>
        [\A a \in actions : Execute(a) =>
           Owed' = Owed + SumFunctionOnSet([b \in DOMAIN a.c.split |-> a.c.split[b].fee],
                                           DOMAIN a.c.split)]_vars
  BY <1>4 DEF Grown
<1> QED  BY TypedInvariance, OnlyFeesAreAdded, <1>3, <1>5, PTL DEF Spec, DebtIsKept
=============================================================================
