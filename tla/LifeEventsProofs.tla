-------------------------- MODULE LifeEventsProofs --------------------------
(***************************************************************************)
(* Theorems about LifeEvents for every number of events, sources and       *)
(* commitments, every proposal a request may carry and every sequence of   *)
(* reviews, applications and payments.                                     *)
(***************************************************************************)
EXTENDS LifeEvents, SumTheorems, WellFoundedInduction, TLAPS

(***************************************************************************)
(* The tables apart from plans and payments, and what a single event row   *)
(* says about itself.                                                      *)
(***************************************************************************)
EventRow ==
    [status : EventStatus, version : 0..MaxVersion, p : Proposal,
     fund : Source \cup {None}, debt : Debt \cup {None},
     linked : Source \cup {None}, flagged : BOOLEAN,
     hash : State \cup {None}, posted : Nat,
     overlay : [fund : Source \cup {None}, lock : BOOLEAN, cap : Nat]]

Tables ==
    /\ event \in [Event -> EventRow]
    /\ fund \in [Source -> SourceRow]
    /\ \A f \in Source : fund[f].reserve <= fund[f].amount
    /\ debt \in [Debt -> DebtRow]

Action == [hash : State, bill : Bill, source : Source]

Counting == {"CONFIRMED", "APPLIED", "RESOLVED"}
Past == {"APPLIED", "RESOLVED", "DISMISSED"}

\* The proposal keeps the flags found at capture and such a row never counts; only an
\* applied report has an overlay; and only two types of event name a commitment.
Sound(r) ==
    /\ r.flagged => r.p.flagged /\ r.status \notin Counting
    /\ r.overlay.fund # None => r.p.type \in OVERLAYS /\ r.status \in {"APPLIED", "RESOLVED"}
    /\ r.debt # None => r.p.type \in {"EXPENSE_OCCURRED", "OBLIGATION_CHANGED"}

Rows == \A e \in Event : Sound(event[e])

\* The commitments of an event are there only once it was applied.
Born ==
    \A e \in Event, i \in 1..MaxDates :
        debt[<<e, i>>].status # "NONE" => event[e].status \in Past

\* The inductive invariant.
IInv ==
    /\ Tables
    /\ plans \subseteq State
    /\ actions \subseteq Action
    /\ Rows
    /\ Born
    /\ SettledOnce
    /\ NoPaymentBesidePending
    /\ PlansKnowTheMoney

\* A step that leaves no payment and no plan but of the new state.
Clean == actions' = {} /\ plans' \subseteq {FinancialState'}

Settling(r) == r.p.type = "EXPENSE_OCCURRED" /\ r.status \in {"APPLIED", "RESOLVED"}

\* A row that settles a commitment goes on doing so, and no other begins to.
Keeps(r, t) ==
    /\ Settling(t) <=> Settling(r)
    /\ Settling(r) => t.debt = r.debt /\ t.posted = r.posted

-----------------------------------------------------------------------------
(* The smallest of a set of amounts *)

\* A set of amounts has a smallest one, which Min finds.
LEMMA Smallest ==
    ASSUME NEW S \in SUBSET Nat, S # {}
    PROVE  Min(S) \in S /\ \A y \in S : Min(S) <= y
<1> DEFINE R == {ss \in Nat \X Nat : ss[1] < ss[2]}
<1>1. IsWellFoundedOn(R, Nat)
  BY NatLessThanWellFounded DEF OpToRel
<1>2. \A x, y \in Nat : y < x => <<y, x>> \in R
  OBVIOUS
<1>3. \E x \in S : \A y \in S : ~ (<<y, x>> \in R)
  <2> HIDE DEF R
  <2>q. QED
    BY <1>1, WFMin, Zenon
<1>4. PICK x \in S : \A y \in S : ~ (<<y, x>> \in R)
  BY <1>3
<1>5. ASSUME NEW y \in S
      PROVE  x <= y
  <2>1. x \in Nat /\ y \in Nat
    OBVIOUS
  <2>2. ~ (y < x)
    <3> HIDE DEF R
    <3>q. QED
      BY <2>1, <1>2, <1>4
  <2>q. QED
    BY <2>1, <2>2
<1>q. QED
  BY <1>5 DEF Min

-----------------------------------------------------------------------------
(* Values *)

\* What the reports leave of a source is an amount, with its reserve in it, and is
\* never more than the row has.
LEMMA ProjectedType ==
    ASSUME NEW ev \in [Event -> EventRow], NEW f \in Source, NEW row \in SourceRow
    PROVE  /\ Projected(f, ev, row) \in SourceRow
           /\ Projected(f, ev, row).amount <= row.amount
<1> DEFINE caps == {ev[e].overlay.cap : e \in {r \in ReportsOn(f, ev) : ~ev[r].overlay.lock}}
           amounts == {row.amount} \cup caps
           reserves == {Min(amounts), row.reserve}
<1>1. row.amount \in Nat /\ row.reserve \in Nat /\ row.status \in FundStatus
  BY DEF SourceRow
<1>2. \A e \in ReportsOn(f, ev) : ev[e].overlay.cap \in Nat
  BY DEF ReportsOn, EventRow
<1>3. amounts \in SUBSET Nat /\ amounts # {} /\ row.amount \in amounts
  BY <1>1, <1>2
<1>4. Min(amounts) \in Nat /\ Min(amounts) <= row.amount
  <2> HIDE DEF amounts
  <2>q. QED
    BY <1>3, Smallest
<1>5. Min(reserves) \in Nat
  <2>1. reserves \in SUBSET Nat /\ reserves # {}
    BY <1>1, <1>4
  <2> HIDE DEF reserves
  <2>q. QED
    BY <2>1, Smallest
<1>6. Projected(f, ev, row) =
        [amount |-> Min(amounts), reserve |-> Min(reserves),
         status |-> IF \E e \in ReportsOn(f, ev) : ev[e].overlay.lock
                    THEN "LOCKED" ELSE row.status]
  BY DEF Projected
<1>q. QED
  <2> HIDE DEF amounts, reserves
  <2>q. QED
    BY <1>1, <1>4, <1>5, <1>6 DEF SourceRow, FundStatus

\* The canonical state of typed tables is a state.
LEMMA StateType ==
    ASSUME NEW ev \in [Event -> EventRow], NEW fu \in [Source -> SourceRow],
           NEW de \in [Debt -> DebtRow]
    PROVE  StateOf(ev, fu, de) \in State
<1>1. \A f \in Source : Projected(f, ev, fu[f]) \in SourceRow
  BY ProjectedType
<1>2. {<<e, ev[e].version>> : e \in PendingIn(ev)} \in SUBSET (Event \X Nat)
  BY DEF PendingIn, EventRow
<1>q. QED
  BY <1>1, <1>2 DEF StateOf, State

-----------------------------------------------------------------------------
(* Rows *)

\* The fields of a row have their types.
LEMMA RowFields ==
    ASSUME NEW r \in EventRow
    PROVE  /\ r.status \in EventStatus /\ r.version \in 0..MaxVersion /\ r.p \in Proposal
           /\ r.fund \in Source \cup {None} /\ r.debt \in Debt \cup {None}
           /\ r.linked \in Source \cup {None} /\ r.flagged \in BOOLEAN
           /\ r.hash \in State \cup {None} /\ r.posted \in Nat
           /\ r.overlay \in [fund : Source \cup {None}, lock : BOOLEAN, cap : Nat]
BY DEF EventRow

\* A row that a review stores.
LEMMA StoredType ==
    ASSUME NEW r \in EventRow, r.version < MaxVersion, NEW p \in Proposal,
           NEW f \in Source \cup {None}, NEW d \in Debt \cup {None}
    PROVE  /\ Stored(r, p, f, d) \in EventRow
           /\ Stored(r, p, f, d).status = r.status /\ Stored(r, p, f, d).p = p
           /\ Stored(r, p, f, d).debt = d /\ Stored(r, p, f, d).flagged = r.flagged
           /\ Stored(r, p, f, d).overlay = r.overlay /\ Stored(r, p, f, d).posted = r.posted
<1> DEFINE n == r.version + 1
<1>1. n \in 0..MaxVersion
  BY RowFields, InputAssumption
<1>2. Stored(r, p, f, d) = [r EXCEPT !.p = p, !.fund = f, !.debt = d, !.linked = f,
                                     !.hash = None, !.version = n]
  BY DEF Stored
<1> HIDE DEF n
<1>q. QED
  BY <1>1, <1>2 DEF EventRow

\* A stored row that takes a status.
LEMMA ReviewedType ==
    ASSUME NEW r \in EventRow, r.version < MaxVersion, NEW p \in Proposal,
           NEW f \in Source \cup {None}, NEW d \in Debt \cup {None}, NEW s \in EventStatus
    PROVE  LET u == [Stored(r, p, f, d) EXCEPT !.status = s]
           IN  /\ u \in EventRow /\ u.status = s /\ u.p = p /\ u.debt = d
               /\ u.flagged = r.flagged /\ u.overlay = r.overlay /\ u.posted = r.posted
<1> DEFINE w == Stored(r, p, f, d)
           u == [w EXCEPT !.status = s]
<1>1. /\ w \in EventRow /\ w.p = p /\ w.debt = d
      /\ w.flagged = r.flagged /\ w.overlay = r.overlay /\ w.posted = r.posted
  BY StoredType
<1> HIDE DEF w
<1>2. /\ u \in EventRow /\ u.status = s /\ u.p = p /\ u.debt = d
      /\ u.flagged = r.flagged /\ u.overlay = r.overlay /\ u.posted = r.posted
  BY <1>1 DEF EventRow
<1>q. QED
  BY <1>2 DEF w

\* A row that records the state it was confirmed in.
LEMMA HashedType ==
    ASSUME NEW r \in EventRow, NEW h \in State
    PROVE  LET t == [r EXCEPT !.hash = h]
           IN  /\ t \in EventRow /\ t.status = r.status /\ t.p = r.p /\ t.debt = r.debt
               /\ t.flagged = r.flagged /\ t.overlay = r.overlay /\ t.posted = r.posted
BY DEF EventRow

\* A row that moves to another status.
LEMMA MovedType ==
    ASSUME NEW r \in EventRow, r.version < MaxVersion, NEW s \in EventStatus
    PROVE  LET m == Moved(r, s)
           IN  /\ m \in EventRow
               /\ m.status = s /\ m.p = r.p /\ m.debt = r.debt /\ m.flagged = r.flagged
               /\ m.overlay = r.overlay /\ m.posted = r.posted
<1> DEFINE n == r.version + 1
<1>1. n \in 0..MaxVersion
  BY RowFields, InputAssumption
<1>2. Moved(r, s) = [r EXCEPT !.status = s, !.hash = None, !.version = n]
  BY DEF Moved
<1> HIDE DEF n
<1>q. QED
  BY <1>1, <1>2 DEF EventRow

\* A new row.
LEMMA NewType ==
    ASSUME NEW p \in Proposal, NEW s \in EventStatus
    PROVE  LET r == New(p, s)
           IN  /\ r \in EventRow /\ r.status = s /\ r.p = p /\ r.debt = None
               /\ r.flagged = p.flagged /\ r.overlay.fund = None /\ r.posted = 0
               /\ r.version = 1
<1>1. NoProposal \in Proposal
  BY DEF NoProposal, Proposal, EventType, NeverApplied
<1>2. NoOverlay \in [fund : Source \cup {None}, lock : BOOLEAN, cap : Nat]
      /\ NoOverlay.fund = None
  BY DEF NoOverlay
<1>3. /\ NoEvent \in EventRow /\ NoEvent.debt = None /\ NoEvent.posted = 0
      /\ NoEvent.overlay = NoOverlay
  <2>1. 0 \in 0..MaxVersion /\ "NONE" \in EventStatus
    BY InputAssumption DEF EventStatus
  <2> HIDE DEF NoProposal, NoOverlay
  <2>q. QED
    BY <1>1, <1>2, <2>1 DEF NoEvent, EventRow
<1>4. p.flagged \in BOOLEAN /\ 1 \in 0..MaxVersion
  BY InputAssumption DEF Proposal
<1> DEFINE k == p.flagged
<1>5. New(p, s) = [NoEvent EXCEPT !.status = s, !.version = 1, !.p = p, !.flagged = k]
  BY DEF New
<1> HIDE DEF k
<1>6. k \in BOOLEAN
  BY <1>4 DEF k
<1>7. /\ New(p, s) \in EventRow /\ New(p, s).status = s /\ New(p, s).p = p
      /\ New(p, s).debt = None /\ New(p, s).flagged = k
      /\ New(p, s).overlay = NoOverlay /\ New(p, s).posted = 0 /\ New(p, s).version = 1
  BY <1>3, <1>4, <1>5, <1>6 DEF EventRow
<1>q. QED
  BY <1>2, <1>7 DEF k

-----------------------------------------------------------------------------
(* Steps *)

\* A step that writes one event row.
LEMMA RowStep ==
    ASSUME Tables, Rows, Born, NEW e \in Event, NEW t \in EventRow, Sound(t),
           event' = [event EXCEPT ![e] = t],
           event[e].status \in Past => t.status \in Past,
           fund' \in [Source -> SourceRow],
           \A f \in Source : fund'[f].reserve <= fund'[f].amount,
           debt' \in [Debt -> DebtRow],
           \A x \in Event, i \in 1..MaxDates : debt'[<<x, i>>].status # "NONE" =>
               debt[<<x, i>>].status # "NONE" \/ (x = e /\ t.status \in Past)
    PROVE  Tables' /\ Rows' /\ Born'
<1>1. event' \in [Event -> EventRow]
  BY DEF Tables
<1>2. event'[e] = t /\ \A x \in Event \ {e} : event'[x] = event[x]
  BY DEF Tables
<1>3. Rows'
  BY <1>2 DEF Rows
<1>4. Born'
  BY <1>2 DEF Born
<1>q. QED
  BY <1>1, <1>3, <1>4 DEF Tables

\* What is left after a step that retires plans and payments holds of the new state.
LEMMA CleanStep ==
    ASSUME Tables', Clean
    PROVE  /\ plans' \subseteq State /\ actions' \subseteq Action
           /\ NoPaymentBesidePending' /\ PlansKnowTheMoney'
<1>1. FinancialState' \in State
  BY StateType DEF Tables, FinancialState
<1>2. FinancialState'.debt = debt'
  BY DEF FinancialState, StateOf
<1>q. QED
  BY <1>1, <1>2 DEF Clean, NoPaymentBesidePending, PlansKnowTheMoney

\* A step that writes one event row whose reports stay, and makes no event pending,
\* leaves the money as the plans know it.
LEMMA QuietStep ==
    ASSUME Tables, plans \subseteq State, actions \subseteq Action,
           NoPaymentBesidePending, PlansKnowTheMoney,
           NEW e \in Event, NEW t \in EventRow,
           event' = [event EXCEPT ![e] = t],
           UNCHANGED <<fund, debt, plans, actions>>,
           \/ t.status = event[e].status /\ t.overlay = event[e].overlay
           \/ /\ event[e].status # "APPLIED" \/ event[e].overlay.fund = None
              /\ t.status # "APPLIED" \/ t.overlay.fund = None,
           t.status = "CONFIRMED" /\ t.p.mode # "HYPOTHETICAL" => e \in Pending
    PROVE  /\ plans' \subseteq State /\ actions' \subseteq Action
           /\ NoPaymentBesidePending' /\ PlansKnowTheMoney'
<1>1. event'[e] = t /\ \A x \in Event \ {e} : event'[x] = event[x]
  BY DEF Tables
<1>2. ASSUME NEW f \in Source
      PROVE  Projected(f, event', fund[f]) = Projected(f, event, fund[f])
  <2>1. None \notin Source
    BY SlotAssumption
  <2>2. ReportsOn(f, event') = ReportsOn(f, event)
    BY <1>1, <2>1 DEF ReportsOn
  <2>3. \A x \in ReportsOn(f, event) : event'[x].overlay = event[x].overlay
    BY <1>1, <2>1 DEF ReportsOn
  <2>4. {event'[x].overlay.cap : x \in {r \in ReportsOn(f, event) : ~event'[r].overlay.lock}}
        = {event[x].overlay.cap : x \in {r \in ReportsOn(f, event) : ~event[r].overlay.lock}}
    BY <2>3
  <2>5. (\E x \in ReportsOn(f, event) : event'[x].overlay.lock)
        <=> (\E x \in ReportsOn(f, event) : event[x].overlay.lock)
    BY <2>3
  <2>q. QED
    BY <2>2, <2>4, <2>5 DEF Projected
<1>3. FinancialState'.fund = FinancialState.fund /\ FinancialState.debt = debt
  BY <1>2 DEF FinancialState, StateOf
<1>4. PlansKnowTheMoney'
  BY <1>3 DEF PlansKnowTheMoney
<1>5. Pending = {} => Pending' = {}
  BY <1>1 DEF Pending, PendingIn
<1>6. Pending = {} => FinancialState' = FinancialState
  <2>1. SUFFICES ASSUME Pending = {}
                 PROVE  FinancialState' = FinancialState
    OBVIOUS
  <2>2. PendingIn(event) = {} /\ PendingIn(event') = {}
    BY <2>1, <1>5 DEF Pending
  <2>3. [f \in Source |-> Projected(f, event', fund[f])]
        = [f \in Source |-> Projected(f, event, fund[f])]
    BY <1>2
  <2>4. {<<x, event'[x].version>> : x \in PendingIn(event')}
        = {<<x, event[x].version>> : x \in PendingIn(event)}
    BY <2>2
  <2>q. QED
    BY <2>3, <2>4 DEF FinancialState, StateOf
<1>q. QED
  BY <1>4, <1>5, <1>6 DEF NoPaymentBesidePending

\* A step that settles nothing and touches no settled commitment.
LEMMA SettledStep ==
    ASSUME SettledOnce, \A x \in Event : Keeps(event[x], event'[x]),
           \A d \in Debt \ Bill :
              /\ debt'[d].status = "PAID" <=> debt[d].status = "PAID"
              /\ debt[d].status = "PAID" => debt'[d].amount = debt[d].amount
    PROVE  SettledOnce'
<1>1. \A x \in Event, d \in Debt \ Bill :
         /\ Settles(x, d)' <=> Settles(x, d)
         /\ Settles(x, d) => event'[x].posted = event[x].posted
  BY DEF Settles, Counted, Keeps, Settling
<1>q. QED
  <2> HIDE DEF Settles
  <2>q. QED
    BY <1>1 DEF SettledOnce

-----------------------------------------------------------------------------
(* Capture and review *)

\* The types that no report has, and those that name no commitment.
LEMMA Types ==
    /\ OVERLAYS \cap (EXPENSES \cup EXPECTED \cup Received \cup OBLIGATIONS) = {}
    /\ "OBLIGATION_CHANGED" \notin EXPENSES \cup OVERLAYS \cup EXPECTED \cup Received \cup OBLIGATIONS
    /\ "EXPENSE_OCCURRED" \notin OVERLAYS \cup EXPECTED \cup Received \cup OBLIGATIONS
BY DEF OVERLAYS, EXPENSES, EXPECTED, Received, OBLIGATIONS

\* A review keeps type and mode, and the flags of the capture.
LEMMA FlaggedProposal ==
    ASSUME Tables, NEW e \in Event, NEW p \in Proposals
    PROVE  /\ Flagged(e, p) \in Proposal
           /\ Flagged(e, p).type = p.type /\ Flagged(e, p).mode = p.mode
           /\ event[e].flagged => Flagged(e, p).flagged
<1> DEFINE k == p.flagged \/ event[e].flagged
<1>1. k \in BOOLEAN
  OBVIOUS
<1>2. Flagged(e, p) = [p EXCEPT !.flagged = k]
  BY DEF Flagged
<1>3. event[e].flagged => k = TRUE
  OBVIOUS
<1>4. p \in Proposal
  BY InputAssumption
<1> HIDE DEF k
<1>q. QED
  BY <1>1, <1>2, <1>3, <1>4 DEF Proposal

\* A step that writes one row outside the ledger preserves the invariant.
LEMMA ReviewStep ==
    ASSUME IInv, NEW e \in Event, NEW t \in EventRow, Sound(t),
           event[e].status \notin Past, t.status \notin {"APPLIED", "RESOLVED"},
           event' = [event EXCEPT ![e] = t],
           UNCHANGED <<fund, debt>>,
           \/ Clean
           \/ /\ UNCHANGED <<plans, actions>>
              /\ t.status = "CONFIRMED" /\ t.p.mode # "HYPOTHETICAL" => e \in Pending
    PROVE  IInv'
<1>1. Tables /\ Rows /\ Born /\ SettledOnce
  BY DEF IInv
<1>2. Tables' /\ Rows' /\ Born'
  <2>1. /\ fund' \in [Source -> SourceRow] /\ debt' \in [Debt -> DebtRow]
        /\ \A f \in Source : fund'[f].reserve <= fund'[f].amount
        /\ \A x \in Event, i \in 1..MaxDates : debt'[<<x, i>>].status # "NONE" =>
              debt[<<x, i>>].status # "NONE" \/ (x = e /\ t.status \in Past)
        /\ event[e].status \in Past => t.status \in Past
    BY <1>1 DEF Tables
  <2>q. QED
    BY <1>1, <2>1, RowStep
<1>3. /\ plans' \subseteq State /\ actions' \subseteq Action
      /\ NoPaymentBesidePending' /\ PlansKnowTheMoney'
  <2>1. CASE Clean
    BY <2>1, <1>2, CleanStep
  <2>2. CASE UNCHANGED <<plans, actions>>
             /\ (t.status = "CONFIRMED" /\ t.p.mode # "HYPOTHETICAL" => e \in Pending)
    BY <2>2, <1>2, QuietStep DEF IInv, Past
  <2>q. QED
    BY <2>1, <2>2
<1>4. SettledOnce'
  <2>1. \A x \in Event : Keeps(event[x], event'[x])
    BY <1>1 DEF Tables, Keeps, Settling, Past
  <2>q. QED
    BY <1>1, <2>1, SettledStep
<1>q. QED
  BY <1>2, <1>3, <1>4 DEF IInv

LEMMA CaptureStep ==
    ASSUME IInv, NEW e \in Event, NEW p \in Proposals,
           Capture(e, p) \/ PurchaseCheck(e, p)
    PROVE  IInv'
<1>1. Tables /\ event[e].status = "NONE" /\ p \in Proposal
  BY InputAssumption DEF IInv, Capture, PurchaseCheck
<1>2. CASE Capture(e, p)
  <2>1. PICK s \in {"REVIEW_REQUIRED", "INTERPRETED"} : event' = [event EXCEPT ![e] = New(p, s)]
    BY <1>2 DEF Capture
  <2>2. s \in EventStatus /\ s \notin Counting
    BY DEF EventStatus, Counting
  <2> DEFINE t == New(p, s)
  <2>3. /\ t \in EventRow /\ t.status = s /\ t.p = p /\ t.debt = None
        /\ t.flagged = p.flagged /\ t.overlay.fund = None
    BY <1>1, <2>2, NewType
  <2>4. event' = [event EXCEPT ![e] = t] /\ UNCHANGED <<fund, debt, plans, actions>>
    BY <2>1, <1>2 DEF Capture
  <2> HIDE DEF t
  <2>5. Sound(t)
    BY <1>1, <2>2, <2>3 DEF Sound
  <2>6. t.status \notin {"APPLIED", "RESOLVED", "CONFIRMED"} /\ event[e].status \notin Past
    BY <1>1, <2>2, <2>3 DEF Counting, Past
  <2>q. QED
    BY <2>3, <2>4, <2>5, <2>6, ReviewStep
<1>3. CASE PurchaseCheck(e, p)
  <2> DEFINE shadow == [p EXCEPT !.mode = "HYPOTHETICAL"]
             fresh == New(p, "NONE")
  <2>1. shadow \in Proposal /\ shadow.flagged = p.flagged
    BY <1>1 DEF Proposal
  <2>2. PICK s \in {"REVIEW_REQUIRED", "SIMULATED"} :
            event' = [event EXCEPT ![e] = [Stored(fresh, shadow, None, None) EXCEPT !.status = s]]
    BY <1>3 DEF PurchaseCheck
  <2>3. s \in EventStatus /\ s \notin Counting /\ "NONE" \in EventStatus
    BY DEF EventStatus, Counting
  <2>4. /\ fresh \in EventRow /\ fresh.flagged = p.flagged /\ fresh.overlay.fund = None
        /\ fresh.version = 1
    BY <1>1, <2>3, NewType
  <2>5. fresh.version < MaxVersion
    BY <2>4, InputAssumption
  <2> HIDE DEF fresh, shadow
  <2> DEFINE t == [Stored(fresh, shadow, None, None) EXCEPT !.status = s]
  <2>6. /\ t \in EventRow /\ t.status = s /\ t.p = shadow /\ t.debt = None
        /\ t.flagged = p.flagged /\ t.overlay.fund = None
    BY <2>1, <2>3, <2>4, <2>5, ReviewedType
  <2>7. Sound(t)
    BY <2>1, <2>3, <2>6 DEF Sound
  <2>8. event' = [event EXCEPT ![e] = t] /\ UNCHANGED <<fund, debt, plans, actions>>
    BY <2>2, <1>3 DEF PurchaseCheck
  <2>9. t.status \notin {"APPLIED", "RESOLVED", "CONFIRMED"}
    BY <2>3, <2>6 DEF Counting
  <2> HIDE DEF t
  <2>q. QED
    BY <1>1, <2>6, <2>7, <2>8, <2>9, ReviewStep DEF Past
<1>q. QED
  BY <1>2, <1>3

\* What a reviewed event and its new row are like.
LEMMA ReviewedRow ==
    ASSUME IInv, NEW e \in Event, NEW p \in Proposals,
           NEW f \in FundLinks(p), NEW d \in DebtLinks(p), Reviewed(e, Flagged(e, p), f, d)
    PROVE  /\ event[e] \in EventRow /\ event[e].version < MaxVersion
           /\ event[e].status \notin Past /\ event[e].overlay.fund = None
           /\ Flagged(e, p) \in Proposal /\ Flagged(e, p).mode = p.mode
           /\ event[e].flagged => Flagged(e, p).flagged
           /\ f \in Source \cup {None} /\ d \in Debt \cup {None}
           /\ d # None => Flagged(e, p).type \in {"EXPENSE_OCCURRED", "OBLIGATION_CHANGED"}
<1>1. Tables /\ Rows
  BY DEF IInv
<1>2. event[e] \in EventRow
  BY <1>1 DEF Tables
<1>3. event[e].status \in Reviewable /\ event[e].version < MaxVersion
  BY DEF Reviewed
<1>4. event[e].status \notin Past
  BY <1>3 DEF Reviewable, Past
<1>5. event[e].overlay.fund = None
  BY <1>1, <1>4 DEF Rows, Sound, Past
<1>6. f \in Source \cup {None} /\ d \in Debt \cup {None}
      /\ (d # None => p.type \in {"EXPENSE_OCCURRED", "OBLIGATION_CHANGED"})
  BY DEF FundLinks, DebtLinks
<1>q. QED
  BY <1>1, <1>2, <1>3, <1>4, <1>5, <1>6, FlaggedProposal

LEMMA SimulateStep ==
    ASSUME IInv, NEW e \in Event, NEW proposal \in Proposals,
           NEW f \in FundLinks(proposal), NEW d \in DebtLinks(proposal),
           Simulate(e, proposal, f, d)
    PROVE  IInv'
<1> DEFINE p == Flagged(e, proposal)
<1>1. Reviewed(e, p, f, d)
  BY DEF Simulate
<1>2. PICK s \in {"REVIEW_REQUIRED", "SIMULATED"} :
          event' = [event EXCEPT ![e] = [Stored(event[e], p, f, d) EXCEPT !.status = s]]
  BY DEF Simulate, IInv, Tables
<1>3. s \in EventStatus /\ s \notin Counting
  BY DEF EventStatus, Counting
<1>4. /\ event[e] \in EventRow /\ event[e].version < MaxVersion
      /\ event[e].status \notin Past /\ event[e].overlay.fund = None
      /\ p \in Proposal /\ (event[e].flagged => p.flagged)
      /\ f \in Source \cup {None} /\ d \in Debt \cup {None}
      /\ d # None => p.type \in {"EXPENSE_OCCURRED", "OBLIGATION_CHANGED"}
  BY <1>1, ReviewedRow
<1> HIDE DEF p
<1> DEFINE t == [Stored(event[e], p, f, d) EXCEPT !.status = s]
<1>5. /\ t \in EventRow /\ t.status = s /\ t.p = p /\ t.debt = d
      /\ t.flagged = event[e].flagged /\ t.overlay = event[e].overlay
  BY <1>3, <1>4, ReviewedType
<1>6. Sound(t)
  BY <1>3, <1>4, <1>5 DEF Sound
<1>7. event' = [event EXCEPT ![e] = t] /\ UNCHANGED <<fund, debt>>
  BY <1>2 DEF Simulate
<1>8. t.status \notin {"APPLIED", "RESOLVED", "CONFIRMED"}
  BY <1>3, <1>5 DEF Counting
<1>9. Clean \/ UNCHANGED <<plans, actions>>
  BY DEF Simulate, Clean, Retire
<1> HIDE DEF t
<1>q. QED
  BY <1>4, <1>5, <1>6, <1>7, <1>8, <1>9, ReviewStep

LEMMA ConfirmStep ==
    ASSUME IInv, NEW e \in Event, NEW proposal \in Proposals,
           NEW f \in FundLinks(proposal), NEW d \in DebtLinks(proposal),
           Confirm(e, proposal, f, d)
    PROVE  IInv'
<1> DEFINE p == Flagged(e, proposal)
           u == [Stored(event[e], p, f, d) EXCEPT !.status = "CONFIRMED"]
           confirmed == [event EXCEPT ![e] = u]
           h == StateOf(confirmed, fund, debt)
           t == [u EXCEPT !.hash = h]
<1>1. Reviewed(e, p, f, d) /\ ~p.flagged
  BY DEF Confirm, Confirmable
<1>2. /\ event[e] \in EventRow /\ event[e].version < MaxVersion
      /\ event[e].status \notin Past /\ event[e].overlay.fund = None
      /\ p \in Proposal /\ (event[e].flagged => p.flagged) /\ p.mode = proposal.mode
      /\ f \in Source \cup {None} /\ d \in Debt \cup {None}
      /\ d # None => p.type \in {"EXPENSE_OCCURRED", "OBLIGATION_CHANGED"}
  BY <1>1, ReviewedRow
<1>3. event' = [confirmed EXCEPT ![e].hash = h]
  BY DEF Confirm, Recorded, IInv, Tables
<1>4. "CONFIRMED" \in EventStatus /\ Tables
  BY DEF EventStatus, IInv
<1>5. /\ u \in EventRow /\ u.status = "CONFIRMED" /\ u.p = p /\ u.debt = d
      /\ u.flagged = event[e].flagged /\ u.overlay = event[e].overlay
  <2> HIDE DEF p
  <2>q. QED
    BY <1>2, <1>4, ReviewedType
<1>6. h \in State /\ event' = [event EXCEPT ![e] = t]
  <2> HIDE DEF u
  <2>1. confirmed \in [Event -> EventRow] /\ confirmed[e] = u
    BY <1>4, <1>5 DEF Tables
  <2>2. h \in State
    <3> HIDE DEF confirmed
    <3>q. QED
      BY <1>4, <2>1, StateType DEF Tables
  <2> HIDE DEF h
  <2>3. [confirmed EXCEPT ![e].hash = h] = [event EXCEPT ![e] = t]
    BY <1>4, <2>1 DEF Tables
  <2>q. QED
    BY <1>3, <2>2, <2>3
<1> HIDE DEF h
<1>7. /\ t \in EventRow /\ t.status = "CONFIRMED" /\ t.p = p /\ t.debt = d
      /\ t.flagged = event[e].flagged /\ t.overlay = event[e].overlay
  <2> HIDE DEF p, u
  <2>q. QED
    BY <1>5, <1>6, HashedType
<1>8. Sound(t)
  <2> HIDE DEF t, p
  <2>q. QED
    BY <1>1, <1>2, <1>7 DEF Sound
<1>9. \/ Clean
      \/ UNCHANGED <<plans, actions>> /\ p.mode = "HYPOTHETICAL"
  BY DEF Confirm, Clean, Retire
<1>10. UNCHANGED <<fund, debt>>
  BY DEF Confirm
<1> HIDE DEF t, p
<1>q. QED
  BY <1>2, <1>6, <1>7, <1>8, <1>9, <1>10, ReviewStep

-----------------------------------------------------------------------------
(* Application *)

\* What an event that can be applied is like, and its row afterwards.
LEMMA ApplicableRow ==
    ASSUME IInv, NEW e \in Event, Applicable(e)
    PROVE  /\ event[e] \in EventRow /\ event[e].p \in Proposal
           /\ event[e].status = "CONFIRMED" /\ ~event[e].flagged
           /\ event[e].overlay.fund = None /\ event[e].version < MaxVersion
           /\ event[e].fund \in Source \cup {None} /\ event[e].debt \in Debt \cup {None}
           /\ Applied(e) \in EventRow /\ Applied(e).status = "APPLIED"
           /\ Applied(e).p = event[e].p /\ Applied(e).debt = event[e].debt
           /\ Applied(e).flagged = event[e].flagged /\ Applied(e).overlay.fund = None
           /\ Applied(e).posted = event[e].p.amount
           /\ \A i \in 1..MaxDates : debt[<<e, i>>].status = "NONE"
<1>1. Tables /\ Rows /\ Born
  BY DEF IInv
<1>2. event[e] \in EventRow /\ event[e].status = "CONFIRMED" /\ event[e].version < MaxVersion
  BY <1>1 DEF Tables, Applicable, Pending, PendingIn
<1>3. ~event[e].flagged /\ event[e].overlay.fund = None
  BY <1>1, <1>2 DEF Rows, Sound, Counting
<1>4. event[e].p \in Proposal /\ event[e].fund \in Source \cup {None}
      /\ event[e].debt \in Debt \cup {None} /\ event[e].linked \in Source \cup {None}
      /\ event[e].overlay \in [fund : Source \cup {None}, lock : BOOLEAN, cap : Nat]
  BY <1>2, RowFields
<1>5. event[e].p.amount \in Nat /\ "APPLIED" \in EventStatus
  BY <1>4 DEF Proposal, EventStatus
<1> DEFINE m == Moved(event[e], "APPLIED")
           a == event[e].p.amount
           b == [m EXCEPT !.posted = a]
<1>6. Applied(e) = b
  BY DEF Applied
<1>7. /\ m \in EventRow /\ m.status = "APPLIED" /\ m.p = event[e].p
      /\ m.debt = event[e].debt /\ m.flagged = event[e].flagged /\ m.overlay = event[e].overlay
  BY <1>2, <1>4, <1>5, MovedType
<1> HIDE DEF m
<1>8. /\ b \in EventRow /\ b.status = "APPLIED" /\ b.p = event[e].p
      /\ b.debt = event[e].debt /\ b.flagged = event[e].flagged /\ b.overlay = event[e].overlay
      /\ b.posted = a
  BY <1>5, <1>7 DEF EventRow
<1>9. \A i \in 1..MaxDates : debt[<<e, i>>].status = "NONE"
  BY <1>1, <1>2 DEF Born, Past
<1> HIDE DEF b
<1>q. QED
  BY <1>2, <1>3, <1>4, <1>6, <1>8, <1>9

\* An application of another event than an expense.
LEMMA ApplyStep ==
    ASSUME IInv, NEW e \in Event, Applicable(e), event[e].p.type # "EXPENSE_OCCURRED",
           NEW t \in EventRow, t.status = "APPLIED", t.p = event[e].p,
           t.debt = event[e].debt, t.flagged = event[e].flagged,
           t.overlay.fund # None => event[e].p.type \in OVERLAYS,
           event' = [event EXCEPT ![e] = t],
           fund' \in [Source -> SourceRow],
           \A f \in Source : fund'[f].reserve <= fund'[f].amount,
           debt' \in [Debt -> DebtRow],
           \A x \in Event \ {e}, i \in 1..MaxDates :
               debt'[<<x, i>>].status # "NONE" => debt[<<x, i>>].status # "NONE",
           \A d \in Debt \ Bill :
              /\ debt'[d].status = "PAID" <=> debt[d].status = "PAID"
              /\ debt[d].status = "PAID" => debt'[d].amount = debt[d].amount,
           Replan
    PROVE  IInv'
<1>1. Tables /\ Rows /\ Born /\ SettledOnce
  BY DEF IInv
<1>2. Sound(t)
  <2>1. ~event[e].flagged /\ Sound(event[e])
    BY <1>1, ApplicableRow DEF Rows
  <2>q. QED
    BY <2>1 DEF Sound
<1>3. Tables' /\ Rows' /\ Born'
  <2>1. t.status \in Past
    BY DEF Past
  <2>2. \A x \in Event, i \in 1..MaxDates : debt'[<<x, i>>].status # "NONE" =>
            debt[<<x, i>>].status # "NONE" \/ (x = e /\ t.status \in Past)
    BY <2>1
  <2>q. QED
    BY <1>1, <1>2, <2>1, <2>2, RowStep
<1>4. /\ plans' \subseteq State /\ actions' \subseteq Action
      /\ NoPaymentBesidePending' /\ PlansKnowTheMoney'
  BY <1>3, CleanStep DEF Replan, Clean
<1>5. SettledOnce'
  <2>1. \A x \in Event : Keeps(event[x], event'[x])
    BY <1>1 DEF Tables, Keeps, Settling
  <2>q. QED
    BY <1>1, <2>1, SettledStep
<1>q. QED
  BY <1>3, <1>4, <1>5 DEF IInv

LEMMA ApplyFundingStep ==
    ASSUME IInv, NEW e \in Event, ApplyFunding(e)
    PROVE  IInv'
<1>1. Tables /\ Applicable(e) /\ event[e].p.type \in EXPECTED \cup Received
  BY DEF ApplyFunding, IInv
<1> DEFINE b == Applied(e)
           t == [b EXCEPT !.linked = e]
           row == [amount |-> event[e].p.amount, reserve |-> 0,
                   status |-> IF event[e].p.type \in Received THEN "AVAILABLE" ELSE "EXPECTED"]
           owed == [amount |-> event[e].p.amount, status |-> "OPEN", version |-> 1]
<1>2. event[e].p.amount \in Nat
  BY <1>1, ApplicableRow DEF Proposal
<1>3. row \in SourceRow /\ row.reserve <= row.amount /\ owed \in DebtRow /\ owed.status = "OPEN"
  BY <1>2 DEF SourceRow, FundStatus, DebtRow
<1>4. event' = [event EXCEPT ![e] = t] /\ fund' = [fund EXCEPT ![e] = row] /\ Replan
      /\ debt' = IF event[e].p.type = "BORROWING" THEN [debt EXCEPT ![<<e, 1>>] = owed] ELSE debt
  BY DEF ApplyFunding
<1>5. e \in Source /\ <<e, 1>> \in Debt
  BY InputAssumption DEF Source, Debt
<1>6. /\ t \in EventRow /\ t.status = "APPLIED" /\ t.p = event[e].p /\ t.debt = event[e].debt
      /\ t.flagged = event[e].flagged /\ t.overlay.fund = None
  <2>1. /\ b \in EventRow /\ b.status = "APPLIED" /\ b.p = event[e].p
        /\ b.debt = event[e].debt /\ b.flagged = event[e].flagged /\ b.overlay.fund = None
    BY <1>1, ApplicableRow
  <2> HIDE DEF b
  <2>q. QED
    BY <1>5, <2>1 DEF EventRow
<1>7. event[e].p.type # "EXPENSE_OCCURRED"
  BY <1>1, Types
<1>8. /\ fund' \in [Source -> SourceRow]
      /\ \A f \in Source : fund'[f].reserve <= fund'[f].amount
  <2> HIDE DEF row
  <2>q. QED
    BY <1>1, <1>3, <1>4, <1>5 DEF Tables
<1>9. /\ debt' \in [Debt -> DebtRow]
      /\ \A x \in Event \ {e}, i \in 1..MaxDates :
            debt'[<<x, i>>].status # "NONE" => debt[<<x, i>>].status # "NONE"
      /\ \A d \in Debt \ Bill :
            /\ debt'[d].status = "PAID" <=> debt[d].status = "PAID"
            /\ debt[d].status = "PAID" => debt'[d].amount = debt[d].amount
  <2>1. debt[<<e, 1>>].status = "NONE"
    BY <1>1, ApplicableRow, InputAssumption
  <2>2. debt \in [Debt -> DebtRow]
    BY <1>1 DEF Tables
  <2> HIDE DEF owed
  <2>3. \A d \in Debt : debt'[d] = debt[d] \/ (d = <<e, 1>> /\ debt'[d] = owed)
    BY <1>4, <2>2
  <2>4. debt' \in [Debt -> DebtRow]
    BY <1>3, <1>4, <2>2
  <2>5. \A x \in Event \ {e}, i \in 1..MaxDates : <<x, i>> \in Debt /\ <<x, i>> # <<e, 1>>
    BY DEF Debt
  <2>6. \A x \in Event \ {e}, i \in 1..MaxDates : debt'[<<x, i>>] = debt[<<x, i>>]
    BY <2>3, <2>5
  <2>7. \A d \in Debt \ Bill :
            /\ debt'[d].status = "PAID" <=> debt[d].status = "PAID"
            /\ debt[d].status = "PAID" => debt'[d].amount = debt[d].amount
    BY <1>3, <2>1, <2>3
  <2>q. QED
    BY <2>4, <2>6, <2>7
<1> HIDE DEF t
<1>q. QED
  BY <1>1, <1>4, <1>6, <1>7, <1>8, <1>9, ApplyStep

LEMMA ApplyObligationStep ==
    ASSUME IInv, NEW e \in Event, ApplyObligation(e)
    PROVE  IInv'
<1>1. Tables /\ Applicable(e) /\ event[e].p.type \in OBLIGATIONS
  BY DEF ApplyObligation, IInv
<1> DEFINE t == Applied(e)
           row == [amount |-> event[e].p.amount, status |-> "OPEN", version |-> 1]
<1>2. event[e].p.amount \in Nat
  BY <1>1, ApplicableRow DEF Proposal
<1>3. row \in DebtRow /\ row.status = "OPEN"
  BY <1>2 DEF DebtRow
<1>4. PICK dates \in SUBSET (1..MaxDates) :
          debt' = [d \in Debt |-> IF d \in {e} \X dates THEN row ELSE debt[d]]
  <2>1. 1 \in 1..MaxDates
    BY InputAssumption
  <2>2. CASE event[e].p.type = "RECURRING_EXPENSE"
    BY <2>2 DEF ApplyObligation
  <2>3. CASE event[e].p.type # "RECURRING_EXPENSE"
    BY <2>1, <2>3 DEF ApplyObligation
  <2>q. QED
    BY <2>2, <2>3
<1>5. event' = [event EXCEPT ![e] = t] /\ fund' = fund /\ Replan
  BY DEF ApplyObligation
<1>6. /\ t \in EventRow /\ t.status = "APPLIED" /\ t.p = event[e].p /\ t.debt = event[e].debt
      /\ t.flagged = event[e].flagged /\ t.overlay.fund = None
  BY <1>1, ApplicableRow
<1>7. event[e].p.type # "EXPENSE_OCCURRED"
  BY <1>1, Types
<1>8. /\ debt' \in [Debt -> DebtRow]
      /\ \A x \in Event \ {e}, i \in 1..MaxDates :
            debt'[<<x, i>>].status # "NONE" => debt[<<x, i>>].status # "NONE"
      /\ \A d \in Debt \ Bill :
            /\ debt'[d].status = "PAID" <=> debt[d].status = "PAID"
            /\ debt[d].status = "PAID" => debt'[d].amount = debt[d].amount
  <2>1. \A i \in 1..MaxDates : debt[<<e, i>>].status = "NONE"
    BY <1>1, ApplicableRow
  <2>2. debt \in [Debt -> DebtRow]
    BY <1>1 DEF Tables
  <2> HIDE DEF row
  <2>3. debt' \in [Debt -> DebtRow]
    BY <1>3, <1>4, <2>2
  <2>4. \A d \in Debt : debt'[d] = debt[d] \/ (debt'[d] = row /\ debt[d].status = "NONE")
    <3>1. ASSUME NEW d \in {e} \X dates
          PROVE  debt[d].status = "NONE"
      <4>1. d[2] \in dates /\ d = <<e, d[2]>>
        OBVIOUS
      <4>q. QED
        BY <2>1, <4>1
    <3>q. QED
      BY <1>4, <3>1
  <2>5. \A x \in Event \ {e}, i \in 1..MaxDates :
            <<x, i>> \in Debt /\ <<x, i>> \notin {e} \X dates
    BY DEF Debt
  <2>6. \A x \in Event \ {e}, i \in 1..MaxDates : debt'[<<x, i>>] = debt[<<x, i>>]
    BY <1>4, <2>5
  <2>q. QED
    BY <1>3, <2>3, <2>4, <2>6
<1>9. /\ fund' \in [Source -> SourceRow]
      /\ \A f \in Source : fund'[f].reserve <= fund'[f].amount
  BY <1>1, <1>5 DEF Tables
<1> HIDE DEF t
<1>q. QED
  BY <1>1, <1>5, <1>6, <1>7, <1>8, <1>9, ApplyStep

LEMMA ApplyChangeStep ==
    ASSUME IInv, NEW e \in Event, ApplyChange(e)
    PROVE  IInv'
<1>1. Tables /\ Applicable(e) /\ event[e].p.type = "OBLIGATION_CHANGED"
  BY DEF ApplyChange, IInv
<1> DEFINE t == Applied(e)
           d == event[e].debt
           a == IF event[e].p.delta THEN debt[d].amount + event[e].p.amount
                ELSE event[e].p.amount
           n == debt[d].version + 1
           row == [debt[d] EXCEPT !.amount = a, !.version = n]
<1>2. event[e].p.amount \in Nat
  BY <1>1, ApplicableRow DEF Proposal
<1>3. d # None /\ d \in Debt /\ debt[d].status = "OPEN"
  <2>1. d # None
    BY <1>1 DEF Applicable, MissingFields
  <2>2. d \in Debt
    BY <1>1, <2>1, ApplicableRow
  <2>q. QED
    BY <1>1, <2>1, <2>2 DEF Applicable, ValidLinks
<1>4. event' = [event EXCEPT ![e] = t] /\ fund' = fund /\ Replan
      /\ debt' = [debt EXCEPT ![d] = row]
  <2>1. event' = [event EXCEPT ![e] = t] /\ fund' = fund /\ Replan
    BY DEF ApplyChange
  <2>2. debt' = [debt EXCEPT ![d] = row]
    BY DEF ApplyChange
  <2>q. QED
    BY <2>1, <2>2
<1>5. row \in DebtRow /\ row.status = "OPEN"
  <2>1. debt[d] \in DebtRow /\ debt[d].amount \in Nat /\ debt[d].version \in Nat
    BY <1>1, <1>3 DEF Tables, DebtRow
  <2>2. a \in Nat /\ n \in Nat
    BY <1>2, <2>1
  <2> HIDE DEF a, n, d
  <2>q. QED
    BY <1>3, <2>1, <2>2 DEF DebtRow
<1> HIDE DEF row
<1>6. /\ t \in EventRow /\ t.status = "APPLIED" /\ t.p = event[e].p /\ t.debt = event[e].debt
      /\ t.flagged = event[e].flagged /\ t.overlay.fund = None
  BY <1>1, ApplicableRow
<1>7. /\ debt' \in [Debt -> DebtRow]
      /\ \A x \in Debt : debt'[x] = debt[x] \/ (debt[x].status = "OPEN" /\ debt'[x] = row)
  BY <1>1, <1>3, <1>4, <1>5 DEF Tables
<1>8. /\ \A x \in Event \ {e}, i \in 1..MaxDates :
            debt'[<<x, i>>].status # "NONE" => debt[<<x, i>>].status # "NONE"
      /\ \A x \in Debt \ Bill :
            /\ debt'[x].status = "PAID" <=> debt[x].status = "PAID"
            /\ debt[x].status = "PAID" => debt'[x].amount = debt[x].amount
  <2>1. \A x \in Event, i \in 1..MaxDates : <<x, i>> \in Debt
    BY DEF Debt
  <2>q. QED
    BY <1>5, <1>7, <2>1
<1>9. /\ fund' \in [Source -> SourceRow]
      /\ \A f \in Source : fund'[f].reserve <= fund'[f].amount
  BY <1>1, <1>4 DEF Tables
<1> HIDE DEF t
<1>q. QED
  BY <1>1, <1>4, <1>6, <1>7, <1>8, <1>9, ApplyStep

\* The cap a report records is an amount.
LEMMA CapType ==
    ASSUME NEW x \in Nat, NEW y \in Nat
    PROVE  Max({0, x - y}) \in Nat /\ Min({x, y}) \in Nat
<1>1. Min({x, y}) \in Nat
  <2>1. {x, y} \in SUBSET Nat /\ {x, y} # {}
    OBVIOUS
  <2>q. QED
    BY <2>1, Smallest
<1>2. PICK z \in {0, x - y} : \A w \in {0, x - y} : z >= w
  <2>1. CASE x - y >= 0
    BY <2>1
  <2>2. CASE ~(x - y >= 0)
    BY <2>2
  <2>q. QED
    BY <2>1, <2>2
<1>3. Max({0, x - y}) \in {0, x - y} /\ Max({0, x - y}) >= 0
  <2>1. \A w \in {0, x - y} : Max({0, x - y}) >= w /\ Max({0, x - y}) \in {0, x - y}
    BY <1>2 DEF Max
  <2>q. QED
    BY <2>1
<1>q. QED
  BY <1>1, <1>3

LEMMA ApplyReportStep ==
    ASSUME IInv, NEW e \in Event, ApplyReport(e)
    PROVE  IInv'
<1>1. Tables /\ Applicable(e) /\ event[e].p.type \in OVERLAYS
  BY DEF ApplyReport, IInv
<1> DEFINE b == Applied(e)
           f == event[e].fund
           shown == Projected(f, event, fund[f]).amount
           cap == IF event[e].p.delta THEN Max({0, shown - event[e].p.amount})
                  ELSE Min({shown, event[e].p.amount})
           o == IF event[e].p.type = "FUNDING_REDUCED"
                THEN [fund |-> f, lock |-> FALSE, cap |-> cap]
                ELSE [fund |-> f, lock |-> TRUE, cap |-> 0]
           t == [b EXCEPT !.overlay = o]
<1>2. event[e].p.amount \in Nat
  BY <1>1, ApplicableRow DEF Proposal
<1>3. f \in Source
  <2>1. f # None
    BY <1>1 DEF Applicable, MissingFields
  <2>q. QED
    BY <1>1, <2>1, ApplicableRow
<1>4. shown \in Nat
  BY <1>1, <1>3, ProjectedType DEF Tables, SourceRow
<1>5. cap \in Nat
  <2> HIDE DEF shown
  <2>q. QED
    BY <1>2, <1>4, CapType
<1>6. event' = [event EXCEPT ![e] = t] /\ UNCHANGED <<fund, debt>> /\ Replan
  BY DEF ApplyReport
<1>7. o \in [fund : Source \cup {None}, lock : BOOLEAN, cap : Nat]
  <2> HIDE DEF cap, f
  <2>q. QED
    BY <1>3, <1>5
<1>8. /\ t \in EventRow /\ t.status = "APPLIED" /\ t.p = event[e].p /\ t.debt = event[e].debt
      /\ t.flagged = event[e].flagged
  <2>1. /\ b \in EventRow /\ b.status = "APPLIED" /\ b.p = event[e].p
        /\ b.debt = event[e].debt /\ b.flagged = event[e].flagged
    BY <1>1, ApplicableRow
  <2> HIDE DEF b, o
  <2>q. QED
    BY <1>7, <2>1 DEF EventRow
<1>9. event[e].p.type # "EXPENSE_OCCURRED"
  BY <1>1, Types
<1>10. /\ fund' \in [Source -> SourceRow] /\ debt' \in [Debt -> DebtRow]
       /\ \A x \in Source : fund'[x].reserve <= fund'[x].amount
  BY <1>1, <1>6 DEF Tables
<1>11. /\ \A x \in Event \ {e}, i \in 1..MaxDates :
             debt'[<<x, i>>].status # "NONE" => debt[<<x, i>>].status # "NONE"
       /\ \A x \in Debt \ Bill :
             /\ debt'[x].status = "PAID" <=> debt[x].status = "PAID"
             /\ debt[x].status = "PAID" => debt'[x].amount = debt[x].amount
  BY <1>6
<1> HIDE DEF t
<1>q. QED
  BY <1>1, <1>6, <1>8, <1>9, <1>10, <1>11, ApplyStep

\* The event of what is owed back.
LEMMA ChildType ==
    ASSUME NEW p \in Proposal
    PROVE  /\ ChildOf(p) \in EventRow /\ ChildOf(p).status = "REVIEW_REQUIRED"
           /\ ChildOf(p).p.type = "REIMBURSEMENT_EXPECTED" /\ Sound(ChildOf(p))
<1> DEFINE a == Receivable(p)
           q == [NoProposal EXCEPT !.type = "REIMBURSEMENT_EXPECTED", !.mode = "EXPECTED",
                                   !.amount = a]
<1>1. a \in Nat
  BY DEF Receivable, Proposal
<1>2. NoProposal \in Proposal /\ NoProposal.flagged = FALSE
  BY DEF NoProposal, Proposal, EventType, NeverApplied
<1>3. "REIMBURSEMENT_EXPECTED" \in EventType
  BY DEF EventType, EXPECTED
<1> HIDE DEF a
<1>4. q \in Proposal /\ q.type = "REIMBURSEMENT_EXPECTED" /\ q.flagged = FALSE
  BY <1>1, <1>2, <1>3 DEF Proposal
<1> HIDE DEF q
<1>5. "REVIEW_REQUIRED" \in EventStatus /\ "REVIEW_REQUIRED" \notin Counting
  BY DEF EventStatus, Counting
<1>6. ChildOf(p) = New(q, "REVIEW_REQUIRED")
  BY DEF ChildOf, q, a
<1>q. QED
  BY <1>4, <1>5, <1>6, NewType DEF Sound

LEMMA ApplyExpenseStep ==
    ASSUME IInv, NEW e \in Event, ApplyExpense(e)
    PROVE  IInv'
<1> DEFINE t == Applied(e)
           a == event[e].p.amount
           f == event[e].fund
           g == event[e].debt
           child == ChildOf(event[e].p)
<1>1. /\ Tables /\ Rows /\ Born /\ SettledOnce
      /\ Applicable(e) /\ event[e].p.type \in EXPENSES /\ Covers(f, a) /\ Replan
  BY DEF ApplyExpense, IInv
<1>2. /\ t \in EventRow /\ t.status = "APPLIED" /\ t.p = event[e].p /\ t.debt = g
      /\ t.flagged = event[e].flagged /\ t.overlay.fund = None /\ t.posted = a
      /\ event[e].status = "CONFIRMED" /\ ~event[e].flagged /\ event[e].p \in Proposal
  BY <1>1, ApplicableRow
<1>3. a \in Nat
  BY <1>2 DEF Proposal
<1>4. f \in Source
  <2>1. f # None
    BY <1>1 DEF Applicable, MissingFields
  <2>q. QED
    BY <1>1, <2>1, ApplicableRow
<1>5. /\ child \in EventRow /\ child.status = "REVIEW_REQUIRED"
      /\ child.p.type = "REIMBURSEMENT_EXPECTED" /\ Sound(child)
  BY <1>2, ChildType
<1>6. /\ fund' \in [Source -> SourceRow]
      /\ \A x \in Source : fund'[x].reserve <= fund'[x].amount
  <2> DEFINE rest == fund[f].amount - a
             row == [fund[f] EXCEPT !.amount = rest]
  <2>1. fund[f] \in SourceRow /\ fund[f].amount \in Nat /\ fund[f].reserve \in Nat
    BY <1>1, <1>4 DEF Tables, SourceRow
  <2>2. rest >= fund[f].reserve /\ rest \in Nat
    BY <1>1, <1>3, <2>1 DEF Covers
  <2>3. fund' = [fund EXCEPT ![f] = row]
    BY DEF ApplyExpense
  <2> HIDE DEF rest
  <2>4. row \in SourceRow /\ row.reserve <= row.amount
    BY <2>1, <2>2 DEF SourceRow
  <2> HIDE DEF row, f
  <2>q. QED
    BY <1>1, <1>4, <2>3, <2>4 DEF Tables
<1>7. /\ g # None => /\ g \in Debt \ Bill /\ debt[g].status = "OPEN" /\ debt[g].amount = a
                     /\ event[e].p.type = "EXPENSE_OCCURRED"
      /\ debt' = [d \in Debt |-> IF d \in {g} \ {None}
                                  THEN [debt[d] EXCEPT !.status = "PAID", !.version = @ + 1]
                                  ELSE debt[d]]
  <2>1. g # None => event[e].p.type = "EXPENSE_OCCURRED" /\ g \in Debt
    BY <1>1, ApplicableRow, Types DEF Rows, Sound
  <2>2. g # None => debt[g].status = "OPEN" /\ g \notin Bill /\ debt[g].amount = a
    BY <1>1, <2>1 DEF Applicable, ValidLinks
  <2>q. QED
    BY <2>1, <2>2 DEF ApplyExpense
<1>8. /\ debt' \in [Debt -> DebtRow]
      /\ \A d \in Debt : d # g => debt'[d] = debt[d]
      /\ g # None => debt'[g].status = "PAID" /\ debt'[g].amount = debt[g].amount
  <2>1. ASSUME NEW d \in Debt
        PROVE  LET n == debt[d].version + 1
                   r == [debt[d] EXCEPT !.status = "PAID", !.version = n]
               IN  r \in DebtRow /\ r.status = "PAID" /\ r.amount = debt[d].amount
    <3> DEFINE n == debt[d].version + 1
    <3>1. debt[d] \in DebtRow /\ n \in Nat
      BY <1>1 DEF Tables, DebtRow
    <3> HIDE DEF n
    <3>2. [debt[d] EXCEPT !.status = "PAID", !.version = n] \in DebtRow
          /\ [debt[d] EXCEPT !.status = "PAID", !.version = n].status = "PAID"
          /\ [debt[d] EXCEPT !.status = "PAID", !.version = n].amount = debt[d].amount
      BY <3>1 DEF DebtRow
    <3>q. QED
      BY <3>2 DEF n
  <2>2. \A d \in Debt : debt[d] \in DebtRow
    BY <1>1 DEF Tables
  <2> HIDE DEF g
  <2>q. QED
    BY <1>7, <2>1, <2>2
<1>9. PICK children \in FreeChildren(event[e].p) :
          event' = [x \in Event |-> IF x = e THEN t
                                    ELSE IF x \in children THEN child ELSE event[x]]
  BY DEF ApplyExpense
<1>10. /\ event'[e] = t
       /\ \A x \in Event : \/ x = e
                           \/ event[x].status = "NONE" /\ event'[x] = child
                           \/ event'[x] = event[x]
       /\ event' \in [Event -> EventRow]
  <2>1. \A x \in children : event[x].status = "NONE"
    BY DEF FreeChildren
  <2>2. \A x \in Event : event[x] \in EventRow
    BY <1>1 DEF Tables
  <2> HIDE DEF t, child
  <2>q. QED
    BY <1>2, <1>5, <1>9, <2>1, <2>2
<1> HIDE DEF t, child
<1>11. Tables' /\ Rows'
  <2>1. Sound(t)
    BY <1>1, <1>2, <1>7 DEF Sound
  <2>2. Rows'
    BY <1>1, <1>5, <1>10, <2>1 DEF Rows
  <2>q. QED
    BY <1>6, <1>8, <1>10, <2>2 DEF Tables
<1>12. Born'
  <2>1. SUFFICES ASSUME NEW x \in Event, NEW i \in 1..MaxDates,
                        debt'[<<x, i>>].status # "NONE"
                 PROVE  event'[x].status \in Past
    BY DEF Born
  <2>2. <<x, i>> \in Debt
    BY DEF Debt
  <2>3. debt[<<x, i>>].status # "NONE"
    BY <1>7, <1>8, <2>1, <2>2, SlotAssumption
  <2>4. event[x].status \in Past
    BY <1>1, <2>3 DEF Born
  <2>q. QED
    BY <1>2, <1>10, <2>4 DEF Past
<1>13. SettledOnce'
  <2> DEFINE Before(x, d) == Settling(event[x]) /\ event[x].debt = d
             Then(x, d) == Settling(event'[x]) /\ event'[x].debt = d
  <2>1. ASSUME NEW x \in Event \ {e}, NEW d \in Debt \ Bill
        PROVE  /\ Then(x, d) <=> Before(x, d)
               /\ Before(x, d) => event'[x].posted = event[x].posted
    BY <1>5, <1>10 DEF Settling
  <2>2. \A d \in Debt \ Bill : ~Before(e, d)
    BY <1>2 DEF Settling
  <2>3. \A d \in Debt \ Bill : Then(e, d) <=> (d = g /\ g # None)
    BY <1>2, <1>7, <1>10, SlotAssumption, Types DEF Settling
  <2>4. \A d \in Debt \ Bill :
            /\ debt[d].status = "PAID" =>
                  \E x \in Event : Before(x, d) /\ event[x].posted = debt[d].amount
            /\ \A x \in Event : Before(x, d) =>
                  /\ debt[d].status = "PAID"
                  /\ \A y \in Event : Before(y, d) => y = x
    BY <1>1 DEF SettledOnce, Settles, Counted, Settling
  <2>5. SUFFICES ASSUME NEW d \in Debt \ Bill
                 PROVE  /\ debt'[d].status = "PAID" =>
                             \E x \in Event : Then(x, d) /\ event'[x].posted = debt'[d].amount
                        /\ \A x \in Event : Then(x, d) =>
                             /\ debt'[d].status = "PAID"
                             /\ \A y \in Event : Then(y, d) => y = x
    BY DEF SettledOnce, Settles, Counted, Settling
  <2> HIDE DEF Before, Then
  <2>6. CASE d = g
    <3>1. debt[d].status = "OPEN" /\ debt'[d].status = "PAID" /\ debt'[d].amount = a
      BY <1>7, <1>8, <2>6, SlotAssumption
    <3>2. \A x \in Event \ {e} : ~Then(x, d)
      BY <2>1, <2>4, <3>1
    <3>3. Then(e, d) /\ event'[e].posted = a
      BY <1>2, <1>10, <2>3, <2>6, SlotAssumption
    <3>q. QED
      BY <3>1, <3>2, <3>3
  <2>7. CASE d # g
    <3>1. debt'[d] = debt[d]
      BY <1>8, <2>7
    <3>2. \A x \in Event : /\ Then(x, d) <=> Before(x, d)
                           /\ Before(x, d) => event'[x].posted = event[x].posted
      BY <2>1, <2>2, <2>3, <2>7
    <3>q. QED
      BY <2>4, <3>1, <3>2
  <2>q. QED
    BY <2>6, <2>7
<1>14. /\ plans' \subseteq State /\ actions' \subseteq Action
       /\ NoPaymentBesidePending' /\ PlansKnowTheMoney'
  BY <1>1, <1>11, CleanStep DEF Replan, Clean
<1>q. QED
  BY <1>11, <1>12, <1>13, <1>14 DEF IInv

-----------------------------------------------------------------------------
(* Afterwards *)

\* A step that writes one row, settles nothing and applies nothing.
LEMMA AfterStep ==
    ASSUME IInv, NEW e \in Event, NEW t \in EventRow, Sound(t),
           event' = [event EXCEPT ![e] = t],
           event[e].status \in Past => t.status \in Past,
           Keeps(event[e], t),
           fund' \in [Source -> SourceRow],
           \A f \in Source : fund'[f].reserve <= fund'[f].amount,
           debt' \in [Debt -> DebtRow],
           \A d \in Debt : /\ debt'[d].status = debt[d].status
                           /\ debt[d].status = "PAID" => debt'[d].amount = debt[d].amount,
           \/ Clean
           \/ /\ UNCHANGED <<fund, debt, plans, actions>>
              /\ \/ t.status # "CONFIRMED"
                 \/ event[e].status = "CONFIRMED" /\ t.p = event[e].p
              /\ \/ t.status = event[e].status /\ t.overlay = event[e].overlay
                 \/ /\ event[e].status # "APPLIED" \/ event[e].overlay.fund = None
                    /\ t.status # "APPLIED" \/ t.overlay.fund = None
    PROVE  IInv'
<1>1. Tables /\ Rows /\ Born /\ SettledOnce
  BY DEF IInv
<1>2. Tables' /\ Rows' /\ Born'
  <2>1. \A x \in Event, i \in 1..MaxDates : debt'[<<x, i>>].status # "NONE" =>
            debt[<<x, i>>].status # "NONE" \/ (x = e /\ t.status \in Past)
    BY DEF Debt
  <2>q. QED
    BY <1>1, <2>1, RowStep
<1>3. /\ plans' \subseteq State /\ actions' \subseteq Action
      /\ NoPaymentBesidePending' /\ PlansKnowTheMoney'
  <2>1. CASE Clean
    BY <2>1, <1>2, CleanStep
  <2>2. CASE ~Clean
    <3>1. t.status = "CONFIRMED" /\ t.p.mode # "HYPOTHETICAL" => e \in Pending
      BY <2>2 DEF Pending, PendingIn
    <3>q. QED
      BY <2>2, <3>1, QuietStep DEF IInv
  <2>q. QED
    BY <2>1, <2>2
<1>4. SettledOnce'
  <2>1. \A x \in Event : Keeps(event[x], event'[x])
    BY <1>1 DEF Tables, Keeps
  <2>q. QED
    BY <1>1, <2>1, SettledStep
<1>q. QED
  BY <1>2, <1>3, <1>4 DEF IInv

\* What a row that moves keeps.
LEMMA MovedRow ==
    ASSUME IInv, NEW e \in Event, event[e].version < MaxVersion, NEW s \in EventStatus
    PROVE  LET m == Moved(event[e], s)
           IN  /\ event[e] \in EventRow /\ Sound(event[e])
               /\ m \in EventRow /\ m.status = s /\ m.p = event[e].p /\ m.debt = event[e].debt
               /\ m.flagged = event[e].flagged /\ m.overlay = event[e].overlay
               /\ m.posted = event[e].posted
               /\ event[e].linked \in Source \cup {None}
<1>1. event[e] \in EventRow /\ Sound(event[e])
  BY DEF IInv, Tables, Rows
<1>q. QED
  BY <1>1, MovedType, RowFields

LEMMA DismissStep ==
    ASSUME IInv, NEW e \in Event, Dismiss(e)
    PROVE  IInv'
<1> DEFINE t == Moved(event[e], "DISMISSED")
           cancelled == IF event[e].status = "APPLIED" THEN {event[e].linked} \ {None} ELSE {}
<1>1. /\ event[e].status \notin Closed /\ event[e].version < MaxVersion
      /\ event[e].status = "APPLIED" => event[e].p.type \in EXPECTED
      /\ event' = [event EXCEPT ![e] = t] /\ debt' = debt
      /\ fund' = [f \in Source |-> IF f \in cancelled
                                   THEN [fund[f] EXCEPT !.status = "DISPUTED"] ELSE fund[f]]
  BY DEF Dismiss, IInv, Tables
<1>2. /\ event[e] \in EventRow /\ Sound(event[e])
      /\ t \in EventRow /\ t.status = "DISMISSED" /\ t.p = event[e].p /\ t.debt = event[e].debt
      /\ t.flagged = event[e].flagged /\ t.overlay = event[e].overlay
  <2>1. "DISMISSED" \in EventStatus
    BY DEF EventStatus
  <2>q. QED
    BY <1>1, <2>1, MovedRow
<1> HIDE DEF t
<1>3. Sound(t) /\ event[e].overlay.fund = None
  BY <1>1, <1>2, Types DEF Sound, Closed, Counting
<1>4. /\ fund' \in [Source -> SourceRow]
      /\ \A f \in Source : fund'[f].reserve <= fund'[f].amount
  <2>1. \A f \in Source :
          LET row == [fund[f] EXCEPT !.status = "DISPUTED"]
          IN  row \in SourceRow /\ row.reserve <= row.amount
    BY DEF IInv, Tables, SourceRow, FundStatus
  <2>2. \A f \in Source : fund[f] \in SourceRow /\ fund[f].reserve <= fund[f].amount
    BY DEF IInv, Tables
  <2> HIDE DEF cancelled
  <2>q. QED
    BY <1>1, <2>1, <2>2
<1>5. debt' \in [Debt -> DebtRow]
  BY <1>1 DEF IInv, Tables
<1>6. Keeps(event[e], t)
  BY <1>1, <1>2, Types DEF Keeps, Settling, Closed
<1>7. t.status \in Past /\ t.status # "APPLIED"
  BY <1>2 DEF Past
<1>8. Clean \/ UNCHANGED <<fund, debt, plans, actions>>
  <2>1. CASE HasWeight(e)
    BY <2>1 DEF Dismiss, Invalidate, Clean
  <2>2. CASE ~HasWeight(e)
    <3>1. cancelled = {} /\ UNCHANGED <<plans, actions>>
      BY <2>2 DEF HasWeight, Dismiss
    <3>2. fund \in [Source -> SourceRow]
      BY DEF IInv, Tables
    <3> HIDE DEF cancelled
    <3>q. QED
      BY <1>1, <3>1, <3>2
  <2>q. QED
    BY <2>1, <2>2
<1>9. \A d \in Debt : /\ debt'[d].status = debt[d].status
                      /\ debt[d].status = "PAID" => debt'[d].amount = debt[d].amount
  BY <1>1
<1>q. QED
  BY <1>1, <1>2, <1>3, <1>4, <1>5, <1>6, <1>7, <1>8, <1>9, AfterStep

LEMMA ReceiveStep ==
    ASSUME IInv, NEW e \in Event, Receive(e)
    PROVE  IInv'
<1> DEFINE m == Moved(event[e], "RESOLVED")
           l == IF event[e].linked = None THEN e ELSE event[e].linked
           t == [m EXCEPT !.linked = l]
<1>1. /\ event[e].p.type \in EXPECTED /\ ~event[e].p.flagged /\ event[e].version < MaxVersion
      /\ event' = [event EXCEPT ![e] = t] /\ debt' = debt /\ Clean
  BY DEF Receive, Invalidate, Clean, IInv, Tables
<1>2. /\ event[e] \in EventRow /\ Sound(event[e]) /\ event[e].linked \in Source \cup {None}
      /\ m \in EventRow /\ m.status = "RESOLVED" /\ m.p = event[e].p /\ m.debt = event[e].debt
      /\ m.flagged = event[e].flagged /\ m.overlay = event[e].overlay
  <2>1. "RESOLVED" \in EventStatus
    BY DEF EventStatus
  <2>q. QED
    BY <1>1, <2>1, MovedRow
<1>3. l \in Source /\ e \in Source
  BY <1>2 DEF Source
<1> HIDE DEF m, l
<1>4. /\ t \in EventRow /\ t.status = "RESOLVED" /\ t.p = event[e].p /\ t.debt = event[e].debt
      /\ t.flagged = event[e].flagged /\ t.overlay = event[e].overlay
  BY <1>2, <1>3 DEF EventRow
<1> HIDE DEF t
<1>5. Sound(t)
  BY <1>1, <1>2, <1>4 DEF Sound
<1>6. /\ fund' \in [Source -> SourceRow]
      /\ \A f \in Source : fund'[f].reserve <= fund'[f].amount
  <2>1. event[e].p.amount \in Nat
    BY <1>2, RowFields DEF Proposal
  <2> DEFINE row == [amount |-> event[e].p.amount, reserve |-> 0, status |-> "AVAILABLE"]
             got == [fund[l] EXCEPT !.status = "AVAILABLE"]
  <2>2. row \in SourceRow /\ row.reserve <= row.amount
    BY <2>1 DEF SourceRow, FundStatus
  <2>3. got \in SourceRow /\ got.reserve <= got.amount
    BY <1>3 DEF IInv, Tables, SourceRow, FundStatus
  <2>4. fund' = [fund EXCEPT ![e] = row] \/ fund' = [fund EXCEPT ![l] = got]
    BY DEF Receive, l
  <2>5. \A f \in Source : fund[f] \in SourceRow /\ fund[f].reserve <= fund[f].amount
    BY DEF IInv, Tables
  <2>6. fund \in [Source -> SourceRow]
    BY DEF IInv, Tables
  <2> HIDE DEF row, got
  <2>q. QED
    BY <1>3, <2>2, <2>3, <2>4, <2>5, <2>6
<1>7. debt' \in [Debt -> DebtRow]
  BY <1>1 DEF IInv, Tables
<1>8. Keeps(event[e], t)
  BY <1>1, <1>4, Types DEF Keeps, Settling
<1>9. t.status \in Past
  BY <1>4 DEF Past
<1>10. \A d \in Debt : /\ debt'[d].status = debt[d].status
                       /\ debt[d].status = "PAID" => debt'[d].amount = debt[d].amount
  BY <1>1
<1>q. QED
  BY <1>1, <1>4, <1>5, <1>6, <1>7, <1>8, <1>9, <1>10, AfterStep

LEMMA ResolveStep ==
    ASSUME IInv, NEW e \in Event, Resolve(e)
    PROVE  IInv'
<1> DEFINE t == Moved(event[e], "RESOLVED")
<1>1. /\ event[e].status = "APPLIED" /\ event[e].version < MaxVersion
      /\ event' = [event EXCEPT ![e] = t] /\ UNCHANGED <<fund, debt>>
  BY DEF Resolve, IInv, Tables
<1>2. /\ event[e] \in EventRow /\ Sound(event[e])
      /\ t \in EventRow /\ t.status = "RESOLVED" /\ t.p = event[e].p /\ t.debt = event[e].debt
      /\ t.flagged = event[e].flagged /\ t.overlay = event[e].overlay
      /\ t.posted = event[e].posted
  <2>1. "RESOLVED" \in EventStatus
    BY DEF EventStatus
  <2>q. QED
    BY <1>1, <2>1, MovedRow
<1> HIDE DEF t
<1>3. Sound(t)
  BY <1>1, <1>2 DEF Sound, Counting
<1>4. /\ fund' \in [Source -> SourceRow] /\ debt' \in [Debt -> DebtRow]
      /\ \A f \in Source : fund'[f].reserve <= fund'[f].amount
  BY <1>1 DEF IInv, Tables
<1>5. Keeps(event[e], t)
  BY <1>1, <1>2 DEF Keeps, Settling
<1>6. t.status \in Past /\ t.status # "APPLIED" /\ t.status # "CONFIRMED"
  BY <1>2 DEF Past
<1>7. Clean \/ (UNCHANGED <<fund, debt, plans, actions>> /\ event[e].overlay.fund = None)
  <2>1. CASE event[e].p.type \in OVERLAYS
    BY <2>1 DEF Resolve, Invalidate, Clean
  <2>2. CASE event[e].p.type \notin OVERLAYS
    BY <2>2, <1>2 DEF Resolve, Sound
  <2>q. QED
    BY <2>1, <2>2
<1>8. \A d \in Debt : /\ debt'[d].status = debt[d].status
                      /\ debt[d].status = "PAID" => debt'[d].amount = debt[d].amount
  BY <1>1
<1>q. QED
  BY <1>1, <1>2, <1>3, <1>4, <1>5, <1>6, <1>7, <1>8, AfterStep

LEMMA ReminderStep ==
    ASSUME IInv, NEW e \in Event, Reminder(e)
    PROVE  IInv'
<1> DEFINE n == event[e].version + 1
           t == [event[e] EXCEPT !.version = n]
<1>1. /\ event[e].version < MaxVersion /\ event' = [event EXCEPT ![e] = t]
      /\ UNCHANGED <<fund, debt, plans, actions>>
  BY DEF Reminder, IInv, Tables
<1>2. event[e] \in EventRow /\ Sound(event[e])
  BY DEF IInv, Tables, Rows
<1>3. n \in 0..MaxVersion
  BY <1>1, <1>2, RowFields, InputAssumption
<1> HIDE DEF n
<1>4. /\ t \in EventRow /\ t.status = event[e].status /\ t.p = event[e].p
      /\ t.debt = event[e].debt /\ t.flagged = event[e].flagged
      /\ t.overlay = event[e].overlay /\ t.posted = event[e].posted
  BY <1>2, <1>3 DEF EventRow
<1> HIDE DEF t
<1>5. Sound(t) /\ Keeps(event[e], t)
  BY <1>2, <1>4 DEF Sound, Keeps, Settling
<1>6. /\ fund' \in [Source -> SourceRow] /\ debt' \in [Debt -> DebtRow]
      /\ \A f \in Source : fund'[f].reserve <= fund'[f].amount
  BY <1>1 DEF IInv, Tables
<1>7. \A d \in Debt : /\ debt'[d].status = debt[d].status
                      /\ debt[d].status = "PAID" => debt'[d].amount = debt[d].amount
  BY <1>1
<1>q. QED
  BY <1>1, <1>4, <1>5, <1>6, <1>7, AfterStep

LEMMA ChangeRecurrenceStep ==
    ASSUME IInv, NEW e \in Event, NEW amount \in Amounts, ChangeRecurrence(e, amount)
    PROVE  IInv'
<1> DEFINE p == [event[e].p EXCEPT !.amount = amount]
           t == Stored(event[e], p, event[e].fund, event[e].debt)
           dates == {d \in {e} \X (1..MaxDates) : debt[d].status = "OPEN"}
<1>1. /\ event[e].status = "APPLIED" /\ event[e].version < MaxVersion
      /\ event' = [event EXCEPT ![e] = t] /\ UNCHANGED fund /\ Clean
      /\ debt' = [d \in Debt |-> IF d \in dates
                                  THEN [debt[d] EXCEPT !.amount = amount, !.version = @ + 1]
                                  ELSE debt[d]]
  BY DEF ChangeRecurrence, IInv, Tables, Invalidate, Clean
<1>2. event[e] \in EventRow /\ Sound(event[e]) /\ amount \in Nat
  BY InputAssumption DEF IInv, Tables, Rows
<1>3. p \in Proposal /\ p.type = event[e].p.type /\ p.flagged = event[e].p.flagged
  BY <1>2, RowFields DEF Proposal
<1> HIDE DEF p
<1>4. /\ t \in EventRow /\ t.status = event[e].status /\ t.p = p
      /\ t.debt = event[e].debt /\ t.flagged = event[e].flagged
      /\ t.overlay = event[e].overlay /\ t.posted = event[e].posted
  <2>1. event[e].fund \in Source \cup {None} /\ event[e].debt \in Debt \cup {None}
    BY <1>2, RowFields
  <2>2. event[e] \in EventRow /\ event[e].version < MaxVersion /\ p \in Proposal
    BY <1>1, <1>2, <1>3
  <2>q. QED
    BY ONLY <2>1, <2>2, StoredType DEF t
<1> HIDE DEF t
<1>5. Sound(t) /\ Keeps(event[e], t)
  BY <1>2, <1>3, <1>4 DEF Sound, Keeps, Settling
<1>6. /\ fund' \in [Source -> SourceRow]
      /\ \A f \in Source : fund'[f].reserve <= fund'[f].amount
  BY <1>1 DEF IInv, Tables
<1>7. /\ debt' \in [Debt -> DebtRow]
      /\ \A d \in Debt : /\ debt'[d].status = debt[d].status
                         /\ debt[d].status = "PAID" => debt'[d].amount = debt[d].amount
  <2>1. ASSUME NEW d \in Debt
        PROVE  LET n == debt[d].version + 1
                   r == [debt[d] EXCEPT !.amount = amount, !.version = n]
               IN  r \in DebtRow /\ r.status = debt[d].status
    <3> DEFINE n == debt[d].version + 1
    <3>1. debt[d] \in DebtRow /\ n \in Nat
      BY DEF IInv, Tables, DebtRow
    <3> HIDE DEF n
    <3>2. [debt[d] EXCEPT !.amount = amount, !.version = n] \in DebtRow
          /\ [debt[d] EXCEPT !.amount = amount, !.version = n].status = debt[d].status
      BY <1>2, <3>1 DEF DebtRow
    <3>q. QED
      BY <3>2 DEF n
  <2>2. \A d \in Debt : debt[d] \in DebtRow
    BY DEF IInv, Tables
  <2>3. \A d \in dates : debt[d].status = "OPEN"
    OBVIOUS
  <2> HIDE DEF dates
  <2>q. QED
    BY <1>1, <2>1, <2>2, <2>3
<1>q. QED
  BY <1>1, <1>4, <1>5, <1>6, <1>7, AfterStep

-----------------------------------------------------------------------------
(* The rest of the application *)

LEMMA PatchFundStep ==
    ASSUME IInv, NEW c \in Corrections, PatchFund(c.source, c.amount, c.status)
    PROVE  IInv'
<1> DEFINE f == c.source
           row == [fund[f] EXCEPT !.amount = c.amount, !.status = c.status]
<1>1. f \in Source /\ c.amount \in Nat /\ c.status \in FundStatus
  BY InputAssumption
<1>2. fund[f] \in SourceRow /\ c.amount >= fund[f].reserve /\ fund' = [fund EXCEPT ![f] = row]
      /\ UNCHANGED <<event, debt>> /\ Clean
  BY <1>1 DEF PatchFund, Invalidate, Clean, IInv, Tables
<1>3. row \in SourceRow /\ row.reserve <= row.amount
  BY <1>1, <1>2 DEF SourceRow
<1> HIDE DEF row
<1>4. Tables' /\ Rows' /\ Born'
  BY <1>1, <1>2, <1>3 DEF IInv, Tables, Rows, Born
<1>5. SettledOnce'
  BY <1>2 DEF IInv, SettledOnce, Settles, Counted
<1>6. /\ plans' \subseteq State /\ actions' \subseteq Action
      /\ NoPaymentBesidePending' /\ PlansKnowTheMoney'
  BY <1>2, <1>4, CleanStep
<1>q. QED
  BY <1>4, <1>5, <1>6 DEF IInv

\* A step that leaves the tables leaves the state, and what the tables say.
LEMMA SameTables ==
    ASSUME IInv, UNCHANGED <<event, fund, debt>>
    PROVE  /\ Tables' /\ Rows' /\ Born' /\ SettledOnce'
           /\ FinancialState' = FinancialState /\ Pending' = Pending
           /\ FinancialState \in State
           /\ FinancialState.debt = debt
<1>1. Tables' /\ Rows' /\ Born' /\ SettledOnce'
  BY DEF IInv, Tables, Rows, Born, SettledOnce, Settles, Counted
<1>2. FinancialState' = FinancialState /\ Pending' = Pending
  BY DEF FinancialState, Pending
<1>3. FinancialState \in State /\ FinancialState.debt = debt
  <2>1. FinancialState \in State
    BY StateType DEF IInv, Tables, FinancialState
  <2>2. FinancialState.debt = debt
    BY DEF FinancialState, StateOf
  <2>q. QED
    BY <2>1, <2>2
<1>q. QED
  BY <1>1, <1>2, <1>3

LEMMA GeneratePlanStep ==
    ASSUME IInv, GeneratePlan
    PROVE  IInv'
<1>1. UNCHANGED <<event, fund, debt, actions>> /\ plans' = plans \cup {FinancialState}
  BY DEF GeneratePlan
<1>2. NoPaymentBesidePending' /\ PlansKnowTheMoney'
  <2>1. FinancialState' = FinancialState /\ Pending' = Pending /\ FinancialState.debt = debt
    BY <1>1, SameTables
  <2>2. NoPaymentBesidePending /\ PlansKnowTheMoney
    BY DEF IInv
  <2>q. QED
    BY <1>1, <2>1, <2>2 DEF NoPaymentBesidePending, PlansKnowTheMoney
<1>q. QED
  BY <1>1, <1>2, SameTables DEF IInv

LEMMA PrepareStep ==
    ASSUME IInv, NEW b \in Bill, NEW f \in Source, Prepare(b, f)
    PROVE  IInv'
<1>1. /\ UNCHANGED <<event, fund, debt, plans>> /\ Pending = {}
      /\ actions' = actions \cup {[hash |-> FinancialState, bill |-> b, source |-> f]}
  BY DEF Prepare
<1>2. NoPaymentBesidePending' /\ PlansKnowTheMoney'
  <2>1. FinancialState' = FinancialState /\ Pending' = Pending
    BY <1>1, SameTables
  <2>2. NoPaymentBesidePending /\ PlansKnowTheMoney
    BY DEF IInv
  <2>q. QED
    BY <1>1, <2>1, <2>2 DEF NoPaymentBesidePending, PlansKnowTheMoney
<1>3. actions' \subseteq Action
  BY <1>1, SameTables DEF IInv, Action
<1>q. QED
  BY <1>1, <1>2, <1>3, SameTables DEF IInv

LEMMA PayStep ==
    ASSUME IInv, NEW a \in actions, Pay(a)
    PROVE  IInv'
<1> DEFINE f == a.source
           rest == fund[f].amount - debt[a.bill].amount
           row == [fund[f] EXCEPT !.amount = rest]
           paid == [debt[a.bill] EXCEPT !.status = "SANDBOX_PAID"]
<1>1. f \in Source /\ a.bill \in Bill /\ a.bill \in Debt
  BY DEF IInv, Action, Debt
<1>2. /\ fund[f] \in SourceRow /\ fund[f].amount \in Nat /\ fund[f].reserve \in Nat
      /\ debt[a.bill] \in DebtRow /\ debt[a.bill].amount \in Nat
  BY <1>1 DEF IInv, Tables, SourceRow, DebtRow
<1>3. /\ rest >= fund[f].reserve /\ UNCHANGED event /\ Clean
      /\ fund' = [fund EXCEPT ![f] = row] /\ debt' = [debt EXCEPT ![a.bill] = paid]
  BY <1>1, <1>2 DEF Pay, Replan, Clean, IInv, Tables
<1>4. rest \in Nat
  BY <1>2, <1>3
<1> HIDE DEF rest
<1>5. row \in SourceRow /\ row.reserve <= row.amount /\ paid \in DebtRow
  BY <1>2, <1>3, <1>4 DEF SourceRow, DebtRow
<1> HIDE DEF row, paid
<1>6. Tables' /\ Rows'
  BY <1>1, <1>3, <1>5 DEF IInv, Tables, Rows
<1>7. \A d \in Debt \ Bill : debt'[d] = debt[d]
  BY <1>1, <1>3 DEF IInv, Tables
<1>8. Born'
  <2>1. \A e \in Event, i \in 1..MaxDates : <<e, i>> \in Debt \ Bill
    BY SlotAssumption DEF Debt
  <2>q. QED
    BY <1>3, <1>7, <2>1 DEF IInv, Born
<1>9. SettledOnce'
  <2>1. \A x \in Event : Keeps(event[x], event'[x])
    BY <1>3 DEF Keeps
  <2>q. QED
    BY <1>7, <2>1, SettledStep DEF IInv
<1>10. /\ plans' \subseteq State /\ actions' \subseteq Action
       /\ NoPaymentBesidePending' /\ PlansKnowTheMoney'
  BY <1>3, <1>6, CleanStep
<1>q. QED
  BY <1>6, <1>8, <1>9, <1>10 DEF IInv

-----------------------------------------------------------------------------
(* The invariant *)

LEMMA InitInv == Init => IInv
<1>1. SUFFICES ASSUME Init
               PROVE  IInv
  OBVIOUS
<1>2. NoEvent \in EventRow /\ Sound(NoEvent) /\ NoEvent.status = "NONE"
  <2>1. NoProposal \in Proposal
    BY DEF NoProposal, Proposal, EventType, NeverApplied
  <2>2. NoOverlay \in [fund : Source \cup {None}, lock : BOOLEAN, cap : Nat]
        /\ NoOverlay.fund = None
    BY DEF NoOverlay
  <2>3. 0 \in 0..MaxVersion /\ "NONE" \in EventStatus
    BY InputAssumption DEF EventStatus
  <2>4. /\ NoEvent.flagged = FALSE /\ NoEvent.overlay = NoOverlay /\ NoEvent.debt = None
        /\ NoEvent.status = "NONE"
    BY DEF NoEvent
  <2>5. NoEvent \in EventRow
    <3> HIDE DEF NoProposal, NoOverlay
    <3>q. QED
      BY <2>1, <2>2, <2>3 DEF NoEvent, EventRow
  <2> HIDE DEF NoEvent
  <2>6. Sound(NoEvent)
    BY <2>2, <2>4 DEF Sound
  <2>q. QED
    BY <2>4, <2>5, <2>6
<1>3. NoSource \in SourceRow /\ NoSource.reserve <= NoSource.amount
  BY DEF NoSource, SourceRow, FundStatus
<1>4. NoDebt \in DebtRow /\ NoDebt.status = "NONE"
  BY DEF NoDebt, DebtRow
<1> HIDE DEF NoEvent, NoSource, NoDebt
<1>5. \A e \in Event : event[e] = NoEvent
  BY <1>1 DEF Init
<1>6. event \in [Event -> EventRow] /\ Rows
  BY <1>1, <1>2, <1>5 DEF Init, Rows
<1>7. /\ fund \in [Source -> SourceRow]
      /\ \A f \in Source : fund[f].reserve <= fund[f].amount
  BY <1>1, <1>3, SeedAssumption DEF Init
<1>8. debt \in [Debt -> DebtRow] /\ \A d \in Debt \ Bill : debt[d] = NoDebt
  <2>1. \A b \in Bill : SeedBill[b] \in Nat
    BY SeedAssumption
  <2>2. \A b \in Bill : [amount |-> SeedBill[b], status |-> "OPEN", version |-> 1] \in DebtRow
    BY <2>1 DEF DebtRow
  <2>q. QED
    BY <1>1, <1>4, <2>2 DEF Init
<1>9. Born
  <2>1. \A e \in Event, i \in 1..MaxDates : <<e, i>> \in Debt \ Bill
    BY SlotAssumption DEF Debt
  <2>q. QED
    BY <1>4, <1>8, <2>1 DEF Born
<1>10. SettledOnce
  BY <1>2, <1>4, <1>5, <1>8 DEF SettledOnce, Settles, Counted
<1>11. plans = {} /\ actions = {}
  BY <1>1 DEF Init
<1>q. QED
  BY <1>6, <1>7, <1>8, <1>9, <1>10, <1>11
     DEF IInv, Tables, NoPaymentBesidePending, PlansKnowTheMoney

LEMMA NextInv == IInv /\ [Next]_vars => IInv'
<1>1. SUFFICES ASSUME IInv, [Next]_vars
               PROVE  IInv'
  OBVIOUS
<1>2. CASE UNCHANGED vars
  <2>1. UNCHANGED <<event, fund, debt, plans, actions>>
    BY <1>2 DEF vars
  <2>2. NoPaymentBesidePending' /\ PlansKnowTheMoney'
    BY <1>1, <2>1, SameTables DEF IInv, NoPaymentBesidePending, PlansKnowTheMoney
  <2>q. QED
    BY <1>1, <2>1, <2>2, SameTables DEF IInv
<1>3. ASSUME NEW e \in Event, ReviewNext(e)
      PROVE  IInv'
  BY <1>1, <1>3, CaptureStep, SimulateStep, ConfirmStep DEF ReviewNext
<1>4. ASSUME NEW e \in Event, ApplyNext(e)
      PROVE  IInv'
  BY <1>1, <1>4, ApplyExpenseStep, ApplyFundingStep, ApplyObligationStep, ApplyChangeStep,
     ApplyReportStep DEF ApplyNext
<1>5. ASSUME NEW e \in Event, AfterNext(e)
      PROVE  IInv'
  BY <1>1, <1>5, DismissStep, ReceiveStep, ResolveStep, ReminderStep, ChangeRecurrenceStep
     DEF AfterNext
<1>6. CASE OtherNext
  BY <1>1, <1>6, GeneratePlanStep, PatchFundStep, PrepareStep, PayStep DEF OtherNext
<1>q. QED
  BY <1>1, <1>2, <1>3, <1>4, <1>5, <1>6 DEF Next

LEMMA Invariance == Spec => []IInv
BY InitInv, NextInv, PTL DEF Spec

-----------------------------------------------------------------------------
(* Theorems *)

\* Every row stays one the schema admits, and no debit takes a balance below its
\* reserve.
THEOREM TypeCorrect == Spec => []TypeOK
<1>1. IInv => TypeOK
  BY DEF IInv, Tables, TypeOK, EventRow, Action
<1>q. QED
  BY <1>1, Invariance, PTL

\* A payment waits on the current state only, and never beside a pending event.
THEOREM PaymentsStandAlone == Spec => []NoPaymentBesidePending
<1>1. IInv => NoPaymentBesidePending
  BY DEF IInv
<1>q. QED
  BY <1>1, Invariance, PTL

\* Every live plan knows the current balances, commitments and reports.
THEOREM PlansAreCurrent == Spec => []PlansKnowTheMoney
<1>1. IInv => PlansKnowTheMoney
  BY DEF IInv
<1>q. QED
  BY <1>1, Invariance, PTL

\* An event captured with injected instructions is never confirmed or applied.
THEOREM FlaggedIsInert == Spec => []FlaggedNeverCounts
<1>1. IInv => FlaggedNeverCounts
  BY DEF IInv, Rows, Sound, Counting, FlaggedNeverCounts
<1>q. QED
  BY <1>1, Invariance, PTL

\* A commitment of the budget is settled by exactly one applied expense, whole.
THEOREM SettlementIsUnique == Spec => []SettledOnce
<1>1. IInv => SettledOnce
  BY DEF IInv
<1>q. QED
  BY <1>1, Invariance, PTL

\* No event comes to be dismissed but by a dismissal.
LEMMA OnlyDismissalDismisses ==
    ASSUME IInv, NEW e \in Event, NEW x \in Event,
           ReviewNext(e) \/ ApplyNext(e) \/ AfterNext(e),
           event'[x].status = "DISMISSED", event[x].status # "DISMISSED"
    PROVE  Dismiss(e)
<1> DEFINE Becomes(s) == event' = [event EXCEPT ![e] = s]
<1>1. event \in [Event -> EventRow]
  BY DEF IInv, Tables
<1>2. ASSUME NEW s, Becomes(s), s.status # "DISMISSED"
      PROVE  FALSE
  BY <1>1, <1>2
<1>3. ASSUME NEW r \in EventRow, NEW s \in EventStatus
      PROVE  [r EXCEPT !.status = s].status = s /\ Moved(r, s).status = s
  BY <1>3 DEF EventRow, Moved
<1>4. ~ReviewNext(e)
  <2>1. SUFFICES ASSUME NEW p \in Proposals,
                        \/ Capture(e, p) \/ PurchaseCheck(e, p)
                        \/ \E f \in FundLinks(p), d \in DebtLinks(p) :
                              Simulate(e, p, f, d) \/ Confirm(e, p, f, d)
                 PROVE  FALSE
    BY DEF ReviewNext
  <2>2. CASE Capture(e, p)
    BY <2>2, <1>1 DEF Capture, New, NoEvent
  <2>3. CASE PurchaseCheck(e, p)
    BY <2>3, <1>1 DEF PurchaseCheck, Stored, New, NoEvent
  <2>4. ASSUME NEW f \in FundLinks(p), NEW d \in DebtLinks(p), Simulate(e, p, f, d)
        PROVE  FALSE
    BY <2>4, <1>1 DEF Simulate, Stored, EventRow
  <2>5. ASSUME NEW f \in FundLinks(p), NEW d \in DebtLinks(p), Confirm(e, p, f, d)
        PROVE  FALSE
    BY <2>5, <1>1 DEF Confirm, Recorded, Stored, EventRow
  <2>q. QED
    BY <2>1, <2>2, <2>3, <2>4, <2>5
<1>5. ~ApplyNext(e)
  <2>1. SUFFICES ASSUME ApplyNext(e)
                 PROVE  FALSE
    OBVIOUS
  <2>2. Applied(e).status = "APPLIED"
    BY <1>1 DEF Applied, Moved, EventRow
  <2>3. ~ApplyExpense(e)
    <3>1. ChildOf(event[e].p).status = "REVIEW_REQUIRED"
      BY DEF ChildOf, New, NoEvent
    <3> HIDE DEF ChildOf, Applied
    <3>q. QED
      BY <1>1, <2>2, <3>1 DEF ApplyExpense
  <2>4. Applied(e) \in EventRow
    <3>1. Applicable(e)
      BY <2>1 DEF ApplyNext, ApplyExpense, ApplyFunding, ApplyObligation, ApplyChange, ApplyReport
    <3>q. QED
      BY <3>1, ApplicableRow
  <2>5. ~ApplyFunding(e) /\ ~ApplyReport(e)
    <3>1. [Applied(e) EXCEPT !.linked = e].status = "APPLIED"
          /\ \A o : [Applied(e) EXCEPT !.overlay = o].status = "APPLIED"
      BY <2>2, <2>4 DEF EventRow
    <3>2. ApplyFunding(e) => Becomes([Applied(e) EXCEPT !.linked = e])
      BY DEF ApplyFunding
    <3>3. ApplyReport(e) => \E o : Becomes([Applied(e) EXCEPT !.overlay = o])
      BY DEF ApplyReport
    <3> HIDE DEF Becomes
    <3>q. QED
      BY <1>2, <3>1, <3>2, <3>3
  <2>6. ~ApplyObligation(e) /\ ~ApplyChange(e)
    <3>1. ApplyObligation(e) \/ ApplyChange(e) => Becomes(Applied(e))
      BY DEF ApplyObligation, ApplyChange
    <3>q. QED
      BY <1>2, <2>2, <3>1
  <2>q. QED
    BY <2>1, <2>3, <2>5, <2>6 DEF ApplyNext
<1>6. ~Receive(e) /\ ~Resolve(e)
  BY <1>1 DEF Receive, Resolve, Moved, EventRow
<1>7. ~Reminder(e)
  BY <1>1 DEF Reminder, EventRow
<1>8. ASSUME NEW amount \in Amounts, ChangeRecurrence(e, amount)
      PROVE  FALSE
  <2> DEFINE p == [event[e].p EXCEPT !.amount = amount]
             t == Stored(event[e], p, event[e].fund, event[e].debt)
  <2>1. Becomes(t) /\ event[e].status = "APPLIED"
    BY <1>8 DEF ChangeRecurrence
  <2> HIDE DEF p
  <2>2. t.status = event[e].status
    BY <1>1 DEF Stored, EventRow
  <2> HIDE DEF t, Becomes
  <2>q. QED
    BY <1>2, <2>1, <2>2
<1>q. QED
  BY <1>4, <1>5, <1>6, <1>7, <1>8 DEF AfterNext

\* Dismissing an event changes no commitment and no money that is available.
THEOREM DismissalIsHarmless == Spec => DismissalReversesNothing
<1>1. ASSUME IInv, [Next]_vars, NEW x \in Event,
             event'[x].status = "DISMISSED", event[x].status # "DISMISSED"
      PROVE  debt' = debt /\ \A f \in Source : fund[f].status = "AVAILABLE" => fund'[f] = fund[f]
  <2>1. PICK e \in Event : ReviewNext(e) \/ ApplyNext(e) \/ AfterNext(e)
    <3>1. ~OtherNext
      BY <1>1 DEF OtherNext, GeneratePlan, PatchFund, Prepare, Pay
    <3>2. ~UNCHANGED vars
      BY <1>1 DEF vars
    <3>q. QED
      BY <1>1, <3>1, <3>2 DEF Next
  <2>2. Dismiss(e)
    BY <1>1, <2>1, OnlyDismissalDismisses
  <2>q. QED
    BY <2>2 DEF Dismiss, Unreceived
<1>2. IInv /\ [Next]_vars =>
        [(\E e \in Event : event'[e].status = "DISMISSED" /\ event[e].status # "DISMISSED")
         => /\ debt' = debt
            /\ \A f \in Source : fund[f].status = "AVAILABLE" => fund'[f] = fund[f]]_vars
  BY <1>1
<1>q. QED
  BY <1>2, Invariance, PTL DEF Spec, DismissalReversesNothing

-----------------------------------------------------------------------------
(* The money of the ledger *)

\* Where the money of a received expectation comes from: a source there from the
\* start, the event itself, or another one that was applied with an amount.
Origin(ev, e, l) == l \in Source /\ (l \in Event => l = e \/ ev[l].posted > 0)

\* The ledger where no balance is corrected: expected money is still what the student
\* opened with or what its event posted, the source of an event is there only once it
\* was applied or received, and an applied expectation has one.
Ledger ==
    /\ \A f \in DOMAIN SeedSource :
          fund[f].status = "EXPECTED" => fund[f].amount = SeedSource[f].amount
    /\ \A e \in Event :
          /\ fund[e].status # "NONE" => event[e].status \in Past
          /\ fund[e].status = "EXPECTED" =>
                event[e].posted > 0 /\ fund[e].amount = event[e].posted
          /\ event[e].posted > 0 => event[e].status \in Past
          /\ event[e].p.type \in EXPECTED =>
                /\ event[e].status = "APPLIED" => fund[e].status # "NONE"
                /\ event[e].status = "RESOLVED" => Origin(event, e, event[e].linked)

\* Rows whose money counts as received, as expected and received, and as spent.
Brings(r) == r.p.type \in Received /\ r.status \in {"APPLIED", "RESOLVED"}
Yields(r) == r.p.type \in EXPECTED /\ r.status = "RESOLVED"
Costs(r) == r.p.type \in EXPENSES /\ r.status \in {"APPLIED", "RESOLVED"}

\* What no step undoes of a row.
Evolves(r, t) ==
    /\ r.status \in Past => t.status \in Past /\ t.posted = r.posted
    /\ t.posted > 0 => t.status \in Past
    /\ r.status = "RESOLVED" => t.status = "RESOLVED" /\ t.linked = r.linked /\ t.p = r.p

\* A row that goes on counting as it did.
Idle(r, t) ==
    /\ Evolves(r, t)
    /\ Brings(t) <=> Brings(r)
    /\ Yields(t) <=> Yields(r)
    /\ Costs(t) <=> Costs(r)

\* What a step has to show of the rows it writes for the ledger to stay in order.
LEMMA LedgerStep ==
    ASSUME Tables, Ledger,
           \A x \in Event : Evolves(event[x], event'[x]),
           \A f \in Source : fund'[f].status = "EXPECTED" =>
              \/ fund[f].status = "EXPECTED" /\ fund'[f].amount = fund[f].amount
              \/ f \in Event /\ event'[f].posted > 0 /\ fund'[f].amount = event'[f].posted,
           \A x \in Event : fund'[x].status # "NONE" =>
              fund[x].status # "NONE" \/ event'[x].status \in Past,
           \A x \in Event : fund[x].status # "NONE" => fund'[x].status # "NONE",
           \A x \in Event :
              event'[x].p.type \in EXPECTED /\ event'[x].status = "APPLIED" =>
                \/ event[x].p.type \in EXPECTED /\ event[x].status = "APPLIED"
                \/ fund'[x].status # "NONE",
           \A x \in Event : Yields(event'[x]) =>
              Yields(event[x]) \/ Origin(event, x, event'[x].linked)
    PROVE  Ledger'
<1>1. \A f \in DOMAIN SeedSource :
          fund'[f].status = "EXPECTED" => fund'[f].amount = SeedSource[f].amount
  BY SlotAssumption DEF Ledger, Source
<1>2. ASSUME NEW e \in Event
      PROVE  /\ fund'[e].status # "NONE" => event'[e].status \in Past
             /\ event'[e].posted > 0 => event'[e].status \in Past
             /\ event'[e].p.type \in EXPECTED =>
                  (event'[e].status = "APPLIED" => fund'[e].status # "NONE")
  BY DEF Ledger, Evolves
<1>3. ASSUME NEW e \in Event, fund'[e].status = "EXPECTED"
      PROVE  event'[e].posted > 0 /\ fund'[e].amount = event'[e].posted
  <2>1. CASE fund[e].status = "EXPECTED" /\ fund'[e].amount = fund[e].amount
    BY <2>1 DEF Ledger, Evolves
  <2>q. QED
    BY <1>3, <2>1 DEF Source
<1>4. ASSUME NEW e \in Event, Yields(event'[e])
      PROVE  Origin(event', e, event'[e].linked)
  <2> DEFINE l == event'[e].linked
  <2>1. Origin(event, e, l)
    BY <1>4 DEF Yields, Ledger, Evolves
  <2>2. l \in Source /\ (l \in Event => l = e \/ event[l].posted > 0)
    BY <2>1 DEF Origin
  <2>3. l \in Event => l = e \/ event'[l].posted > 0
    BY <2>2 DEF Ledger, Evolves
  <2>q. QED
    BY <2>2, <2>3 DEF Origin
<1>q. QED
  BY <1>1, <1>2, <1>3, <1>4 DEF Ledger, Yields

\* What the sums are over.
LEMMA Amounted ==
    ASSUME Tables, Ledger
    PROVE  /\ \A f \in Source : Spendable(f) \in Nat
           /\ \A e \in Event : Brought(e) \in Nat /\ Took(e) \in Nat
           /\ \A b \in Bill : Paid(b) \in Nat
<1>1. \A f \in Source : fund[f].amount \in Nat
  BY DEF Tables, SourceRow
<1>2. \A b \in Bill : debt[b].amount \in Nat
  BY DEF Tables, DebtRow, Debt
<1>3. \A e \in Event : event[e].posted \in Nat /\ event[e].p.amount \in Nat
  <2>1. \A e \in Event : event[e].posted \in Nat /\ event[e].p \in Proposal
    BY RowFields DEF Tables
  <2>q. QED
    BY <2>1 DEF Proposal
<1>4. \A f \in DOMAIN SeedSource : SeedSource[f].amount \in Nat
  BY SeedAssumption DEF SourceRow
<1>5. ASSUME NEW e \in Event
      PROVE  Brought(e) \in Nat
  <2>1. CASE Yields(event[e])
    <3>1. Origin(event, e, event[e].linked)
      BY <2>1 DEF Ledger, Yields
    <3>2. event[e].linked \in DOMAIN SeedSource \/ event[e].linked \in Event
      BY <3>1 DEF Origin, Source
    <3>q. QED
      BY <1>3, <1>4, <3>2 DEF Brought
  <2>2. CASE ~Yields(event[e])
    BY <1>3, <2>2 DEF Brought, Yields
  <2>q. QED
    BY <2>1, <2>2
<1>q. QED
  BY <1>1, <1>2, <1>3, <1>5 DEF Spendable, Took, Paid

\* The values v are the values w but for one, which is k more.
Moves(S, w, v, k) ==
    \/ k = 0 /\ \A x \in S : v[x] = w[x]
    \/ \E a \in S : v[a] = w[a] + k /\ \A x \in S : x # a => v[x] = w[x]

\* A sum moves by what its one changed value moves by.
LEMMA SumMoves ==
    ASSUME NEW S, IsFiniteSet(S), NEW w, \A x \in S : w[x] \in Int,
           NEW v, NEW k \in Int, Moves(S, w, v, k)
    PROVE  /\ SumFunctionOnSet(w, S) \in Int
           /\ SumFunctionOnSet(v, S) = SumFunctionOnSet(w, S) + k
<1>1. SumFunctionOnSet(w, S) \in Int
  BY SumInt
<1>2. CASE k = 0 /\ \A x \in S : v[x] = w[x]
  <2>1. SumFunctionOnSet(v, S) = SumFunctionOnSet(w, S)
    BY <1>2, SumOfSame
  <2>q. QED
    BY <1>1, <1>2, <2>1
<1>3. ASSUME NEW a \in S, v[a] = w[a] + k, \A x \in S : x # a => v[x] = w[x]
      PROVE  SumFunctionOnSet(v, S) = SumFunctionOnSet(w, S) + k
  <2>1. \A x \in S : v[x] \in Int
    BY <1>3
  <2>2. SumFunctionOnSet(v, S) = SumFunctionOnSet(w, S) - w[a] + v[a]
    BY <1>3, <2>1, SumAfterChange
  <2>3. w[a] \in Int
    OBVIOUS
  <2>q. QED
    BY <1>1, <1>3, <2>2, <2>3
<1>q. QED
  BY <1>1, <1>2, <1>3 DEF Moves

\* The books stay balanced when what the four columns move by adds up.
LEMMA BooksMove ==
    ASSUME Tables, Ledger, MoneyAccounted,
           NEW s \in Int, NEW b \in Int, NEW t \in Int, NEW p \in Int, s = b - t - p,
           Moves(Source, [f \in Source |-> Spendable(f)], [f \in Source |-> Spendable(f)'], s),
           Moves(Event, [e \in Event |-> Brought(e)], [e \in Event |-> Brought(e)'], b),
           Moves(Event, [e \in Event |-> Took(e)], [e \in Event |-> Took(e)'], t),
           Moves(Bill, [d \in Bill |-> Paid(d)], [d \in Bill |-> Paid(d)'], p)
    PROVE  MoneyAccounted'
<1> DEFINE sp == [f \in Source |-> Spendable(f)]
           br == [e \in Event |-> Brought(e)]
           to == [e \in Event |-> Took(e)]
           pa == [d \in Bill |-> Paid(d)]
           sq == [f \in Source |-> Spendable(f)']
           bq == [e \in Event |-> Brought(e)']
           tq == [e \in Event |-> Took(e)']
           pq == [d \in Bill |-> Paid(d)']
           op == [f \in OwnSource |-> Opening(f)]
<1>1. IsFiniteSet(Source) /\ IsFiniteSet(Event) /\ IsFiniteSet(Bill) /\ IsFiniteSet(OwnSource)
  <2>1. IsFiniteSet(Source)
    BY FiniteAssumption, FS_Union DEF Source
  <2>2. IsFiniteSet(OwnSource)
    BY FiniteAssumption, SlotAssumption, FS_Subset
  <2>q. QED
    BY <2>1, <2>2, FiniteAssumption
<1>2. /\ \A f \in Source : sp[f] \in Int
      /\ \A e \in Event : br[e] \in Int /\ to[e] \in Int
      /\ \A d \in Bill : pa[d] \in Int
  BY Amounted
<1>3. \A f \in OwnSource : op[f] \in Int
  <2>1. \A f \in OwnSource : SeedSource[f].amount \in Nat
    BY SeedAssumption, SlotAssumption DEF SourceRow
  <2>q. QED
    BY <2>1 DEF Opening
<1>4. /\ Moves(Source, sp, sq, s) /\ Moves(Event, br, bq, b)
      /\ Moves(Event, to, tq, t) /\ Moves(Bill, pa, pq, p)
  OBVIOUS
<1>5. SumFunctionOnSet(sp, Source) = SumFunctionOnSet(op, OwnSource)
        + SumFunctionOnSet(br, Event) - SumFunctionOnSet(to, Event)
        - SumFunctionOnSet(pa, Bill)
  BY DEF MoneyAccounted
<1>6. MoneyAccounted' <=>
        SumFunctionOnSet(sq, Source) = SumFunctionOnSet(op, OwnSource)
          + SumFunctionOnSet(bq, Event) - SumFunctionOnSet(tq, Event)
          - SumFunctionOnSet(pq, Bill)
  BY DEF MoneyAccounted
<1> HIDE DEF sp, br, to, pa, sq, bq, tq, pq, op
<1>7. /\ SumFunctionOnSet(sp, Source) \in Int
      /\ SumFunctionOnSet(sq, Source) = SumFunctionOnSet(sp, Source) + s
  BY <1>1, <1>2, <1>4, SumMoves
<1>8. /\ SumFunctionOnSet(br, Event) \in Int
      /\ SumFunctionOnSet(bq, Event) = SumFunctionOnSet(br, Event) + b
  BY <1>1, <1>2, <1>4, SumMoves
<1>9. /\ SumFunctionOnSet(to, Event) \in Int
      /\ SumFunctionOnSet(tq, Event) = SumFunctionOnSet(to, Event) + t
  BY <1>1, <1>2, <1>4, SumMoves
<1>10. /\ SumFunctionOnSet(pa, Bill) \in Int
       /\ SumFunctionOnSet(pq, Bill) = SumFunctionOnSet(pa, Bill) + p
  BY <1>1, <1>2, <1>4, SumMoves
<1>11. SumFunctionOnSet(op, OwnSource) \in Int
  BY <1>1, <1>3, SumInt
<1>q. QED
  BY <1>5, <1>6, <1>7, <1>8, <1>9, <1>10, <1>11

\* A row that goes on counting as it did brings and takes what it did.
LEMMA IdleRow ==
    ASSUME Tables, Ledger, \A x \in Event : Evolves(event[x], event'[x]),
           NEW e \in Event, Idle(event[e], event'[e])
    PROVE  Brought(e)' = Brought(e) /\ Took(e)' = Took(e)
<1> DEFINE r == event[e]
           t == event'[e]
           l == r.linked
           k == t.linked
<1>1. /\ Brought(e) = IF Brings(r) THEN r.posted
                      ELSE IF Yields(r)
                      THEN IF l \in DOMAIN SeedSource THEN SeedSource[l].amount
                           ELSE IF event[l].posted > 0 THEN event[l].posted ELSE event[l].p.amount
                      ELSE 0
      /\ Took(e) = IF Costs(r) THEN r.posted ELSE 0
  BY DEF Brought, Took, Counted, Brings, Yields, Costs
<1>2. /\ Brought(e)' = IF Brings(t) THEN t.posted
                       ELSE IF Yields(t)
                       THEN IF k \in DOMAIN SeedSource THEN SeedSource[k].amount
                            ELSE IF event'[k].posted > 0 THEN event'[k].posted
                            ELSE event'[k].p.amount
                       ELSE 0
      /\ Took(e)' = IF Costs(t) THEN t.posted ELSE 0
  BY DEF Brought, Took, Counted, Brings, Yields, Costs
<1>3. /\ Brings(t) <=> Brings(r)
      /\ Yields(t) <=> Yields(r)
      /\ Costs(t) <=> Costs(r)
  BY DEF Idle
<1>4. /\ Brings(r) \/ Costs(r) \/ Yields(r) => t.posted = r.posted
      /\ Yields(r) => k = l /\ t.p = r.p
  BY DEF Idle, Evolves, Brings, Costs, Yields, Past
<1>5. ASSUME Yields(r)
      PROVE  /\ l \in DOMAIN SeedSource \/ l \in Event
             /\ l \in Event /\ l # e =>
                  event[l].posted > 0 /\ event'[l].posted = event[l].posted
  <2>1. Origin(event, e, l)
    BY <1>5 DEF Ledger, Yields
  <2>2. \A x \in Event : event[x].posted > 0 => event'[x].posted = event[x].posted
    BY DEF Ledger, Evolves
  <2>q. QED
    BY <2>1, <2>2 DEF Origin, Source
<1>6. CASE Yields(r)
  <2>1. \/ l \in DOMAIN SeedSource
        \/ event'[l].posted = event[l].posted /\ event'[l].p = event[l].p
        \/ event[l].posted > 0 /\ event'[l].posted = event[l].posted
    BY <1>4, <1>5, <1>6
  <2> HIDE DEF r, t, l, k
  <2>q. QED
    BY <1>1, <1>2, <1>3, <1>4, <1>6, <2>1
<1>7. CASE ~Yields(r)
  <2> HIDE DEF r, t, l, k
  <2>q. QED
    BY <1>1, <1>2, <1>3, <1>4, <1>7
<1>q. QED
  BY <1>6, <1>7

\* A step after which every row, source and bill counts as it did.
LEMMA IdleStep ==
    ASSUME Tables, Ledger, MoneyAccounted,
           \A x \in Event : Idle(event[x], event'[x]),
           \A f \in Source : Spendable(f)' = Spendable(f),
           \A d \in Bill : Paid(d)' = Paid(d)
    PROVE  MoneyAccounted'
<1>1. \A e \in Event : Brought(e)' = Brought(e) /\ Took(e)' = Took(e)
  BY IdleRow DEF Idle
<1>2. Moves(Source, [f \in Source |-> Spendable(f)], [f \in Source |-> Spendable(f)'], 0)
  BY DEF Moves
<1>3. Moves(Event, [e \in Event |-> Brought(e)], [e \in Event |-> Brought(e)'], 0)
  BY <1>1 DEF Moves
<1>4. Moves(Event, [e \in Event |-> Took(e)], [e \in Event |-> Took(e)'], 0)
  BY <1>1 DEF Moves
<1>5. Moves(Bill, [d \in Bill |-> Paid(d)], [d \in Bill |-> Paid(d)'], 0)
  BY DEF Moves
<1>q. QED
  BY <1>2, <1>3, <1>4, <1>5, BooksMove

-----------------------------------------------------------------------------
(* The money: review and application *)

\* A row that no step writes.
LEMMA SameRow ==
    ASSUME Ledger, NEW x \in Event, event'[x] = event[x]
    PROVE  Idle(event[x], event'[x])
BY DEF Ledger, Idle, Evolves

\* A step that writes one row before the ledger: review counts for nothing.
LEMMA ReviewMoney ==
    ASSUME IInv, Ledger, MoneyAccounted, NEW e \in Event, UNCHANGED <<fund, debt>>,
           \A x \in Event : x # e => event'[x] = event[x],
           event[e].status \notin Past, event'[e].status \notin Past,
           event'[e].posted \in {0, event[e].posted}
    PROVE  Ledger' /\ MoneyAccounted'
<1>1. Tables
  BY DEF IInv
<1>2. ~(event'[e].posted > 0)
  BY DEF Ledger
<1>3. \A x \in Event : Idle(event[x], event'[x])
  <2>1. Idle(event[e], event'[e])
    BY <1>2 DEF Idle, Evolves, Brings, Yields, Costs, Past
  <2>q. QED
    BY <2>1, SameRow
<1>4. Ledger'
  <2>1. \A x \in Event : fund[x].status # "NONE" => event[x].status \in Past
    BY DEF Ledger
  <2>2. \A x \in Event :
          /\ event'[x].p.type \in EXPECTED /\ event'[x].status = "APPLIED" =>
               event[x].p.type \in EXPECTED /\ event[x].status = "APPLIED"
          /\ Yields(event'[x]) => Yields(event[x])
    BY DEF Past, Yields
  <2>3. \A x \in Event : Evolves(event[x], event'[x])
    BY <1>3 DEF Idle
  <2>q. QED
    BY <1>1, <2>1, <2>2, <2>3, LedgerStep
<1>5. /\ \A f \in Source : Spendable(f)' = Spendable(f)
      /\ \A d \in Bill : Paid(d)' = Paid(d)
  BY DEF Spendable, Paid
<1>q. QED
  BY <1>1, <1>3, <1>4, <1>5, IdleStep

\* A captured sentence and a checked purchase move no money.
LEMMA CaptureMoney ==
    ASSUME IInv, Ledger, MoneyAccounted, NEW e \in Event, NEW p \in Proposals,
           Capture(e, p) \/ PurchaseCheck(e, p)
    PROVE  Ledger' /\ MoneyAccounted'
<1>1. event \in [Event -> EventRow] /\ event[e].status = "NONE" /\ UNCHANGED <<fund, debt>>
  BY DEF IInv, Tables, Capture, PurchaseCheck
<1>2. /\ event'[e].status \in {"REVIEW_REQUIRED", "INTERPRETED", "SIMULATED"}
      /\ event'[e].posted = 0
      /\ \A x \in Event : x # e => event'[x] = event[x]
  <2>1. CASE Capture(e, p)
    BY <2>1, <1>1 DEF Capture, New, NoEvent
  <2>2. CASE PurchaseCheck(e, p)
    BY <2>2, <1>1 DEF PurchaseCheck, Stored, New, NoEvent
  <2>q. QED
    BY <2>1, <2>2
<1>q. QED
  BY <1>1, <1>2, ReviewMoney DEF Past

\* A simulation and a confirmation move no money.
LEMMA ReviewedMoney ==
    ASSUME IInv, Ledger, MoneyAccounted, NEW e \in Event, NEW p \in Proposals,
           NEW f \in FundLinks(p), NEW d \in DebtLinks(p),
           Simulate(e, p, f, d) \/ Confirm(e, p, f, d)
    PROVE  Ledger' /\ MoneyAccounted'
<1>1. event \in [Event -> EventRow] /\ UNCHANGED <<fund, debt>>
  BY DEF IInv, Tables, Simulate, Confirm
<1>2. event[e].status \notin Past
  BY DEF Simulate, Confirm, Confirmable, Reviewed, Reviewable, Past
<1>3. /\ event'[e].status \in {"REVIEW_REQUIRED", "SIMULATED", "CONFIRMED"}
      /\ event'[e].posted = event[e].posted
      /\ \A x \in Event : x # e => event'[x] = event[x]
  <2>1. CASE Simulate(e, p, f, d)
    BY <2>1, <1>1 DEF Simulate, Stored, EventRow
  <2>2. CASE Confirm(e, p, f, d)
    BY <2>2, <1>1 DEF Confirm, Recorded, Stored, EventRow
  <2>q. QED
    BY <2>1, <2>2
<1>q. QED
  BY <1>1, <1>2, <1>3, ReviewMoney DEF Past

\* Every type of event moves money at most one way.
LEMMA MoneyTypes ==
    /\ EXPECTED \cap Received = {} /\ EXPENSES \cap (EXPECTED \cup Received) = {}
    /\ (OBLIGATIONS \cup OVERLAYS \cup {"OBLIGATION_CHANGED"})
         \cap (EXPENSES \cup EXPECTED \cup Received) = {}
BY DEF EXPENSES, EXPECTED, Received, OBLIGATIONS, OVERLAYS

\* What every application does to the row of its event.
LEMMA AppliedRow ==
    ASSUME IInv, NEW e \in Event, ApplyNext(e)
    PROVE  /\ Applicable(e)
           /\ event'[e].status = "APPLIED" /\ event'[e].p = event[e].p
           /\ event'[e].posted = event[e].p.amount /\ event[e].status = "CONFIRMED"
           /\ ~ApplyExpense(e) => \A x \in Event : x # e => event'[x] = event[x]
<1>1. Applicable(e)
  BY DEF ApplyNext, ApplyExpense, ApplyFunding, ApplyObligation, ApplyChange, ApplyReport
<1> DEFINE b == Applied(e)
<1>2. /\ b \in EventRow /\ b.status = "APPLIED" /\ b.p = event[e].p
      /\ b.posted = event[e].p.amount /\ event[e].status = "CONFIRMED"
  BY <1>1, ApplicableRow
<1>3. event \in [Event -> EventRow]
  BY DEF IInv, Tables
<1>4. ApplyExpense(e) => event'[e] = b
  BY DEF ApplyExpense
<1>5. ApplyFunding(e) => event' = [event EXCEPT ![e] = [b EXCEPT !.linked = e]]
  BY DEF ApplyFunding
<1>6. ApplyReport(e) => \E o : event' = [event EXCEPT ![e] = [b EXCEPT !.overlay = o]]
  BY DEF ApplyReport
<1>7. ApplyObligation(e) \/ ApplyChange(e) => event' = [event EXCEPT ![e] = b]
  BY DEF ApplyObligation, ApplyChange
<1> HIDE DEF b
<1>8. \A o : /\ [b EXCEPT !.overlay = o].status = b.status /\ [b EXCEPT !.overlay = o].p = b.p
             /\ [b EXCEPT !.overlay = o].posted = b.posted
             /\ [b EXCEPT !.linked = o].status = b.status /\ [b EXCEPT !.linked = o].p = b.p
             /\ [b EXCEPT !.linked = o].posted = b.posted
  BY <1>2 DEF EventRow
<1> DEFINE Alike(t) == t.status = "APPLIED" /\ t.p = event[e].p /\ t.posted = event[e].p.amount
<1>9. CASE ApplyExpense(e)
  BY <1>1, <1>2, <1>4, <1>9
<1>10. CASE ~ApplyExpense(e)
  <2>1. \E t : event' = [event EXCEPT ![e] = t] /\ Alike(t)
    <3>1. Alike(b) /\ \A o : Alike([b EXCEPT !.overlay = o]) /\ Alike([b EXCEPT !.linked = o])
      BY <1>2, <1>8
    <3> HIDE DEF Alike
    <3>2. CASE ApplyFunding(e)
      BY <3>1, <3>2, <1>5
    <3>3. CASE ApplyReport(e)
      <4>1. PICK o : event' = [event EXCEPT ![e] = [b EXCEPT !.overlay = o]]
        BY <3>3, <1>6
      <4>q. QED
        BY <3>1, <4>1
    <3>4. CASE ApplyObligation(e) \/ ApplyChange(e)
      BY <3>1, <3>4, <1>7
    <3>q. QED
      BY <1>10, <3>2, <3>3, <3>4 DEF ApplyNext
  <2>2. PICK t : event' = [event EXCEPT ![e] = t] /\ Alike(t)
    BY <2>1
  <2>3. event'[e] = t /\ \A x \in Event : x # e => event'[x] = event[x]
    BY <1>3, <2>2
  <2>q. QED
    BY <1>1, <1>2, <2>2, <2>3
<1>q. QED
  BY <1>9, <1>10

\* Obligations, changes and reports move no money.
LEMMA ApplyOtherMoney ==
    ASSUME IInv, Ledger, MoneyAccounted, NEW e \in Event,
           ApplyObligation(e) \/ ApplyChange(e) \/ ApplyReport(e)
    PROVE  Ledger' /\ MoneyAccounted'
<1>1. /\ Applicable(e) /\ event'[e].status = "APPLIED" /\ event'[e].p = event[e].p
      /\ event'[e].posted = event[e].p.amount /\ event[e].status = "CONFIRMED"
  BY AppliedRow DEF ApplyNext
<1>2. /\ event[e].p.type \in OBLIGATIONS \cup OVERLAYS \cup {"OBLIGATION_CHANGED"}
      /\ UNCHANGED fund /\ \A x \in Event : x # e => event'[x] = event[x]
  <2>1. ~ApplyExpense(e)
    BY MoneyTypes DEF ApplyExpense, ApplyObligation, ApplyChange, ApplyReport
  <2>2. \A x \in Event : x # e => event'[x] = event[x]
    BY <2>1, AppliedRow DEF ApplyNext
  <2>q. QED
    BY <2>2 DEF ApplyObligation, ApplyChange, ApplyReport
<1>3. event[e].p.type \notin EXPENSES \cup EXPECTED \cup Received
  BY <1>2, MoneyTypes
<1>4. \A x \in Event : Idle(event[x], event'[x])
  <2>1. Idle(event[e], event'[e])
    BY <1>1, <1>3 DEF Idle, Evolves, Brings, Yields, Costs, Past
  <2>q. QED
    BY <1>2, <2>1, SameRow
<1>5. Ledger'
  <2>1. \A x \in Event :
          /\ event'[x].p.type \in EXPECTED /\ event'[x].status = "APPLIED" =>
               event[x].p.type \in EXPECTED /\ event[x].status = "APPLIED"
          /\ Yields(event'[x]) => Yields(event[x])
          /\ Evolves(event[x], event'[x])
    BY <1>1, <1>2, <1>3, <1>4 DEF Idle
  <2>q. QED
    BY <1>2, <2>1, LedgerStep DEF IInv
<1>6. \A b \in Bill : Paid(b)' = Paid(b)
  <2>1. \A x \in Event, i \in 1..MaxDates : <<x, i>> \notin Bill
    BY SlotAssumption
  <2>2. \A b \in Bill : b \in Debt
    BY DEF Debt
  <2>3. CASE ApplyObligation(e)
    <3>1. \A b \in Bill : b \notin {e} \X (1..MaxDates) /\ b \notin {e} \X {1}
      BY <2>1, InputAssumption
    <3>2. \A b \in Bill : debt'[b] = debt[b]
      BY <2>2, <2>3, <3>1 DEF ApplyObligation
    <3>q. QED
      BY <3>2 DEF Paid
  <2>4. CASE ApplyChange(e)
    <3> DEFINE g == event[e].debt
    <3>1. g # None
      BY <2>4 DEF ApplyChange, Applicable, MissingFields, NeverApplied
    <3>2. debt[g].status = "OPEN" /\ debt \in [Debt -> DebtRow] /\ g \in Debt
      BY <1>1, <3>1, ApplicableRow DEF Applicable, ValidLinks, IInv, Tables
    <3>3. debt'[g].status = "OPEN" /\ \A b \in Bill : b # g => debt'[b] = debt[b]
      <4>1. PICK a, v : debt' = [debt EXCEPT ![g] = [debt[g] EXCEPT !.amount = a, !.version = v]]
        BY <2>4 DEF ApplyChange
      <4>2. debt[g] \in DebtRow
        BY <3>2
      <4>3. [debt[g] EXCEPT !.amount = a, !.version = v].status = "OPEN"
        BY <3>2, <4>2 DEF DebtRow
      <4> HIDE DEF g
      <4>q. QED
        BY <2>2, <3>2, <4>1, <4>3
    <3>q. QED
      BY <3>2, <3>3 DEF Paid
  <2>5. CASE ApplyReport(e)
    BY <2>5 DEF ApplyReport, Paid
  <2>q. QED
    BY <2>3, <2>4, <2>5
<1>7. \A f \in Source : Spendable(f)' = Spendable(f)
  BY <1>2 DEF Spendable
<1>q. QED
  BY <1>4, <1>5, <1>6, <1>7, IdleStep DEF IInv

-----------------------------------------------------------------------------
(* The money: afterwards *)

\* A step of an event that was not applied just now: it posts nothing, and moves
\* no money when neither side counts.
LEMMA AfterMoney ==
    ASSUME IInv, Ledger, MoneyAccounted, NEW e \in Event,
           \A x \in Event : x # e => event'[x] = event[x],
           Idle(event[e], event'[e]),
           event'[e].status = "APPLIED" => event[e].status = "APPLIED",
           event'[e].p.type = event[e].p.type,
           \A f \in Source :
              /\ fund'[f].status # "EXPECTED" /\ fund[f].status = "EXPECTED" =>
                    fund'[f].status = "DISPUTED"
              /\ fund[f].status # "EXPECTED" => fund'[f] = fund[f]
              /\ fund'[f].amount = fund[f].amount,
           \A b \in Bill : debt'[b] = debt[b]
    PROVE  Ledger' /\ MoneyAccounted'
<1>1. \A x \in Event : Idle(event[x], event'[x])
  BY SameRow
<1>2. Ledger'
  <2>1. \A x \in Event :
          /\ event'[x].p.type \in EXPECTED /\ event'[x].status = "APPLIED" =>
               event[x].p.type \in EXPECTED /\ event[x].status = "APPLIED"
          /\ Yields(event'[x]) => Yields(event[x])
          /\ Evolves(event[x], event'[x])
    BY <1>1 DEF Idle
  <2>2. \A f \in Source :
          /\ fund'[f].status = "EXPECTED" =>
               fund[f].status = "EXPECTED" /\ fund'[f].amount = fund[f].amount
          /\ fund'[f].status # "NONE" <=> fund[f].status # "NONE"
    OBVIOUS
  <2>3. \A x \in Event : x \in Source
    BY DEF Source
  <2>q. QED
    BY <2>1, <2>2, <2>3, LedgerStep DEF IInv
<1>3. /\ \A f \in Source : Spendable(f)' = Spendable(f)
      /\ \A b \in Bill : Paid(b)' = Paid(b)
  BY DEF Spendable, Paid
<1>q. QED
  BY <1>1, <1>2, <1>3, IdleStep DEF IInv

\* A dismissal moves no money: what it disputes could not be spent.
LEMMA DismissMoney ==
    ASSUME IInv, Ledger, MoneyAccounted, NEW e \in Event, Dismiss(e)
    PROVE  Ledger' /\ MoneyAccounted'
<1>1. event \in [Event -> EventRow] /\ fund \in [Source -> SourceRow]
  BY DEF IInv, Tables
<1>2. /\ event'[e].status = "DISMISSED" /\ event'[e].posted = event[e].posted
      /\ event'[e].p = event[e].p
      /\ \A x \in Event : x # e => event'[x] = event[x]
  BY <1>1 DEF Dismiss, Moved, EventRow
<1>3. /\ event[e].status # "RESOLVED"
      /\ event[e].status = "APPLIED" => event[e].p.type \in EXPECTED
  BY DEF Dismiss, Closed
<1>4. Idle(event[e], event'[e])
  BY <1>2, <1>3, MoneyTypes DEF Idle, Evolves, Brings, Yields, Costs, Past
<1>5. ASSUME NEW f \in Source
      PROVE  /\ fund'[f].status # "EXPECTED" /\ fund[f].status = "EXPECTED" =>
                    fund'[f].status = "DISPUTED"
             /\ fund[f].status # "EXPECTED" => fund'[f] = fund[f]
             /\ fund'[f].amount = fund[f].amount
  <2>1. fund'[f] = fund[f]
        \/ (fund[f].status = "EXPECTED" /\ fund'[f] = [fund[f] EXCEPT !.status = "DISPUTED"])
    BY DEF Dismiss, Unreceived
  <2>2. /\ [fund[f] EXCEPT !.status = "DISPUTED"].status = "DISPUTED"
        /\ [fund[f] EXCEPT !.status = "DISPUTED"].amount = fund[f].amount
    BY <1>1 DEF SourceRow
  <2>q. QED
    BY <2>1, <2>2
<1>6. debt' = debt
  BY DEF Dismiss
<1>q. QED
  BY <1>2, <1>4, <1>5, <1>6, AfterMoney

\* A resolved event goes on counting as it did.
LEMMA ResolveMoney ==
    ASSUME IInv, Ledger, MoneyAccounted, NEW e \in Event, Resolve(e)
    PROVE  Ledger' /\ MoneyAccounted'
<1>1. event \in [Event -> EventRow]
  BY DEF IInv, Tables
<1>2. /\ event'[e].status = "RESOLVED" /\ event'[e].posted = event[e].posted
      /\ event'[e].p = event[e].p
      /\ \A x \in Event : x # e => event'[x] = event[x]
  BY <1>1 DEF Resolve, Moved, EventRow
<1>3. /\ event[e].status = "APPLIED" /\ event[e].p.type \notin EXPECTED
      /\ UNCHANGED <<fund, debt>>
  BY DEF Resolve
<1>4. Idle(event[e], event'[e])
  BY <1>2, <1>3 DEF Idle, Evolves, Brings, Yields, Costs, Past
<1>q. QED
  BY <1>2, <1>3, <1>4, AfterMoney

\* A reminder moves no money.
LEMMA ReminderMoney ==
    ASSUME IInv, Ledger, MoneyAccounted, NEW e \in Event, Reminder(e)
    PROVE  Ledger' /\ MoneyAccounted'
<1>1. event \in [Event -> EventRow] /\ UNCHANGED <<fund, debt>>
  BY DEF IInv, Tables, Reminder
<1>2. /\ event'[e].status = event[e].status /\ event'[e].posted = event[e].posted
      /\ event'[e].p = event[e].p /\ event'[e].linked = event[e].linked
      /\ \A x \in Event : x # e => event'[x] = event[x]
  BY <1>1 DEF Reminder, EventRow
<1>3. Idle(event[e], event'[e])
  BY <1>2 DEF Ledger, Idle, Evolves, Brings, Yields, Costs
<1>q. QED
  BY <1>1, <1>2, <1>3, AfterMoney

\* A changed recurrence moves no money that was posted.
LEMMA ChangeRecurrenceMoney ==
    ASSUME IInv, Ledger, MoneyAccounted, NEW e \in Event, NEW amount \in Amounts,
           ChangeRecurrence(e, amount)
    PROVE  Ledger' /\ MoneyAccounted'
<1>1. event \in [Event -> EventRow] /\ UNCHANGED fund /\ event[e].status = "APPLIED"
  BY DEF IInv, Tables, ChangeRecurrence
<1> DEFINE p == [event[e].p EXCEPT !.amount = amount]
           t == Stored(event[e], p, event[e].fund, event[e].debt)
<1>2. event' = [event EXCEPT ![e] = t]
  BY <1>1 DEF ChangeRecurrence
<1>3. p.type = event[e].p.type
  <2>1. event[e].p \in Proposal
    BY <1>1, RowFields
  <2>q. QED
    BY <2>1 DEF Proposal
<1> HIDE DEF p
<1>4. t.status = event[e].status /\ t.posted = event[e].posted /\ t.p = p
  BY <1>1 DEF Stored, EventRow
<1> HIDE DEF t
<1>5. event'[e] = t /\ \A x \in Event : x # e => event'[x] = event[x]
  BY <1>1, <1>2
<1>6. Idle(event[e], event'[e])
  BY <1>1, <1>3, <1>4, <1>5 DEF Idle, Evolves, Brings, Yields, Costs, Past
<1>7. \A b \in Bill : debt'[b] = debt[b]
  <2>1. \A b \in Bill : b \in Debt /\ b \notin {e} \X (1..MaxDates)
    BY SlotAssumption DEF Debt
  <2>q. QED
    BY <2>1 DEF ChangeRecurrence
<1>q. QED
  BY <1>1, <1>3, <1>4, <1>5, <1>6, <1>7, AfterMoney

-----------------------------------------------------------------------------
(* The money: payments, receipts and expenses *)

\* The sources Covers admits are the student's own and available.
LEMMA Coverer ==
    ASSUME IInv, NEW f \in Source, NEW a \in Nat, Covers(f, a)
    PROVE  /\ Own(f) /\ fund[f].status = "AVAILABLE"
           /\ fund[f].amount \in Nat /\ fund[f].amount - a \in Nat
<1>1. fund[f] \in SourceRow /\ fund[f].amount \in Nat /\ fund[f].reserve \in Nat
  BY DEF IInv, Tables, SourceRow
<1>2. fund[f].amount - a \in Nat
  BY <1>1 DEF Covers
<1>3. Projected(f, event, fund[f]).status = "AVAILABLE" /\ Own(f)
  BY DEF Covers
<1>4. fund[f].status = "AVAILABLE"
  BY <1>3 DEF Projected
<1>q. QED
  BY <1>1, <1>2, <1>3, <1>4

\* A payment takes from its source what its bill then has.
LEMMA PayMoney ==
    ASSUME IInv, Ledger, MoneyAccounted, NEW a \in actions, Pay(a),
           fund[a.source].status = "AVAILABLE", Own(a.source), debt[a.bill].status = "OPEN"
    PROVE  Ledger' /\ MoneyAccounted'
<1> DEFINE f == a.source
           b == a.bill
           x == debt[b].amount
           rest == fund[f].amount - x
<1>1. f \in Source /\ b \in Bill /\ b \in Debt
  BY DEF IInv, Action, Debt
<1>2. /\ fund \in [Source -> SourceRow] /\ debt \in [Debt -> DebtRow]
      /\ fund[f] \in SourceRow /\ debt[b] \in DebtRow
      /\ fund[f].amount \in Nat /\ x \in Nat
  BY <1>1 DEF IInv, Tables, SourceRow, DebtRow
<1>3. /\ UNCHANGED event
      /\ fund' = [fund EXCEPT ![f] = [fund[f] EXCEPT !.amount = rest]]
      /\ debt' = [debt EXCEPT ![b] = [debt[b] EXCEPT !.status = "SANDBOX_PAID"]]
  BY <1>1, <1>2 DEF Pay
<1> HIDE DEF rest
<1>4. /\ [fund[f] EXCEPT !.amount = rest].amount = rest
      /\ [fund[f] EXCEPT !.amount = rest].status = "AVAILABLE"
      /\ [debt[b] EXCEPT !.status = "SANDBOX_PAID"].status = "SANDBOX_PAID"
      /\ [debt[b] EXCEPT !.status = "SANDBOX_PAID"].amount = x
  BY <1>2 DEF SourceRow, DebtRow
<1> HIDE DEF f, b, x
<1>5. /\ fund'[f].amount = rest /\ fund'[f].status = "AVAILABLE"
      /\ debt'[b].status = "SANDBOX_PAID" /\ debt'[b].amount = x
      /\ \A g \in Source : g # f => fund'[g] = fund[g]
      /\ \A d \in Bill : d # b => debt'[d] = debt[d]
  BY <1>1, <1>2, <1>3, <1>4 DEF Debt
<1>6. fund[f].status = "AVAILABLE" /\ Own(f) /\ debt[b].status = "OPEN"
  BY DEF f, b
<1>7. rest = fund[f].amount - x
  BY DEF rest, f, b, x
<1>8. \A y \in Event : Idle(event[y], event'[y])
  BY <1>3, SameRow
<1>9. \A e \in Event : Brought(e)' = Brought(e) /\ Took(e)' = Took(e)
  BY <1>8, IdleRow DEF Idle, IInv
<1>10. Ledger'
  <2>1. \A g \in Source : /\ fund'[g].status = fund[g].status
                          /\ fund'[g].status = "EXPECTED" => fund'[g].amount = fund[g].amount
    BY <1>5, <1>6
  <2>2. \A y \in Event : y \in Source
    BY DEF Source
  <2>3. \A y \in Event :
          /\ event'[y].p.type \in EXPECTED /\ event'[y].status = "APPLIED" =>
               event[y].p.type \in EXPECTED /\ event[y].status = "APPLIED"
          /\ Yields(event'[y]) => Yields(event[y])
          /\ Evolves(event[y], event'[y])
    BY <1>3, <1>8 DEF Idle
  <2>q. QED
    BY <2>1, <2>2, <2>3, LedgerStep DEF IInv
<1>11. Moves(Source, [g \in Source |-> Spendable(g)], [g \in Source |-> Spendable(g)'], 0 - x)
  <2>1. Spendable(f) = fund[f].amount /\ Spendable(f)' = rest
    BY <1>5, <1>6 DEF Spendable, Own
  <2>2. \A g \in Source : g # f => Spendable(g)' = Spendable(g)
    BY <1>5 DEF Spendable
  <2>3. rest = fund[f].amount + (0 - x)
    BY <1>2, <1>7 DEF f, b, x
  <2>q. QED
    BY <1>1, <2>1, <2>2, <2>3 DEF Moves, f
<1>12. Moves(Bill, [d \in Bill |-> Paid(d)], [d \in Bill |-> Paid(d)'], x)
  <2>1. Paid(b) = 0 /\ Paid(b)' = x
    BY <1>5, <1>6 DEF Paid
  <2>2. \A d \in Bill : d # b => Paid(d)' = Paid(d)
    BY <1>5 DEF Paid
  <2>3. x = 0 + x
    BY <1>2 DEF x
  <2>q. QED
    BY <1>1, <2>1, <2>2, <2>3 DEF Moves, b
<1>13. /\ Moves(Event, [e \in Event |-> Brought(e)], [e \in Event |-> Brought(e)'], 0)
       /\ Moves(Event, [e \in Event |-> Took(e)], [e \in Event |-> Took(e)'], 0)
  BY <1>9 DEF Moves
<1>14. x \in Int /\ 0 - x \in Int /\ 0 - x = 0 - 0 - x
  BY <1>2 DEF x
<1>q. QED
  BY <1>10, <1>11, <1>12, <1>13, <1>14, BooksMove DEF IInv

\* What a receipt or a received source puts in is what its event brings.
LEMMA BringMoney ==
    ASSUME IInv, Ledger, MoneyAccounted, NEW e \in Event, NEW f \in Source, NEW x \in Nat,
           \A y \in Event : y # e => event'[y] = event[y],
           Evolves(event[e], event'[e]), Took(e) = 0, Took(e)' = 0,
           Brought(e) = 0, Brought(e)' = x,
           Spendable(f) = 0, Spendable(f)' = x,
           \A g \in Source : g # f => fund'[g] = fund[g],
           \A b \in Bill : debt'[b] = debt[b]
    PROVE  MoneyAccounted'
<1>1. \A y \in Event : Evolves(event[y], event'[y])
  BY SameRow DEF Idle
<1>2. \A y \in Event : y # e => Brought(y)' = Brought(y) /\ Took(y)' = Took(y)
  BY <1>1, SameRow, IdleRow DEF IInv
<1>3. Moves(Source, [g \in Source |-> Spendable(g)], [g \in Source |-> Spendable(g)'], x)
  <2>1. \A g \in Source : g # f => Spendable(g)' = Spendable(g)
    BY DEF Spendable
  <2>q. QED
    BY <2>1 DEF Moves
<1>4. Moves(Event, [y \in Event |-> Brought(y)], [y \in Event |-> Brought(y)'], x)
  BY <1>2 DEF Moves
<1>5. Moves(Event, [y \in Event |-> Took(y)], [y \in Event |-> Took(y)'], 0)
  <2>1. \A y \in Event : Took(y)' = Took(y)
    BY <1>2
  <2>q. QED
    BY <2>1 DEF Moves
<1>6. Moves(Bill, [d \in Bill |-> Paid(d)], [d \in Bill |-> Paid(d)'], 0)
  BY DEF Moves, Paid
<1>q. QED
  BY <1>3, <1>4, <1>5, <1>6, BooksMove DEF IInv

\* An applied receipt or loan puts in what it posts, an expectation nothing.
LEMMA ApplyFundingMoney ==
    ASSUME IInv, Ledger, MoneyAccounted, NEW e \in Event, ApplyFunding(e)
    PROVE  Ledger' /\ MoneyAccounted'
<1>1. /\ Applicable(e) /\ event[e].p.type \in EXPECTED \cup Received
      /\ event'[e].status = "APPLIED" /\ event'[e].p = event[e].p
      /\ event'[e].posted = event[e].p.amount /\ event[e].status = "CONFIRMED"
      /\ \A x \in Event : x # e => event'[x] = event[x]
  <2>1. event[e].p.type \in EXPECTED \cup Received /\ ~ApplyExpense(e)
    BY MoneyTypes DEF ApplyFunding, ApplyExpense
  <2>q. QED
    BY <2>1, AppliedRow DEF ApplyNext
<1> DEFINE x == event[e].p.amount
<1>2. x \in Nat /\ x > 0
  <2>1. x \in Nat
    BY <1>1, ApplicableRow DEF Proposal
  <2>2. x # 0
    <3>1. event[e].p.type \notin {"OTHER", "ACCOUNT_UNAVAILABLE"}
      BY <1>1 DEF EXPECTED, Received
    <3>q. QED
      BY <1>1, <3>1 DEF Applicable, MissingFields
  <2>q. QED
    BY <2>1, <2>2
<1>3. e \in Source /\ fund \in [Source -> SourceRow] /\ fund[e].status = "NONE"
  BY <1>1 DEF Source, IInv, Tables, Ledger, Past
<1>4. /\ fund'[e].amount = x
      /\ fund'[e].status = IF event[e].p.type \in Received THEN "AVAILABLE" ELSE "EXPECTED"
      /\ \A g \in Source : g # e => fund'[g] = fund[g]
  BY <1>3 DEF ApplyFunding
<1> HIDE DEF x
<1>5. \A b \in Bill : debt'[b] = debt[b]
  <2>1. \A b \in Bill : b \in Debt /\ b # <<e, 1>>
    BY SlotAssumption, InputAssumption DEF Debt
  <2>2. debt \in [Debt -> DebtRow]
    BY DEF IInv, Tables
  <2>q. QED
    BY <2>1, <2>2 DEF ApplyFunding
<1>6. Evolves(event[e], event'[e]) /\ ~Yields(event'[e]) /\ event'[e].posted = x
  BY <1>1 DEF Evolves, Yields, Past, x
<1>7. \A y \in Event : Evolves(event[y], event'[y])
  BY <1>1, <1>6, SameRow DEF Idle
<1>8. Ledger'
  <2>1. \A f \in Source : fund'[f].status = "EXPECTED" =>
          \/ fund[f].status = "EXPECTED" /\ fund'[f].amount = fund[f].amount
          \/ f \in Event /\ event'[f].posted > 0 /\ fund'[f].amount = event'[f].posted
    BY <1>2, <1>4, <1>6
  <2>2. \A y \in Event :
          /\ fund'[y].status # "NONE" => fund[y].status # "NONE" \/ event'[y].status \in Past
          /\ fund[y].status # "NONE" => fund'[y].status # "NONE"
    BY <1>1, <1>3, <1>4 DEF Past, Source
  <2>3. \A y \in Event :
          /\ event'[y].p.type \in EXPECTED /\ event'[y].status = "APPLIED" =>
                \/ event[y].p.type \in EXPECTED /\ event[y].status = "APPLIED"
                \/ fund'[y].status # "NONE"
          /\ Yields(event'[y]) => Yields(event[y])
    BY <1>1, <1>4, <1>6
  <2>q. QED
    BY <1>7, <2>1, <2>2, <2>3, LedgerStep DEF IInv
<1>9. /\ Took(e) = 0 /\ Took(e)' = 0 /\ Brought(e) = 0 /\ Spendable(e) = 0
  BY <1>1, <1>3, MoneyTypes DEF Took, Brought, Counted, Spendable
<1>10. CASE event[e].p.type \in Received
  <2>1. Brought(e)' = x /\ Spendable(e)' = x
    BY <1>1, <1>4, <1>6, <1>10 DEF Brought, Counted, Spendable, Own
  <2>q. QED
    BY <1>1, <1>2, <1>3, <1>4, <1>5, <1>6, <1>8, <1>9, <2>1, BringMoney
<1>11. CASE event[e].p.type \notin Received
  <2>1. Brought(e)' = 0 /\ Spendable(e)' = 0
    BY <1>1, <1>4, <1>11 DEF Brought, Counted, Spendable
  <2>q. QED
    BY <1>1, <1>3, <1>4, <1>5, <1>6, <1>8, <1>9, <2>1, BringMoney
<1>q. QED
  BY <1>10, <1>11

\* A received expectation puts in what its source was expected to bring.
LEMMA ReceiveMoney ==
    ASSUME IInv, Ledger, MoneyAccounted, NEW e \in Event, Receive(e)
    PROVE  Ledger' /\ MoneyAccounted'
<1>0. PICK l : l = IF event[e].linked = None THEN e ELSE event[e].linked
  OBVIOUS
<1> DEFINE m == Moved(event[e], "RESOLVED")
           t == [m EXCEPT !.linked = l]
<1>1. /\ event \in [Event -> EventRow] /\ fund \in [Source -> SourceRow]
      /\ event[e] \in EventRow /\ e \in Source /\ l \in Source
  <2>1. event \in [Event -> EventRow] /\ fund \in [Source -> SourceRow]
    BY DEF IInv, Tables
  <2>2. event[e] \in EventRow /\ e \in Source
    BY <2>1 DEF Source
  <2>3. event[e].linked \in Source \cup {None}
    BY <2>2, RowFields
  <2>q. QED
    BY <1>0, <2>1, <2>2, <2>3
<1>2. /\ event[e].p.type \in EXPECTED /\ event[e].p.amount > 0 /\ event[e].p.amount \in Nat
      /\ event[e].status \notin Closed /\ event' = [event EXCEPT ![e] = t] /\ debt' = debt
  <2>1. event[e].p.amount \in Nat
    BY <1>1, RowFields DEF Proposal
  <2>q. QED
    BY <1>0, <2>1 DEF Receive
<1>3. t.status = "RESOLVED" /\ t.p = event[e].p /\ t.posted = event[e].posted /\ t.linked = l
  <2>1. m.status = "RESOLVED" /\ m.p = event[e].p /\ m.posted = event[e].posted /\ m \in EventRow
    <3>1. "RESOLVED" \in EventStatus /\ event[e].version < MaxVersion
      BY DEF EventStatus, Receive
    <3>q. QED
      BY <3>1, MovedRow
  <2> HIDE DEF m
  <2>q. QED
    BY <2>1 DEF EventRow
<1> HIDE DEF t
<1>4. event'[e] = t /\ \A y \in Event : y # e => event'[y] = event[y]
  BY <1>1, <1>2
<1>5. event[e].status # "RESOLVED"
  BY <1>2 DEF Closed
<1>x. PICK x : x = Brought(e)'
  OBVIOUS
<1>6. x = IF l \in DOMAIN SeedSource THEN SeedSource[l].amount
          ELSE IF event'[l].posted > 0 THEN event'[l].posted ELSE event'[l].p.amount
  <2>1. /\ event'[e].status = "RESOLVED" /\ event'[e].p.type \in EXPECTED
        /\ event'[e].p.type \notin Received /\ event'[e].linked = l
    BY <1>2, <1>3, <1>4, MoneyTypes
  <2>q. QED
    BY <1>x, <2>1 DEF Brought, Counted
<1>7. /\ fund'[l].status = "AVAILABLE" /\ fund'[l].amount = x /\ Own(l) /\ x \in Nat
      /\ fund[l].status # "AVAILABLE" /\ Origin(event, e, l)
      /\ \A g \in Source : g # l => fund'[g] = fund[g]
  <2>1. CASE event[e].linked = None
    <3>1. l = e /\ fund[e].status = "NONE"
      BY <1>0, <2>1 DEF Receive
    <3>2. event'[e].posted = 0 /\ event'[e].p = event[e].p
      <4>1. event[e].status \notin Past
        BY <1>2, <1>5, <3>1 DEF Ledger, Past, Closed
      <4>2. event[e].posted \in Nat
        BY <1>1, RowFields
      <4>q. QED
        BY <1>3, <1>4, <4>1, <4>2 DEF Ledger
    <3>3. e \notin DOMAIN SeedSource
      BY SlotAssumption
    <3>4. x = event[e].p.amount
      BY <1>6, <3>1, <3>2, <3>3
    <3>5. fund' = [fund EXCEPT ![e] =
                      [amount |-> event[e].p.amount, reserve |-> 0, status |-> "AVAILABLE"]]
      BY <2>1 DEF Receive
    <3>q. QED
      BY <1>1, <1>2, <3>1, <3>4, <3>5 DEF Own, Origin
  <2>2. CASE event[e].linked # None
    <3>1. /\ l = event[e].linked /\ Own(l) /\ fund[l].status = "EXPECTED"
          /\ fund' = [fund EXCEPT ![l] = [fund[l] EXCEPT !.status = "AVAILABLE"]]
      BY <1>0, <2>2, <1>1 DEF Receive, Unreceived
    <3>2. /\ fund'[l].status = "AVAILABLE" /\ fund'[l].amount = fund[l].amount
          /\ \A g \in Source : g # l => fund'[g] = fund[g]
      <4> DEFINE row == [fund[l] EXCEPT !.status = "AVAILABLE"]
      <4>1. row.status = "AVAILABLE" /\ row.amount = fund[l].amount
        BY <1>1 DEF SourceRow
      <4> HIDE DEF row
      <4>2. fund' = [fund EXCEPT ![l] = row]
        BY <3>1 DEF row
      <4>q. QED
        BY <1>1, <4>1, <4>2
    <3>3. fund[l].amount \in Nat
      BY <1>1 DEF SourceRow
    <3>4. CASE l \in DOMAIN SeedSource
      <4>1. fund[l].amount = SeedSource[l].amount /\ l \notin Event
        BY <3>1, <3>4, SlotAssumption DEF Ledger
      <4>2. x = fund[l].amount
        BY <1>6, <3>4, <4>1
      <4>q. QED
        BY <1>1, <3>1, <3>2, <3>3, <4>1, <4>2 DEF Origin
    <3>5. CASE l \notin DOMAIN SeedSource
      <4>1. l \in Event
        BY <1>1, <3>5 DEF Source
      <4>2. event[l].posted > 0 /\ fund[l].amount = event[l].posted
        BY <3>1, <4>1 DEF Ledger
      <4>3. event'[l].posted = event[l].posted
        BY <1>3, <1>4, <4>1
      <4>4. x = fund[l].amount
        BY <1>6, <3>5, <4>2, <4>3
      <4>q. QED
        BY <1>1, <3>1, <3>2, <3>3, <4>2, <4>4 DEF Origin
    <3>q. QED
      BY <3>4, <3>5
  <2>q. QED
    BY <2>1, <2>2
<1>8. /\ Evolves(event[e], event'[e]) /\ Took(e) = 0 /\ Took(e)' = 0 /\ Brought(e) = 0
      /\ Spendable(l) = 0 /\ Spendable(l)' = x
  <2>1. Evolves(event[e], event'[e])
    BY <1>3, <1>4, <1>5 DEF Evolves, Past
  <2>2. event'[e].p.type \in EXPECTED /\ event[e].p.type \in EXPECTED
    BY <1>2, <1>3, <1>4
  <2>3. Took(e) = 0 /\ Took(e)' = 0 /\ Brought(e) = 0
    BY <1>5, <2>2, MoneyTypes DEF Took, Brought
  <2>4. Spendable(l) = 0 /\ Spendable(l)' = x
    BY <1>7 DEF Spendable, Own
  <2>q. QED
    BY <2>1, <2>3, <2>4
<1>9. MoneyAccounted'
  BY <1>1, <1>2, <1>4, <1>7, <1>8, BringMoney, <1>x
<1>10. Ledger'
  <2>1. \A y \in Event : Evolves(event[y], event'[y])
    BY <1>4, <1>8, SameRow DEF Idle
  <2>2. \A f \in Source : fund'[f].status = "EXPECTED" =>
          fund[f].status = "EXPECTED" /\ fund'[f].amount = fund[f].amount
    BY <1>7
  <2>3. \A y \in Event :
          /\ event'[y].p.type \in EXPECTED /\ event'[y].status = "APPLIED" =>
               event[y].p.type \in EXPECTED /\ event[y].status = "APPLIED"
          /\ Yields(event'[y]) => Yields(event[y]) \/ Origin(event, y, event'[y].linked)
    BY <1>3, <1>4, <1>7
  <2>4. \A y \in Event :
          /\ fund'[y].status # "NONE" => fund[y].status # "NONE" \/ event'[y].status \in Past
          /\ fund[y].status # "NONE" => fund'[y].status # "NONE"
    <3>1. l = e \/ fund[l].status = "EXPECTED"
      BY <1>0 DEF Receive, Unreceived
    <3>q. QED
      BY <1>3, <1>4, <1>7, <3>1 DEF Past, Source
  <2>q. QED
    BY <2>1, <2>2, <2>3, <2>4, LedgerStep DEF IInv
<1>q. QED
  BY <1>9, <1>10

\* An expense takes from its source what it posts.
LEMMA ApplyExpenseMoney ==
    ASSUME IInv, Ledger, MoneyAccounted, NEW e \in Event, ApplyExpense(e)
    PROVE  Ledger' /\ MoneyAccounted'
<1>0. PICK x, f : x = event[e].p.amount /\ f = event[e].fund
  OBVIOUS
<1> DEFINE g == event[e].debt
           child == ChildOf(event[e].p)
<1>1. /\ Applicable(e) /\ event[e].p.type \in EXPENSES /\ Covers(f, x)
      /\ event'[e].status = "APPLIED" /\ event'[e].p = event[e].p
      /\ event'[e].posted = x /\ event[e].status = "CONFIRMED"
  BY <1>0, AppliedRow DEF ApplyExpense, ApplyNext
<1>2. x \in Nat /\ f \in Source /\ event[e].p \in Proposal
      /\ fund \in [Source -> SourceRow] /\ event \in [Event -> EventRow]
  <2>1. f # None
    BY <1>0, <1>1 DEF Applicable, MissingFields
  <2>q. QED
    BY <1>0, <1>1, <2>1, ApplicableRow DEF Proposal, IInv, Tables
<1>3. Own(f) /\ fund[f].status = "AVAILABLE" /\ fund[f].amount \in Nat
  BY <1>1, <1>2, Coverer
<1>4. /\ fund'[f].amount = fund[f].amount - x /\ fund'[f].status = "AVAILABLE"
      /\ \A h \in Source : h # f => fund'[h] = fund[h]
  <2> DEFINE rest == fund[f].amount - x
             row == [fund[f] EXCEPT !.amount = rest]
  <2>1. fund' = [fund EXCEPT ![f] = row]
    BY <1>0 DEF ApplyExpense
  <2> HIDE DEF rest
  <2>2. row.amount = rest /\ row.status = "AVAILABLE"
    BY <1>2, <1>3 DEF SourceRow
  <2> HIDE DEF row
  <2>3. /\ fund'[f].amount = rest /\ fund'[f].status = "AVAILABLE"
        /\ \A h \in Source : h # f => fund'[h] = fund[h]
    BY <1>2, <2>1, <2>2
  <2>q. QED
    BY <2>3 DEF rest
<1>5. \A b \in Bill : debt'[b] = debt[b]
  <2>1. g # None => g \notin Bill
    <3>1. g # None => event[e].p.type = "EXPENSE_OCCURRED"
      BY <1>1, Types DEF IInv, Rows, Sound
    <3>q. QED
      BY <1>1, <3>1 DEF Applicable, ValidLinks
  <2>2. \A b \in Bill : b \in Debt /\ b \notin {g} \ {None}
    BY <2>1 DEF Debt
  <2>3. debt' = [d \in Debt |-> IF d \in {g} \ {None}
                                THEN [debt[d] EXCEPT !.status = "PAID", !.version = @ + 1]
                                ELSE debt[d]]
    BY DEF ApplyExpense
  <2> HIDE DEF g
  <2>q. QED
    BY <2>2, <2>3
<1>6. child.status = "REVIEW_REQUIRED" /\ child.posted = 0
  BY DEF ChildOf, New, NoEvent
<1> HIDE DEF child
<1>7. \A y \in Event : \/ y = e
                       \/ event[y].status = "NONE" /\ event'[y] = child
                       \/ event'[y] = event[y]
  <2>1. PICK children \in FreeChildren(event[e].p) :
          event' = [y \in Event |-> IF y = e THEN Applied(e)
                                    ELSE IF y \in children THEN child ELSE event[y]]
    BY DEF ApplyExpense, child
  <2>2. \A y \in children : event[y].status = "NONE"
    BY DEF FreeChildren
  <2>q. QED
    BY <2>1, <2>2
<1>8. \A y \in Event : y # e => Idle(event[y], event'[y])
  <2>1. ASSUME NEW y \in Event, event[y].status = "NONE", event'[y] = child
        PROVE  Idle(event[y], event'[y])
    BY <1>6, <2>1 DEF Idle, Evolves, Brings, Yields, Costs, Past
  <2>q. QED
    BY <1>7, <2>1, SameRow
<1>9. Evolves(event[e], event'[e])
  BY <1>1 DEF Evolves, Past
<1>10. \A y \in Event : Evolves(event[y], event'[y])
  BY <1>8, <1>9 DEF Idle
<1>11. Ledger'
  <2>1. \A h \in Source : /\ fund'[h].status = fund[h].status
                          /\ fund'[h].status = "EXPECTED" => fund'[h].amount = fund[h].amount
    BY <1>3, <1>4
  <2>2. \A y \in Event : y \in Source
    BY DEF Source
  <2>3. \A y \in Event :
          /\ event'[y].p.type \in EXPECTED /\ event'[y].status = "APPLIED" =>
               event[y].p.type \in EXPECTED /\ event[y].status = "APPLIED"
          /\ Yields(event'[y]) => Yields(event[y])
    BY <1>1, <1>6, <1>7, MoneyTypes DEF Yields
  <2>q. QED
    BY <1>10, <2>1, <2>2, <2>3, LedgerStep DEF IInv
<1>12. \A y \in Event : y # e => Brought(y)' = Brought(y) /\ Took(y)' = Took(y)
  BY <1>8, <1>10, IdleRow DEF IInv
<1>13. Brought(e) = 0 /\ Brought(e)' = 0 /\ Took(e) = 0 /\ Took(e)' = x
  BY <1>1, MoneyTypes DEF Brought, Took, Counted
<1>14. Moves(Source, [h \in Source |-> Spendable(h)], [h \in Source |-> Spendable(h)'], 0 - x)
  <2>1. Spendable(f) = fund[f].amount /\ Spendable(f)' = fund[f].amount - x
    BY <1>3, <1>4 DEF Spendable, Own
  <2>2. \A h \in Source : h # f => Spendable(h)' = Spendable(h)
    BY <1>4 DEF Spendable
  <2>3. Spendable(f)' = Spendable(f) + (0 - x)
    BY <1>2, <1>3, <2>1
  <2>q. QED
    BY <1>2, <2>2, <2>3 DEF Moves
<1>15. Moves(Event, [y \in Event |-> Took(y)], [y \in Event |-> Took(y)'], x)
  <2>1. Took(e)' = Took(e) + x
    BY <1>2, <1>13
  <2>q. QED
    BY <1>12, <2>1 DEF Moves
<1>16. Moves(Event, [y \in Event |-> Brought(y)], [y \in Event |-> Brought(y)'], 0)
  <2>1. \A y \in Event : Brought(y)' = Brought(y)
    BY <1>12, <1>13
  <2>q. QED
    BY <2>1 DEF Moves
<1>17. Moves(Bill, [d \in Bill |-> Paid(d)], [d \in Bill |-> Paid(d)'], 0)
  BY <1>5 DEF Moves, Paid
<1>18. x \in Int /\ 0 - x \in Int /\ 0 - x = 0 - x - 0
  BY <1>2
<1>q. QED
  BY <1>11, <1>14, <1>15, <1>16, <1>17, <1>18, BooksMove DEF IInv

-----------------------------------------------------------------------------
(* The money: the books *)

\* A prepared payment was prepared for an open bill, from available money of the
\* student's own.
Backed ==
    \A a \in actions :
        /\ Own(a.source) /\ a.hash.fund[a.source].status = "AVAILABLE"
        /\ a.hash.debt[a.bill].status = "OPEN"

\* The inductive invariant of the books.
Books == IInv /\ Ledger /\ Backed /\ MoneyAccounted

\* An executed payment takes what its bill then shows as paid.
LEMMA PaymentMoney ==
    ASSUME Books, NEW a \in actions, Pay(a)
    PROVE  Ledger' /\ MoneyAccounted'
<1>1. a.hash = FinancialState /\ a.source \in Source
  BY DEF Pay, Books, IInv, Action
<1>2. /\ FinancialState.fund[a.source] = Projected(a.source, event, fund[a.source])
      /\ FinancialState.debt = debt
  BY <1>1 DEF FinancialState, StateOf
<1>3. /\ fund[a.source].status = "AVAILABLE" /\ Own(a.source)
      /\ debt[a.bill].status = "OPEN"
  BY <1>1, <1>2 DEF Books, Backed, Projected
<1>q. QED
  BY <1>3, PayMoney DEF Books

\* A prepared payment stays as it was prepared, until it is cleared.
LEMMA BackedStep ==
    ASSUME Books, [Next]_vars
    PROVE  Backed'
<1>1. CASE UNCHANGED actions
  BY <1>1 DEF Books, Backed, Own
<1>2. CASE actions' = {}
  BY <1>2 DEF Backed
<1>3. ASSUME NEW b \in Bill, NEW f \in Source, Prepare(b, f)
      PROVE  Backed'
  <2>1. Own(f) /\ Projected(f, event, fund[f]).status = "AVAILABLE" /\ debt[b].status = "OPEN"
    BY <1>3 DEF Prepare, Covers
  <2>2. FinancialState.fund[f].status = "AVAILABLE" /\ FinancialState.debt[b].status = "OPEN"
    BY <2>1 DEF FinancialState, StateOf
  <2>3. actions' = actions \cup {[hash |-> FinancialState, bill |-> b, source |-> f]}
    BY <1>3 DEF Prepare
  <2>q. QED
    BY <2>1, <2>2, <2>3 DEF Books, Backed, Own
<1>4. ASSUME NEW e \in Event, ReviewNext(e)
      PROVE  UNCHANGED actions \/ actions' = {}
  BY <1>4 DEF ReviewNext, Capture, PurchaseCheck, Simulate, Confirm, Retire
<1>5. ASSUME NEW e \in Event, ApplyNext(e)
      PROVE  actions' = {}
  BY <1>5 DEF ApplyNext, ApplyExpense, ApplyFunding, ApplyObligation, ApplyChange,
              ApplyReport, Replan
<1>6. ASSUME NEW e \in Event, AfterNext(e)
      PROVE  UNCHANGED actions \/ actions' = {}
  BY <1>6 DEF AfterNext, Dismiss, Receive, Resolve, Reminder, ChangeRecurrence, Invalidate
<1>7. CASE OtherNext
  BY <1>1, <1>2, <1>3, <1>7 DEF OtherNext, GeneratePlan, PatchFund, Pay, Invalidate, Replan
<1>q. QED
  BY <1>1, <1>2, <1>4, <1>5, <1>6, <1>7 DEF Next, vars

\* Before any event the spendable money is what the student opened with.
LEMMA InitBooks == Init => Books
<1>1. SUFFICES ASSUME Init
               PROVE  Books
  OBVIOUS
<1>2. IInv /\ Backed
  BY <1>1, InitInv DEF Init, Backed
<1>3. \A e \in Event : event[e].status = "NONE" /\ event[e].posted = 0
  BY <1>1 DEF Init, NoEvent
<1>4. /\ \A f \in DOMAIN SeedSource : fund[f] = SeedSource[f]
      /\ \A e \in Event : fund[e].status = "NONE"
  BY <1>1, SlotAssumption DEF Init, NoSource, Source
<1>5. Ledger
  BY <1>3, <1>4 DEF Ledger
<1>6. \A b \in Bill : debt[b].status = "OPEN"
  BY <1>1 DEF Init, Debt
<1>7. /\ IsFiniteSet(Event) /\ IsFiniteSet(Bill) /\ IsFiniteSet(Source)
      /\ OwnSource \in SUBSET Source
  BY FiniteAssumption, SlotAssumption, FS_Union DEF Source
<1> DEFINE sp == [f \in Source |-> Spendable(f)]
           op == [f \in OwnSource |-> Opening(f)]
           br == [e \in Event |-> Brought(e)]
           to == [e \in Event |-> Took(e)]
           pa == [b \in Bill |-> Paid(b)]
<1>8. /\ \A e \in Event : br[e] = 0 /\ to[e] = 0
      /\ \A b \in Bill : pa[b] = 0
  BY <1>3, <1>6 DEF Brought, Took, Counted, Paid
<1>9. /\ \A f \in OwnSource : sp[f] = op[f]
      /\ \A f \in Source \ OwnSource : sp[f] = 0
      /\ \A f \in Source : sp[f] \in Int
  <2>1. \A f \in Source : Spendable(f) \in Int
    BY <1>2, <1>5, Amounted DEF IInv
  <2>2. \A f \in OwnSource : Spendable(f) = Opening(f) /\ f \in Source
    BY <1>4, SlotAssumption DEF Spendable, Opening, Own, Source
  <2>3. \A f \in Source \ OwnSource : Spendable(f) = 0
    BY <1>4 DEF Spendable, Own
  <2>q. QED
    BY <2>1, <2>2, <2>3
<1>10. MoneyAccounted <=>
         SumFunctionOnSet(sp, Source) = SumFunctionOnSet(op, OwnSource)
           + SumFunctionOnSet(br, Event) - SumFunctionOnSet(to, Event)
           - SumFunctionOnSet(pa, Bill)
  BY DEF MoneyAccounted
<1> HIDE DEF sp, op, br, to, pa
<1>11. /\ SumFunctionOnSet(br, Event) = 0 /\ SumFunctionOnSet(to, Event) = 0
       /\ SumFunctionOnSet(pa, Bill) = 0
  BY <1>7, <1>8, SumOfZeros
<1>12. IsFiniteSet(OwnSource) /\ IsFiniteSet(Source \ OwnSource)
  BY <1>7, FS_Subset
<1>13. SumFunctionOnSet(sp, OwnSource) = SumFunctionOnSet(op, OwnSource)
  BY <1>9, <1>12, SumOfSame
<1>14. SumFunctionOnSet(sp, Source \ OwnSource) = 0
  BY <1>9, <1>12, SumOfZeros
<1>15. SumFunctionOnSet(sp, Source)
         = SumFunctionOnSet(sp, OwnSource) + SumFunctionOnSet(sp, Source \ OwnSource)
  BY <1>7, <1>9, SumOfParts
<1>16. SumFunctionOnSet(sp, OwnSource) \in Int
  <2>1. \A f \in OwnSource : sp[f] \in Int
    BY <1>7, <1>9
  <2>q. QED
    BY <1>12, <2>1, SumInt
<1>q. QED
  BY <1>2, <1>5, <1>10, <1>11, <1>13, <1>14, <1>15, <1>16 DEF Books

\* Every step keeps the books.
LEMMA NextBooks ==
    ASSUME Corrections = {}
    PROVE  Books /\ [Next]_vars => Books'
<1>1. SUFFICES ASSUME Books, [Next]_vars
               PROVE  Ledger' /\ MoneyAccounted'
  BY BackedStep, NextInv DEF Books
<1>2. IInv /\ Ledger /\ MoneyAccounted
  BY <1>1 DEF Books
<1>3. CASE UNCHANGED <<event, fund, debt>>
  BY <1>2, <1>3 DEF Ledger, MoneyAccounted, Spendable, Brought, Took, Paid, Counted
<1>4. ASSUME NEW e \in Event, ReviewNext(e)
      PROVE  Ledger' /\ MoneyAccounted'
  BY <1>2, <1>4, CaptureMoney, ReviewedMoney DEF ReviewNext
<1>5. ASSUME NEW e \in Event, ApplyNext(e)
      PROVE  Ledger' /\ MoneyAccounted'
  BY <1>2, <1>5, ApplyExpenseMoney, ApplyFundingMoney, ApplyOtherMoney DEF ApplyNext
<1>6. ASSUME NEW e \in Event, AfterNext(e)
      PROVE  Ledger' /\ MoneyAccounted'
  BY <1>2, <1>6, DismissMoney, ReceiveMoney, ResolveMoney, ReminderMoney,
     ChangeRecurrenceMoney DEF AfterNext
<1>7. CASE OtherNext
  BY <1>1, <1>3, <1>7, PaymentMoney DEF OtherNext, GeneratePlan, Prepare
<1>q. QED
  BY <1>1, <1>3, <1>4, <1>5, <1>6, <1>7 DEF Next, vars

\* Where the owner corrects no balance, her spendable money is what she opened with,
\* plus every receipt and loan once, less every applied expense and every executed
\* payment once.
THEOREM MoneyIsAccounted ==
    ASSUME Corrections = {}
    PROVE  Spec => []MoneyAccounted
<1>1. Books => MoneyAccounted
  BY DEF Books
<1>q. QED
  BY <1>1, InitBooks, NextBooks, PTL DEF Spec

=============================================================================
