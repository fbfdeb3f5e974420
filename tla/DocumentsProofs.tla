-------------------------- MODULE DocumentsProofs --------------------------
(***************************************************************************)
(* Theorems about Documents for every number of documents, commitments and *)
(* lines, and for every document a student may upload.                     *)
(***************************************************************************)
EXTENDS Documents, TLAPS

\* A payment is prepared for a commitment that is there.
Action == {a \in [hash : State, bill : Bill, to : Value] : a.hash.bill[a.bill] # None}

TypeInv ==
    /\ doc \in [Document -> DocRow]
    /\ \A d \in Document : doc[d].input \in Inputs \cup {NoInput}
    /\ bill \in [Bill -> BillRow \cup {None}]
    /\ notice \subseteq NoticeRow
    /\ plans \subseteq State
    /\ actions \subseteq Action

\* What the rows of one document say about each other: facts are there only when the
\* document was read, stand for lines of its text, and are disputed when two lines of
\* the text give one field two values; a complete document has the facts it needs; and
\* the related commitment is there.
Read(d) ==
    /\ doc[d].status \in {"NONE", "UPLOADED"} => Rows(d) = {}
    /\ \A i \in Rows(d) : i \in 1..Len(doc[d].input.lines)
    /\ \A i \in 1..MaxLines :
          doc[d].fact[i] \in {"EXTRACTED", "REVIEW_REQUIRED", "USER_CONFIRMED"} =>
              \A j \in 1..Len(doc[d].input.lines) :
                  doc[d].input.lines[j].field = doc[d].input.lines[i].field
                  => doc[d].input.lines[j].value = doc[d].input.lines[i].value
    /\ doc[d].status = "CONFIRMED" =>
          (IF doc[d].input.notice THEN NOTICE_FIELDS ELSE CRITICAL_FIELDS)
             \subseteq FieldsOf(d, Confirmed(d))
    /\ doc[d].status # "NONE" /\ doc[d].input.target # None
          => doc[d].input.target \in Bill /\ Exists(doc[d].input.target)

ReadInv == \A d \in Document : Read(d)

Versions == \A b \in Bill : Exists(b) => bill[b].version >= 1

IInv == /\ TypeInv /\ ReadInv /\ Versions
        /\ FlaggedNeverPromoted /\ RowsRestOnEvidence /\ OneBillPerDocument
        /\ PaymentsKnowHolds /\ ForeignBeneficiaryHolds

-----------------------------------------------------------------------------
(* Facts about the operators *)

\* The empty rows are rows.
LEMMA EmptyRows == NoInput \in Input /\ NoDoc \in DocRow
<1>1. NoInput \in Input
  BY DEF NoInput, Input
<1>2. NoDoc.fact \in [1..MaxLines -> FactStatus]
  BY DEF NoDoc, FactStatus
<1> QED BY <1>1, <1>2 DEF NoDoc, DocRow, DocStatus

\* A line of a well-typed document is a line.
LEMMA LineType ==
    ASSUME TypeInv, NEW d \in Document, NEW i \in 1..Len(doc[d].input.lines)
    PROVE  doc[d].input.lines[i] \in Line
<1>1. doc[d].input \in Input
  BY DEF TypeInv, DocRow
<1>2. doc[d].input.lines \in Seq(Line)
  BY <1>1 DEF Input
<1> QED BY <1>2

\* The value of a field that facts give is the value of one of them.
LEMMA ValueOfFact ==
    ASSUME TypeInv, NEW d \in Document, NEW rows,
           \A i \in rows : i \in 1..Len(doc[d].input.lines),
           NEW field \in FieldsOf(d, rows)
    PROVE  /\ ValueOf(d, rows, field) \in Value
           /\ \E i \in rows : /\ doc[d].input.lines[i].field = field
                              /\ doc[d].input.lines[i].value = ValueOf(d, rows, field)
<1>1. PICK i \in rows : doc[d].input.lines[i].field = field
  BY DEF FieldsOf
<1>2. doc[d].input.lines[i].value \in Value
  BY <1>1, LineType DEF Line
<1> QED BY <1>1, <1>2 DEF ValueOf

\* The terms that complete facts add up to are terms.
LEMMA TermsType ==
    ASSUME TypeInv, NEW d \in Document, NEW rows,
           \A i \in rows : i \in 1..Len(doc[d].input.lines),
           CRITICAL_FIELDS \subseteq FieldsOf(d, rows)
    PROVE  TermsOf(d, rows) \in [CRITICAL_FIELDS -> Value]
<1>1. \A f \in CRITICAL_FIELDS : ValueOf(d, rows, f) \in Value
  BY ValueOfFact
<1> QED BY <1>1 DEF TermsOf

\* The canonical state of well-typed rows is a state.
LEMMA StateType ==
    ASSUME TypeInv PROVE FinancialState \in State
  BY DEF TypeInv, FinancialState, State

\* The same after a step.
LEMMA NextStateType ==
    ASSUME bill' \in [Bill -> BillRow \cup {None}], notice' \subseteq NoticeRow
    PROVE  FinancialState' \in State
  BY DEF FinancialState, State

\* invalidate keeps the snapshots and actions well typed.
LEMMA InvalidateType ==
    ASSUME TypeInv, Invalidate, FinancialState' \in State
    PROVE  plans' \subseteq State /\ actions' \subseteq Action
  BY DEF Invalidate

\* What a request that writes one document row and one commitment row leaves typed.
LEMMA RowTypes ==
    ASSUME TypeInv, NEW d \in Document, NEW row \in DocRow,
           row.input \in Inputs \cup {NoInput}, doc' = [doc EXCEPT ![d] = row]
    PROVE  /\ doc' \in [Document -> DocRow]
           /\ \A e \in Document : doc'[e].input \in Inputs \cup {NoInput}
  BY DEF TypeInv

\* A correction of the owner leaves a commitment well typed.
LEMMA CorrectedRow ==
    ASSUME NEW r \in BillRow, NEW t \in [CRITICAL_FIELDS -> Value]
    PROVE  /\ [r EXCEPT !.terms = t, !.version = r.version + 1] \in BillRow
           /\ [r EXCEPT !.terms = t, !.hold = FALSE, !.version = r.version + 1] \in BillRow
<1> DEFINE n == r.version + 1
<1>1. n \in Nat
  BY DEF BillRow
<1>2. /\ [r EXCEPT !.terms = t, !.version = n] \in BillRow
      /\ [r EXCEPT !.terms = t, !.hold = FALSE, !.version = n] \in BillRow
  <2> HIDE DEF n
  <2> QED BY <1>1 DEF BillRow
<1> QED BY <1>2

\* FactOf gives every line a status.
LEMMA FactType == \A x, i : FactOf(x, i) \in FactStatus
  BY DEF FactOf, FactStatus

\* What reading a text leaves typed.
LEMMA ReadTextType ==
    ASSUME TypeInv, NEW d \in Document, ReadText(d),
           doc[d].input.target # None => doc[d].input.target \in Bill /\ Exists(doc[d].input.target)
    PROVE  /\ doc' \in [Document -> DocRow]
           /\ \A e \in Document : doc'[e].input \in Inputs \cup {NoInput}
           /\ bill' \in [Bill -> BillRow \cup {None}]
           /\ notice' = notice
<1> DEFINE x == doc[d].input
           row == [doc[d] EXCEPT !.fact = [i \in 1..MaxLines |-> FactOf(x, i)],
                                 !.flags = FlaggedUpTo(x, Len(x.lines)),
                                 !.status = IF FlaggedUpTo(x, Len(x.lines))
                                            THEN "SECURITY_REVIEW" ELSE "EXTRACTED"]
<1>1. doc' = [doc EXCEPT ![d] = row]
  BY DEF ReadText
<1>2. FlaggedUpTo(x, Len(x.lines)) \in BOOLEAN
  BY DEF FlaggedUpTo, FlaggedText, TypeInv, DocRow, Input
<1>3. [i \in 1..MaxLines |-> FactOf(x, i)] \in [1..MaxLines -> FactStatus]
  BY FactType
<1>4. row \in DocRow /\ row.input \in Inputs \cup {NoInput}
  BY <1>2, <1>3 DEF TypeInv, DocRow, DocStatus
<1>5. /\ doc' \in [Document -> DocRow]
      /\ \A e \in Document : doc'[e].input \in Inputs \cup {NoInput}
  BY <1>1, <1>4, RowTypes
<1>6. bill' \in [Bill -> BillRow \cup {None}]
  <2>1. CASE \E i \in 1..Len(x.lines) : Holds(x, i)
    <3>1. x.target \in Bill /\ bill[x.target] \in BillRow
      BY <2>1 DEF Holds, Exists, TypeInv
    <3>2. [bill[x.target] EXCEPT !.hold = TRUE] \in BillRow
      BY <3>1 DEF BillRow
    <3> QED BY <2>1, <3>1, <3>2 DEF ReadText, TypeInv
  <2>2. CASE ~\E i \in 1..Len(x.lines) : Holds(x, i)
    BY <2>2 DEF ReadText, TypeInv
  <2> QED BY <2>1, <2>2
<1> QED BY <1>5, <1>6 DEF ReadText

\* The rows whose facts count once fact i is confirmed are lines of the text.
LEMMA ConfirmedRows ==
    ASSUME TypeInv, ReadInv, NEW d \in Document, NEW i \in 1..MaxLines, Promotable(d, i)
    PROVE  /\ \A k \in Confirmed(d) \cup {i} : k \in 1..Len(doc[d].input.lines)
           /\ i \in Rows(d)
  BY DEF ReadInv, Read, Promotable, Confirmed, Rows

\* What a confirmation leaves typed.
LEMMA ConfirmAsType ==
    ASSUME TypeInv, NEW d \in Document, NEW i \in 1..MaxLines, NEW status \in DocStatus,
           ConfirmAs(d, i, status)
    PROVE  /\ doc' \in [Document -> DocRow]
           /\ \A e \in Document : doc'[e].input \in Inputs \cup {NoInput}
<1> DEFINE row == [doc[d] EXCEPT !.fact[i] = "USER_CONFIRMED", !.status = status]
<1>1. doc' = [doc EXCEPT ![d] = row]
  BY DEF ConfirmAs
<1>2. row \in DocRow /\ row.input \in Inputs \cup {NoInput}
  BY DEF TypeInv, DocRow, FactStatus
<1> QED BY <1>1, <1>2, RowTypes

\* Every row is one the schema admits, after every request.
LEMMA TypeStep ==
    ASSUME TypeInv, ReadInv, [Next]_vars PROVE TypeInv'
<1>1. ASSUME NEW d \in Document, NEW x \in Inputs, Upload(d, x) PROVE TypeInv'
  <2> DEFINE row == [NoDoc EXCEPT !.status = "UPLOADED", !.input = x]
  <2>1. x \in Input
    BY DocumentsAssumption
  <2>2. row \in DocRow /\ row.input \in Inputs \cup {NoInput}
    BY <2>1, EmptyRows DEF NoDoc, DocRow, DocStatus
  <2>3. doc' = [doc EXCEPT ![d] = row]
    BY <1>1 DEF Upload
  <2> QED BY <1>1, <2>2, <2>3, RowTypes DEF Upload, TypeInv
<1>2. ASSUME NEW d \in Document, Extract(d) PROVE TypeInv'
  <2>1. doc[d].input.target # None => doc[d].input.target \in Bill /\ Exists(doc[d].input.target)
    BY <1>2 DEF Extract, ReadInv, Read
  <2>2. /\ doc' \in [Document -> DocRow]
        /\ \A e \in Document : doc'[e].input \in Inputs \cup {NoInput}
        /\ bill' \in [Bill -> BillRow \cup {None}]
        /\ notice' = notice
    <3>1. CASE Rows(d) = {}
      BY <1>2, <2>1, <3>1, ReadTextType DEF Extract
    <3>2. CASE Rows(d) # {}
      BY <1>2, <3>2 DEF Extract, TypeInv
    <3> QED BY <3>1, <3>2
  <2>3. notice' \subseteq NoticeRow
    BY <2>2 DEF TypeInv
  <2>4. plans' \subseteq State /\ actions' \subseteq Action
    <3>1. FinancialState' \in State
      BY <2>2, <2>3, NextStateType
    <3>2. Invalidate \/ UNCHANGED <<plans, actions>>
      BY <1>2 DEF Extract
    <3> QED BY <3>1, <3>2, InvalidateType DEF TypeInv
  <2> QED BY <2>2, <2>3, <2>4 DEF TypeInv
<1>3. ASSUME NEW d \in Document, NEW i \in 1..MaxLines, ConfirmPart(d, i) PROVE TypeInv'
  <2>1. doc[d].status \in DocStatus
    BY DEF TypeInv, DocRow
  <2> QED BY <1>3, <2>1, ConfirmAsType DEF ConfirmPart, TypeInv
<1>4. ASSUME NEW d \in Document, NEW i \in 1..MaxLines, ConfirmNotice(d, i) PROVE TypeInv'
  <2> DEFINE rows == Confirmed(d) \cup {i}
             terms == [f \in NOTICE_FIELDS |-> ValueOf(d, rows, f)]
  <2>1. \A k \in rows : k \in 1..Len(doc[d].input.lines)
    BY <1>4, ConfirmedRows DEF ConfirmNotice
  <2>2. NOTICE_FIELDS \subseteq FieldsOf(d, rows)
    BY <1>4 DEF ConfirmNotice
  <2>3. \A f \in NOTICE_FIELDS : ValueOf(d, rows, f) \in Value
    BY <2>1, <2>2, ValueOfFact
  <2>4. terms \in [NOTICE_FIELDS -> Value]
    BY <2>3
  <2>5. PICK k \in Rows(d) : notice' = IF \E n \in notice : n.doc = d /\ n.fact = k THEN notice
                                ELSE notice \cup {[doc |-> d, fact |-> k, terms |-> terms]}
    BY <1>4 DEF ConfirmNotice
  <2>6. notice' \subseteq NoticeRow
    <3>1. [doc |-> d, fact |-> k, terms |-> terms] \in NoticeRow
      BY <2>4 DEF NoticeRow, Rows
    <3> QED BY <2>5, <3>1 DEF TypeInv
  <2>7. bill' \in [Bill -> BillRow \cup {None}]
    BY <1>4 DEF ConfirmNotice, TypeInv
  <2>8. plans' \subseteq State /\ actions' \subseteq Action
    BY <1>4, <2>6, <2>7, NextStateType, InvalidateType DEF ConfirmNotice
  <2>9. /\ doc' \in [Document -> DocRow]
        /\ \A e \in Document : doc'[e].input \in Inputs \cup {NoInput}
    <3>1. "CONFIRMED" \in DocStatus
      BY DEF DocStatus
    <3> QED BY <1>4, <3>1, ConfirmAsType DEF ConfirmNotice
  <2> QED BY <2>6, <2>7, <2>8, <2>9 DEF TypeInv
<1>5. ASSUME NEW d \in Document, NEW i \in 1..MaxLines, ConfirmInvoice(d, i) PROVE TypeInv'
  <2> DEFINE rows == Confirmed(d) \cup {i}
  <2>1. \A k \in rows : k \in 1..Len(doc[d].input.lines)
    BY <1>5, ConfirmedRows DEF ConfirmInvoice
  <2>2. CRITICAL_FIELDS \subseteq FieldsOf(d, rows)
    BY <1>5 DEF ConfirmInvoice
  <2>3. NewBill(d, rows) \in BillRow
    <3>1. TermsOf(d, rows) \in [CRITICAL_FIELDS -> Value]
      BY <2>1, <2>2, TermsType
    <3> QED BY <3>1 DEF NewBill, BillRow
  <2>4. bill' \in [Bill -> BillRow \cup {None}]
    <3>1. CASE Existing(d) # {}
      BY <1>5, <3>1 DEF ConfirmInvoice, TypeInv
    <3>2. CASE Existing(d) = {}
      <4>1. PICK b \in Bill : bill' = [bill EXCEPT ![b] = NewBill(d, rows)]
        BY <1>5, <3>2 DEF ConfirmInvoice
      <4> QED BY <2>3, <4>1 DEF TypeInv
    <3> QED BY <3>1, <3>2
  <2>5. notice' \subseteq NoticeRow
    BY <1>5 DEF ConfirmInvoice, TypeInv
  <2>6. plans' \subseteq State /\ actions' \subseteq Action
    BY <1>5, <2>4, <2>5, NextStateType, InvalidateType DEF ConfirmInvoice
  <2>7. /\ doc' \in [Document -> DocRow]
        /\ \A e \in Document : doc'[e].input \in Inputs \cup {NoInput}
    <3>1. "CONFIRMED" \in DocStatus
      BY DEF DocStatus
    <3> QED BY <1>5, <3>1, ConfirmAsType DEF ConfirmInvoice
  <2> QED BY <2>4, <2>5, <2>6, <2>7 DEF TypeInv
<1>6. ASSUME NEW d \in Document, NEW i \in 1..MaxLines, Reject(d, i) PROVE TypeInv'
  <2> DEFINE row == [doc[d] EXCEPT !.fact[i] = "REJECTED"]
  <2>1. doc' = [doc EXCEPT ![d] = row]
    BY <1>6 DEF Reject
  <2>2. row \in DocRow /\ row.input \in Inputs \cup {NoInput}
    BY DEF TypeInv, DocRow, FactStatus
  <2> QED BY <1>6, <2>1, <2>2, RowTypes DEF Reject, TypeInv
<1>7. ASSUME NEW b \in Bill, NEW row \in BillRow, bill' = [bill EXCEPT ![b] = row],
             UNCHANGED <<doc, notice>>, Invalidate
      PROVE  TypeInv'
  <2>1. bill' \in [Bill -> BillRow \cup {None}] /\ notice' \subseteq NoticeRow
    BY <1>7 DEF TypeInv
  <2> QED BY <1>7, <2>1, NextStateType, InvalidateType DEF TypeInv
<1>8. ASSUME NEW b \in Bill, NEW e \in Edits, PatchObligation(b, e[1], e[2]) PROVE TypeInv'
  <2> DEFINE terms == [bill[b].terms EXCEPT ![e[1]] = e[2]]
             row == [bill[b] EXCEPT !.terms = terms, !.version = bill[b].version + 1]
  <2>1. bill[b] \in BillRow
    BY <1>8 DEF PatchObligation, Exists, TypeInv
  <2>2. e[1] \in CRITICAL_FIELDS /\ e[2] \in Value
    BY DocumentsAssumption DEF CRITICAL_FIELDS
  <2>3. row \in BillRow
    <3>1. terms \in [CRITICAL_FIELDS -> Value]
      BY <2>1, <2>2 DEF BillRow
    <3> HIDE DEF terms
    <3> QED BY <2>1, <3>1, CorrectedRow
  <2>4. bill' = [bill EXCEPT ![b] = row]
    BY <1>8 DEF PatchObligation
  <2> QED BY <1>7, <1>8, <2>3, <2>4 DEF PatchObligation
<1>9. ASSUME NEW b \in Bill, NEW v \in Attested, VerifyBeneficiary(b, v) PROVE TypeInv'
  <2> DEFINE terms == [bill[b].terms EXCEPT !["beneficiary"] = v]
             row == [bill[b] EXCEPT !.terms = terms, !.hold = FALSE,
                                    !.version = bill[b].version + 1]
  <2>1. bill[b] \in BillRow
    BY <1>9 DEF VerifyBeneficiary, Exists, TypeInv
  <2>2. v \in Value
    BY DocumentsAssumption
  <2>3. row \in BillRow
    <3>1. terms \in [CRITICAL_FIELDS -> Value]
      BY <2>1, <2>2 DEF BillRow, CRITICAL_FIELDS
    <3> HIDE DEF terms
    <3> QED BY <2>1, <3>1, CorrectedRow
  <2>4. bill' = [bill EXCEPT ![b] = row]
    BY <1>9 DEF VerifyBeneficiary
  <2> QED BY <1>7, <1>9, <2>3, <2>4 DEF VerifyBeneficiary
<1>10. ASSUME NEW b \in Bill, Prepare(b) PROVE TypeInv'
  <2>1. bill[b] \in BillRow /\ bill[b].terms["beneficiary"] \in Value
    BY <1>10 DEF Prepare, Exists, TypeInv, BillRow, CRITICAL_FIELDS
  <2>2. [hash |-> FinancialState, bill |-> b, to |-> bill[b].terms["beneficiary"]] \in Action
    BY <1>10, <2>1, StateType DEF Action, Prepare, Exists, FinancialState
  <2> QED BY <1>10, <2>2 DEF Prepare, TypeInv
<1>11. ASSUME NEW a \in actions, Pay(a) PROVE TypeInv'
  <2> DEFINE row == [bill[a.bill] EXCEPT !.status = "SANDBOX_PAID"]
  <2>1. a.bill \in Bill /\ bill[a.bill] \in BillRow
    BY <1>11 DEF Pay, FinancialState, TypeInv, Action
  <2>2. bill' \in [Bill -> BillRow \cup {None}]
    <3>1. row \in BillRow
      BY <2>1 DEF BillRow
    <3>2. bill' = [bill EXCEPT ![a.bill] = row]
      BY <1>11 DEF Pay
    <3> QED BY <2>1, <3>1, <3>2 DEF TypeInv
  <2>3. notice' \subseteq NoticeRow
    BY <1>11 DEF Pay, TypeInv
  <2> QED BY <1>11, <2>2, <2>3, NextStateType DEF Pay, TypeInv
<1>12. ASSUME GeneratePlan PROVE TypeInv'
  BY <1>12, StateType DEF GeneratePlan, TypeInv
<1>13. ASSUME UNCHANGED vars PROVE TypeInv'
  BY <1>13 DEF vars, TypeInv
<1> QED BY <1>1, <1>2, <1>3, <1>4, <1>5, <1>6, <1>8, <1>9, <1>10, <1>11, <1>12, <1>13
        DEF Next, ReviewNext, OwnerNext

-----------------------------------------------------------------------------
(* What a request does to a commitment that is there *)

Kept(b) ==
    /\ bill'[b] \in BillRow
    /\ bill'[b].doc = bill[b].doc
    /\ \/ /\ bill'[b].terms = bill[b].terms /\ bill'[b].version = bill[b].version
          /\ bill[b].hold => bill'[b].hold
       \/ bill'[b].version = bill[b].version + 1 /\ UNCHANGED doc

\* A commitment stays, keeps the document it comes from, and changes its terms or loses
\* its hold with a new version only, in a request that writes no document.
LEMMA BillStep ==
    ASSUME TypeInv, ReadInv, [Next]_vars, NEW b \in Bill, Exists(b)
    PROVE  Kept(b)
<1>1. bill[b] \in BillRow
  BY DEF Exists, TypeInv
<1>2. CASE bill'[b] = bill[b]
  BY <1>1, <1>2 DEF Kept
<1>3. CASE bill'[b] = [bill[b] EXCEPT !.hold = TRUE]
  BY <1>1, <1>3 DEF Kept, BillRow
<1>4. CASE bill'[b] = [bill[b] EXCEPT !.status = "SANDBOX_PAID"]
  BY <1>1, <1>4 DEF Kept, BillRow
<1>5. ASSUME NEW c \in Bill, NEW f \in CRITICAL_FIELDS, NEW v \in Value, UNCHANGED doc,
             \/ bill' = [bill EXCEPT ![c].terms[f] = v, ![c].version = @ + 1]
             \/ bill' = [bill EXCEPT ![c].terms[f] = v, ![c].hold = FALSE,
                                     ![c].version = @ + 1]
      PROVE  Kept(b)
  <2>1. CASE c # b
    BY <1>2, <1>5, <2>1 DEF TypeInv
  <2>2. CASE c = b
    <3> DEFINE t == [bill[b].terms EXCEPT ![f] = v]
    <3>1. t \in [CRITICAL_FIELDS -> Value]
      BY <1>1 DEF BillRow
    <3>2. \/ bill'[b] = [bill[b] EXCEPT !.terms = t, !.version = bill[b].version + 1]
          \/ bill'[b] = [bill[b] EXCEPT !.terms = t, !.hold = FALSE,
                                        !.version = bill[b].version + 1]
      BY <1>5, <2>2 DEF TypeInv
    <3>3. bill'[b] \in BillRow
      BY <1>1, <3>1, <3>2, CorrectedRow
    <3>4. bill'[b].version = bill[b].version + 1 /\ bill'[b].doc = bill[b].doc
      BY <1>1, <3>2 DEF BillRow
    <3> QED BY <1>5, <3>3, <3>4 DEF Kept
  <2> QED BY <2>1, <2>2
<1>6. ASSUME NEW d \in Document, Extract(d) PROVE Kept(b)
  <2>1. \/ bill' = bill
        \/ bill' = [bill EXCEPT ![doc[d].input.target].hold = TRUE]
    BY <1>6 DEF Extract, ReadText
  <2> QED BY <1>2, <1>3, <2>1 DEF TypeInv
<1>7. ASSUME NEW d \in Document, NEW i \in 1..MaxLines, ConfirmInvoice(d, i) PROVE Kept(b)
  <2>1. \/ bill' = bill
        \/ \E c \in Bill : ~Exists(c) /\ bill' = [bill EXCEPT ![c] = NewBill(d, Confirmed(d) \cup {i})]
    BY <1>7 DEF ConfirmInvoice
  <2> QED BY <1>2, <2>1 DEF TypeInv, Exists
<1>8. ASSUME NEW a \in actions, Pay(a) PROVE Kept(b)
  <2>1. bill' = [bill EXCEPT ![a.bill].status = "SANDBOX_PAID"]
    BY <1>8 DEF Pay
  <2> QED BY <1>2, <1>4, <2>1 DEF TypeInv
<1>9. ASSUME NEW c \in Bill, NEW e \in Edits, PatchObligation(c, e[1], e[2]) PROVE Kept(b)
  <2>1. e[1] \in CRITICAL_FIELDS /\ e[2] \in Value
    BY DocumentsAssumption DEF CRITICAL_FIELDS
  <2> QED BY <1>5, <1>9, <2>1 DEF PatchObligation
<1>10. ASSUME NEW c \in Bill, NEW v \in Attested, VerifyBeneficiary(c, v) PROVE Kept(b)
  <2>1. "beneficiary" \in CRITICAL_FIELDS /\ v \in Value
    BY DocumentsAssumption DEF CRITICAL_FIELDS
  <2> QED BY <1>5, <1>10, <2>1 DEF VerifyBeneficiary
<1>11. ASSUME UNCHANGED bill PROVE Kept(b)
  BY <1>2, <1>11
<1> QED BY <1>6, <1>7, <1>8, <1>9, <1>10, <1>11
        DEF Next, ReviewNext, OwnerNext, Upload, ConfirmPart, ConfirmNotice, Reject,
            Prepare, GeneratePlan, vars

\* A commitment that is there stays there.
LEMMA ExistsKept ==
    ASSUME TypeInv, ReadInv, [Next]_vars, NEW b \in Bill, Exists(b)
    PROVE  Exists(b)'
  BY BillStep, NoneAssumption DEF Kept, Exists

-----------------------------------------------------------------------------
(* What a request does to a document *)

\* A fact that is read has a line, and is disputed if the text contradicts itself.
LEMMA FactOfLine ==
    ASSUME NEW x, NEW i \in 1..MaxLines, Len(x.lines) \in Nat
    PROVE  /\ FactOf(x, i) # "NONE" => i \in 1..Len(x.lines)
           /\ FactOf(x, i) \notin {"USER_CONFIRMED", "REJECTED"}
           /\ FactOf(x, i) \in {"EXTRACTED", "REVIEW_REQUIRED"} =>
                  \A j \in 1..Len(x.lines) : x.lines[j].field = x.lines[i].field
                                             => x.lines[j].value = x.lines[i].value
  BY DEF FactOf, Disputed

Uploading(d) ==
    /\ doc[d].status = "NONE"
    /\ \E x \in Inputs :
          /\ x.target # None => x.target \in Bill /\ Exists(x.target)
          /\ doc'[d] = [NoDoc EXCEPT !.status = "UPLOADED", !.input = x]
    /\ UNCHANGED bill
Reading(d) ==
    /\ doc[d].status # "NONE" /\ Rows(d) = {}
    /\ doc'[d].input = doc[d].input
    /\ doc'[d].fact = [i \in 1..MaxLines |-> FactOf(doc[d].input, i)]
    /\ doc'[d].flags = FlaggedUpTo(doc[d].input, Len(doc[d].input.lines))
    /\ doc'[d].status = IF doc'[d].flags THEN "SECURITY_REVIEW" ELSE "EXTRACTED"
    /\ bill' = IF \E i \in 1..Len(doc[d].input.lines) : Holds(doc[d].input, i)
               THEN [bill EXCEPT ![doc[d].input.target].hold = TRUE] ELSE bill
    /\ UNCHANGED notice
Confirming(d, i) ==
    /\ Promotable(d, i)
    /\ doc'[d] = [doc[d] EXCEPT !.fact[i] = "USER_CONFIRMED", !.status = doc'[d].status]
    /\ ConfirmPart(d, i) \/ ConfirmNotice(d, i) \/ ConfirmInvoice(d, i)
Rejecting(d, i) ==
    /\ doc[d].fact[i] \notin {"NONE", "USER_CONFIRMED"}
    /\ doc'[d] = [doc[d] EXCEPT !.fact[i] = "REJECTED"]
    /\ UNCHANGED <<bill, notice>>

\* A request leaves a document alone, or uploads it, reads it, or decides one fact.
LEMMA DocStep ==
    ASSUME TypeInv, ReadInv, [Next]_vars, NEW d \in Document
    PROVE  \/ doc'[d] = doc[d]
           \/ Uploading(d)
           \/ Reading(d)
           \/ \E i \in 1..MaxLines : Confirming(d, i) \/ Rejecting(d, i)
<1> USE DEF TypeInv
<1>1. ASSUME NEW e \in Document, NEW x \in Inputs, Upload(e, x)
      PROVE  doc'[d] = doc[d] \/ Uploading(d)
  <2>1. x.target # None => x.target \in Bill
    BY DocumentsAssumption DEF Input
  <2> QED BY <1>1, <2>1 DEF Upload, Uploading
<1>2. ASSUME NEW e \in Document, Extract(e) PROVE doc'[d] = doc[d] \/ Reading(d)
  <2>1. CASE e = d /\ Rows(d) = {}
    <3> DEFINE x == doc[d].input
               flags == FlaggedUpTo(x, Len(x.lines))
               fact == [i \in 1..MaxLines |-> FactOf(x, i)]
               status == IF flags THEN "SECURITY_REVIEW" ELSE "EXTRACTED"
    <3>1. doc[d] \in DocRow
      OBVIOUS
    <3>2. doc'[d] = [doc[d] EXCEPT !.fact = fact, !.flags = flags, !.status = status]
      BY <1>2, <2>1 DEF Extract, ReadText
    <3>3. /\ doc'[d].input = doc[d].input /\ doc'[d].fact = fact
          /\ doc'[d].flags = flags /\ doc'[d].status = status
      <4> HIDE DEF x, flags, fact, status
      <4> QED BY <3>1, <3>2 DEF DocRow
    <3> QED BY <1>2, <2>1, <3>3 DEF Extract, ReadText, Reading
  <2>2. CASE ~(e = d /\ Rows(d) = {})
    BY <1>2, <2>2 DEF Extract, ReadText
  <2> QED BY <2>1, <2>2
<1>3. ASSUME NEW e \in Document, NEW i \in 1..MaxLines,
             ConfirmPart(e, i) \/ ConfirmNotice(e, i) \/ ConfirmInvoice(e, i)
      PROVE  doc'[d] = doc[d] \/ Confirming(d, i)
  <2>1. Promotable(e, i) /\ \E status \in DocStatus : ConfirmAs(e, i, status)
    BY <1>3 DEF ConfirmPart, ConfirmNotice, ConfirmInvoice, DocRow, DocStatus
  <2>2. PICK status \in DocStatus : ConfirmAs(e, i, status)
    BY <2>1
  <2>3. CASE e = d
    <3>1. doc'[d] = [doc[d] EXCEPT !.fact[i] = "USER_CONFIRMED", !.status = status]
      BY <2>2, <2>3 DEF ConfirmAs
    <3>2. doc'[d].status = status
      BY <3>1 DEF DocRow
    <3> QED BY <1>3, <2>1, <2>3, <3>1, <3>2 DEF Confirming
  <2>4. CASE e # d
    BY <2>2, <2>4 DEF ConfirmAs
  <2> QED BY <2>3, <2>4
<1>4. ASSUME NEW e \in Document, NEW i \in 1..MaxLines, Reject(e, i)
      PROVE  doc'[d] = doc[d] \/ Rejecting(d, i)
  BY <1>4 DEF Reject, Rejecting
<1>5. ASSUME UNCHANGED doc PROVE doc'[d] = doc[d]
  BY <1>5
<1> QED BY <1>1, <1>2, <1>3, <1>4, <1>5
        DEF Next, ReviewNext, OwnerNext, Prepare, PatchObligation, VerifyBeneficiary,
            Pay, GeneratePlan, vars

\* The rows of a document whose facts did not change.
LEMMA SameFacts ==
    ASSUME NEW d, doc'[d].fact = doc[d].fact, doc'[d].input = doc[d].input
    PROVE  /\ Rows(d)' = Rows(d) /\ Confirmed(d)' = Confirmed(d)
           /\ \A rows : /\ FieldsOf(d, rows)' = FieldsOf(d, rows)
                        /\ TermsOf(d, rows)' = TermsOf(d, rows)
                        /\ \A f : ValueOf(d, rows, f)' = ValueOf(d, rows, f)
  BY DEF Rows, Confirmed, FieldsOf, TermsOf, ValueOf

\* A confirmation adds its fact to the confirmed ones.
LEMMA ConfirmingAdds ==
    ASSUME TypeInv, NEW d \in Document, NEW i \in 1..MaxLines, Confirming(d, i)
    PROVE  /\ doc'[d].input = doc[d].input /\ doc'[d].flags = doc[d].flags
           /\ \A k \in 1..MaxLines : k # i => doc'[d].fact[k] = doc[d].fact[k]
           /\ doc'[d].fact[i] = "USER_CONFIRMED"
           /\ Confirmed(d)' = Confirmed(d) \cup {i}
           /\ ~doc[d].flags
           /\ doc[d].fact[i] \in {"EXTRACTED", "REVIEW_REQUIRED", "USER_CONFIRMED"}
<1>1. "USER_CONFIRMED" \in FactStatus
  BY DEF FactStatus
<1>2. /\ doc'[d].input = doc[d].input /\ doc'[d].flags = doc[d].flags
      /\ \A k \in 1..MaxLines : k # i => doc'[d].fact[k] = doc[d].fact[k]
      /\ doc'[d].fact[i] = "USER_CONFIRMED"
  <2> DEFINE fact == [doc[d].fact EXCEPT ![i] = "USER_CONFIRMED"]
             status == doc'[d].status
  <2>1. doc[d] \in DocRow /\ doc'[d] = [doc[d] EXCEPT !.fact = fact, !.status = status]
    BY DEF TypeInv, Confirming
  <2>2. doc'[d].fact = fact /\ doc'[d].input = doc[d].input /\ doc'[d].flags = doc[d].flags
    <3> HIDE DEF fact, status
    <3> QED BY <2>1 DEF DocRow
  <2> QED BY <2>1, <2>2 DEF DocRow
<1>3. Confirmed(d)' = Confirmed(d) \cup {i}
  BY <1>2 DEF Confirmed
<1>4. doc[d].fact[i] \in FactStatus
  BY DEF TypeInv, DocRow
<1> QED BY <1>2, <1>3, <1>4 DEF Confirming, Promotable, FactStatus

\* A rejection leaves the confirmed facts as they are.
LEMMA RejectingKeeps ==
    ASSUME TypeInv, NEW d \in Document, NEW i \in 1..MaxLines, Rejecting(d, i)
    PROVE  /\ doc'[d].input = doc[d].input /\ doc'[d].flags = doc[d].flags
           /\ doc'[d].status = doc[d].status
           /\ \A k \in 1..MaxLines : k # i => doc'[d].fact[k] = doc[d].fact[k]
           /\ doc'[d].fact[i] = "REJECTED" /\ doc[d].fact[i] # "NONE"
           /\ Confirmed(d)' = Confirmed(d)
<1>1. "REJECTED" \in FactStatus
  BY DEF FactStatus
<1>2. /\ doc'[d].input = doc[d].input /\ doc'[d].flags = doc[d].flags
      /\ doc'[d].status = doc[d].status
      /\ \A k \in 1..MaxLines : k # i => doc'[d].fact[k] = doc[d].fact[k]
      /\ doc'[d].fact[i] = "REJECTED"
  <2> DEFINE fact == [doc[d].fact EXCEPT ![i] = "REJECTED"]
  <2>1. doc[d] \in DocRow /\ doc'[d] = [doc[d] EXCEPT !.fact = fact]
    BY DEF TypeInv, Rejecting
  <2>2. /\ doc'[d].fact = fact /\ doc'[d].input = doc[d].input
        /\ doc'[d].flags = doc[d].flags /\ doc'[d].status = doc[d].status
    <3> HIDE DEF fact
    <3> QED BY <2>1 DEF DocRow
  <2> QED BY <2>1, <2>2 DEF DocRow
<1> QED BY <1>2 DEF Rejecting, Confirmed

\* The rows of a document agree with its text and its status, after every request.
LEMMA ReadStep ==
    ASSUME TypeInv, ReadInv, [Next]_vars PROVE ReadInv'
<1> SUFFICES ASSUME NEW d \in Document PROVE Read(d)'
  BY DEF ReadInv
<1>1. Read(d) /\ \A b \in Bill : Exists(b) => Exists(b)'
  BY ExistsKept DEF ReadInv
<1>2. doc[d] \in DocRow /\ doc[d].input \in Input /\ Len(doc[d].input.lines) \in Nat
  BY DEF TypeInv, DocRow, Input
<1>3. CASE doc'[d] = doc[d]
  BY <1>1, <1>3, SameFacts DEF Read
<1>4. CASE Uploading(d)
  <2>1. PICK x \in Inputs : /\ x.target # None => x.target \in Bill /\ Exists(x.target)
                            /\ doc'[d] = [NoDoc EXCEPT !.status = "UPLOADED", !.input = x]
    BY <1>4 DEF Uploading
  <2>2. /\ doc'[d].status = "UPLOADED" /\ doc'[d].input = x
        /\ \A i \in 1..MaxLines : doc'[d].fact[i] = "NONE"
    BY <2>1 DEF NoDoc
  <2> QED BY <1>1, <2>1, <2>2 DEF Read, Rows
<1>5. CASE Reading(d)
  <2> DEFINE x == doc[d].input
  <2>1. doc'[d].input = x /\ \A i \in 1..MaxLines : doc'[d].fact[i] = FactOf(x, i)
    BY <1>5 DEF Reading
  <2>2. doc'[d].status \notin {"NONE", "UPLOADED", "CONFIRMED"} /\ doc[d].status # "NONE"
    BY <1>5 DEF Reading
  <2> QED BY <1>1, <1>2, <2>1, <2>2, FactOfLine DEF Read, Rows
<1>6. ASSUME NEW i \in 1..MaxLines, Confirming(d, i) PROVE Read(d)'
  <2>1. /\ doc'[d].input = doc[d].input
        /\ \A k \in 1..MaxLines : k # i => doc'[d].fact[k] = doc[d].fact[k]
        /\ doc'[d].fact[i] = "USER_CONFIRMED"
        /\ Confirmed(d)' = Confirmed(d) \cup {i}
        /\ doc[d].fact[i] \in {"EXTRACTED", "REVIEW_REQUIRED", "USER_CONFIRMED"}
    BY <1>6, ConfirmingAdds
  <2>2. i \in Rows(d) /\ Rows(d)' = Rows(d)
    BY <2>1 DEF Rows
  <2>3. doc'[d].status \in {doc[d].status, "CONFIRMED"}
    <3>1. \A s : ConfirmAs(d, i, s) => doc'[d].status = s
      BY <1>2 DEF ConfirmAs, TypeInv, DocRow
    <3>2. (\E e \in {doc[d].status, "CONFIRMED"} : ConfirmAs(d, i, e))
      BY <1>6 DEF Confirming, ConfirmPart, ConfirmNotice, ConfirmInvoice
    <3> QED BY <3>1, <3>2
  <2>4. doc'[d].status = "CONFIRMED" =>
          (IF doc[d].input.notice THEN NOTICE_FIELDS ELSE CRITICAL_FIELDS)
             \subseteq FieldsOf(d, Confirmed(d) \cup {i})
    <3>1. CASE ConfirmPart(d, i)
      <4>1. doc'[d].status = doc[d].status
        BY <1>2, <3>1 DEF ConfirmPart, ConfirmAs, TypeInv, DocRow
      <4>2. FieldsOf(d, Confirmed(d)) \subseteq FieldsOf(d, Confirmed(d) \cup {i})
        BY DEF FieldsOf
      <4> QED BY <1>1, <4>1, <4>2 DEF Read
    <3>2. CASE ConfirmNotice(d, i) \/ ConfirmInvoice(d, i)
      BY <3>2 DEF ConfirmNotice, ConfirmInvoice
    <3> QED BY <1>6, <3>1, <3>2 DEF Confirming
  <2>5. FieldsOf(d, Confirmed(d))' = FieldsOf(d, Confirmed(d) \cup {i})
    BY <2>1 DEF FieldsOf
  <2>6. \A j \in Rows(d)' : j \in 1..Len(doc'[d].input.lines)
    BY <1>1, <2>1, <2>2 DEF Read
  <2>7. \A k \in 1..MaxLines :
          doc'[d].fact[k] \in {"EXTRACTED", "REVIEW_REQUIRED", "USER_CONFIRMED"} =>
              \A j \in 1..Len(doc[d].input.lines) :
                  doc[d].input.lines[j].field = doc[d].input.lines[k].field
                  => doc[d].input.lines[j].value = doc[d].input.lines[k].value
    BY <1>1, <2>1 DEF Read
  <2>8. doc[d].status \notin {"NONE", "UPLOADED"}
    BY <1>1, <2>2 DEF Read
  <2>9. doc'[d].status = "CONFIRMED" =>
          (IF doc'[d].input.notice THEN NOTICE_FIELDS ELSE CRITICAL_FIELDS)
             \subseteq FieldsOf(d, Confirmed(d))'
    BY <2>1, <2>4, <2>5
  <2>10. doc[d].input.target # None
           => doc[d].input.target \in Bill /\ Exists(doc[d].input.target)'
    BY <1>1, <2>1, <2>8 DEF Read
  <2> QED BY <2>1, <2>3, <2>6, <2>7, <2>8, <2>9, <2>10 DEF Read
<1>7. ASSUME NEW i \in 1..MaxLines, Rejecting(d, i) PROVE Read(d)'
  <2>1. /\ doc'[d].input = doc[d].input /\ doc'[d].status = doc[d].status
        /\ \A k \in 1..MaxLines : k # i => doc'[d].fact[k] = doc[d].fact[k]
        /\ doc'[d].fact[i] = "REJECTED" /\ doc[d].fact[i] # "NONE"
        /\ Confirmed(d)' = Confirmed(d)
    BY <1>7, RejectingKeeps
  <2>2. Rows(d)' = Rows(d) /\ FieldsOf(d, Confirmed(d))' = FieldsOf(d, Confirmed(d))
    BY <2>1 DEF Rows, FieldsOf
  <2> QED BY <1>1, <2>1, <2>2 DEF Read
<1> QED BY <1>3, <1>4, <1>5, <1>6, <1>7, DocStep

\* A confirmed fact is confirmed for good, and no other fact of the document gives its
\* field another value.
LEMMA EvidenceKept ==
    ASSUME TypeInv, ReadInv, [Next]_vars, NEW d \in Document,
           NEW f \in FieldsOf(d, Confirmed(d))
    PROVE  /\ f \in FieldsOf(d, Confirmed(d))'
           /\ ValueOf(d, Confirmed(d), f)' = ValueOf(d, Confirmed(d), f)
<1>1. PICK k \in Confirmed(d) : doc[d].input.lines[k].field = f
  BY DEF FieldsOf
<1>2. Read(d) /\ k \in 1..MaxLines /\ doc[d].fact[k] = "USER_CONFIRMED" /\ k \in Rows(d)
  BY <1>1 DEF ReadInv, Confirmed, Rows
<1>3. \A c \in 1..MaxLines, j \in 1..Len(doc[d].input.lines) :
        doc[d].fact[c] = "USER_CONFIRMED"
        /\ doc[d].input.lines[j].field = doc[d].input.lines[c].field
        => doc[d].input.lines[j].value = doc[d].input.lines[c].value
  BY <1>2 DEF Read
<1>4. CASE doc'[d] = doc[d]
  BY <1>4, SameFacts
<1>5. CASE Uploading(d) \/ Reading(d)
  BY <1>2, <1>5 DEF Uploading, Reading, Read
<1>6. ASSUME NEW i \in 1..MaxLines, Confirming(d, i)
      PROVE  /\ f \in FieldsOf(d, Confirmed(d))'
             /\ ValueOf(d, Confirmed(d), f)' = ValueOf(d, Confirmed(d), f)
  <2>1. doc'[d].input = doc[d].input /\ Confirmed(d)' = Confirmed(d) \cup {i}
    BY <1>6, ConfirmingAdds
  <2>2. i \in 1..Len(doc[d].input.lines)
    BY <1>2, <1>6 DEF Confirming, Promotable, Rows, Read
  <2>3. \A v : (\E c \in Confirmed(d) : /\ doc[d].input.lines[c].field = f
                                        /\ doc[d].input.lines[c].value = v)
               <=> (\E c \in Confirmed(d) \cup {i} :
                      /\ doc[d].input.lines[c].field = f
                      /\ doc[d].input.lines[c].value = v)
    BY <1>1, <1>2, <1>3, <2>2
  <2>4. ValueOf(d, Confirmed(d), f)' = ValueOf(d, Confirmed(d), f)
    BY <2>1, <2>3 DEF ValueOf
  <2> QED BY <1>1, <2>1, <2>4 DEF FieldsOf
<1>7. ASSUME NEW i \in 1..MaxLines, Rejecting(d, i)
      PROVE  /\ f \in FieldsOf(d, Confirmed(d))'
             /\ ValueOf(d, Confirmed(d), f)' = ValueOf(d, Confirmed(d), f)
  <2>1. doc'[d].input = doc[d].input /\ Confirmed(d)' = Confirmed(d)
    BY <1>7, RejectingKeeps
  <2> QED BY <2>1 DEF FieldsOf, ValueOf
<1> QED BY <1>4, <1>5, <1>6, <1>7, DocStep

-----------------------------------------------------------------------------
(* Where rows come from *)

\* A new commitment is made by the confirmation that completes its document.
LEMMA NewBills ==
    ASSUME TypeInv, ReadInv, [Next]_vars, NEW b \in Bill, ~Exists(b), Exists(b)'
    PROVE  \E d \in Document, i \in 1..MaxLines :
               /\ ConfirmInvoice(d, i) /\ Confirming(d, i) /\ Existing(d) = {}
               /\ bill' = [bill EXCEPT ![b] = NewBill(d, Confirmed(d) \cup {i})]
<1>1. bill' # bill /\ bill[b] = None /\ bill'[b] # None
  BY DEF Exists
<1>2. ASSUME NEW d \in Document, NEW i \in 1..MaxLines, ConfirmInvoice(d, i)
      PROVE  /\ Confirming(d, i) /\ Existing(d) = {}
             /\ bill' = [bill EXCEPT ![b] = NewBill(d, Confirmed(d) \cup {i})]
  <2>1. Existing(d) = {}
    BY <1>1, <1>2 DEF ConfirmInvoice
  <2>2. bill' = [bill EXCEPT ![b] = NewBill(d, Confirmed(d) \cup {i})]
    BY <1>1, <1>2, <2>1 DEF ConfirmInvoice, TypeInv
  <2>3. Confirming(d, i)
    <3>1. doc'[d] = [doc[d] EXCEPT !.fact[i] = "USER_CONFIRMED", !.status = "CONFIRMED"]
      BY <1>2 DEF ConfirmInvoice, ConfirmAs, TypeInv
    <3>2. doc'[d].status = "CONFIRMED"
      BY <3>1 DEF TypeInv, DocRow
    <3> QED BY <1>2, <3>1, <3>2 DEF Confirming, ConfirmInvoice
  <2> QED BY <2>1, <2>2, <2>3
<1>3. ASSUME NEW c, NEW row, bill' = [bill EXCEPT ![c] = row], bill[c] # None PROVE FALSE
  BY <1>1, <1>3 DEF TypeInv
<1>4. ASSUME NEW d \in Document, Extract(d) PROVE FALSE
  <2>1. bill' = [bill EXCEPT ![doc[d].input.target].hold = TRUE]
    BY <1>1, <1>4 DEF Extract, ReadText
  <2>2. doc[d].input.target # None /\ doc[d].status # "NONE"
    BY <1>1, <1>4 DEF Extract, ReadText, Holds
  <2>3. bill[doc[d].input.target] # None
    BY <2>2 DEF ReadInv, Read, Exists
  <2> QED BY <1>3, <2>1, <2>3
<1>5. ASSUME NEW a \in actions, Pay(a) PROVE FALSE
  <2>1. bill[a.bill] # None
    BY <1>5 DEF Pay, TypeInv, Action, FinancialState
  <2> QED BY <1>3, <1>5, <2>1 DEF Pay
<1>6. ASSUME NEW c \in Bill, NEW e \in Edits, PatchObligation(c, e[1], e[2]) PROVE FALSE
  BY <1>1, <1>6 DEF PatchObligation, Exists, TypeInv
<1>7. ASSUME NEW c \in Bill, NEW v \in Attested, VerifyBeneficiary(c, v) PROVE FALSE
  BY <1>1, <1>7 DEF VerifyBeneficiary, Exists, TypeInv
<1> QED BY <1>1, <1>2, <1>4, <1>5, <1>6, <1>7
        DEF Next, ReviewNext, OwnerNext, Upload, ConfirmPart, ConfirmNotice, Reject,
            Prepare, GeneratePlan, vars

\* A new expected source is made by the confirmation that completes its notice.
LEMMA NewNotices ==
    ASSUME TypeInv, ReadInv, [Next]_vars, NEW n \in notice', n \notin notice
    PROVE  \E d \in Document, i \in 1..MaxLines :
               /\ Confirming(d, i) /\ n.doc = d
               /\ NOTICE_FIELDS \subseteq FieldsOf(d, Confirmed(d) \cup {i})
               /\ n.terms = [f \in NOTICE_FIELDS |-> ValueOf(d, Confirmed(d) \cup {i}, f)]
<1>1. notice' # notice
  OBVIOUS
<1>2. ASSUME NEW d \in Document, NEW i \in 1..MaxLines, ConfirmNotice(d, i)
      PROVE  /\ Confirming(d, i) /\ n.doc = d
             /\ NOTICE_FIELDS \subseteq FieldsOf(d, Confirmed(d) \cup {i})
             /\ n.terms = [f \in NOTICE_FIELDS |-> ValueOf(d, Confirmed(d) \cup {i}, f)]
  <2>1. Confirming(d, i)
    <3>1. doc'[d] = [doc[d] EXCEPT !.fact[i] = "USER_CONFIRMED", !.status = "CONFIRMED"]
      BY <1>2 DEF ConfirmNotice, ConfirmAs, TypeInv
    <3>2. doc'[d].status = "CONFIRMED"
      BY <3>1 DEF TypeInv, DocRow
    <3> QED BY <1>2, <3>1, <3>2 DEF Confirming, ConfirmNotice
  <2> DEFINE terms == [f \in NOTICE_FIELDS |-> ValueOf(d, Confirmed(d) \cup {i}, f)]
  <2>2. PICK k \in Rows(d) : notice' = IF \E m \in notice : m.doc = d /\ m.fact = k THEN notice
                                ELSE notice \cup {[doc |-> d, fact |-> k, terms |-> terms]}
    BY <1>2 DEF ConfirmNotice
  <2>3. n = [doc |-> d, fact |-> k, terms |-> terms]
    BY <1>1, <2>2
  <2> QED BY <1>2, <2>1, <2>3 DEF ConfirmNotice
<1>3. ASSUME NEW d \in Document, Extract(d) PROVE FALSE
  BY <1>1, <1>3 DEF Extract, ReadText
<1> QED BY <1>1, <1>2, <1>3
        DEF Next, ReviewNext, OwnerNext, Upload, ConfirmPart, ConfirmInvoice, Reject,
            PatchObligation, VerifyBeneficiary, Prepare, Pay, GeneratePlan, vars

-----------------------------------------------------------------------------
(* The invariants *)

\* A row made from a document says what its confirmed facts say.
LEMMA EvidenceStep ==
    ASSUME TypeInv, ReadInv, Versions, RowsRestOnEvidence, [Next]_vars
    PROVE  RowsRestOnEvidence'
<1>1. ASSUME NEW b \in Bill, Exists(b)', bill'[b].doc # None
      PROVE  /\ CRITICAL_FIELDS \subseteq FieldsOf(bill[b].doc, Confirmed(bill[b].doc))'
             /\ bill'[b].version = 1
                  => bill'[b].terms = TermsOf(bill[b].doc, Confirmed(bill[b].doc))'
  <2>1. CASE Exists(b)
    <3>1. /\ bill'[b].doc = bill[b].doc
          /\ \/ bill'[b].terms = bill[b].terms /\ bill'[b].version = bill[b].version
             \/ bill'[b].version = bill[b].version + 1
      BY <2>1, BillStep DEF Kept
    <3>2. bill[b].doc \in Document /\ bill[b].version \in Nat /\ bill[b].version >= 1
      BY <1>1, <2>1, <3>1 DEF Exists, TypeInv, BillRow, Versions
    <3> PICK d \in Document : d = bill[b].doc
      BY <3>2
    <3>3. /\ CRITICAL_FIELDS \subseteq FieldsOf(d, Confirmed(d))
          /\ bill[b].version = 1 => bill[b].terms = TermsOf(d, Confirmed(d))
      BY <1>1, <2>1, <3>1 DEF RowsRestOnEvidence
    <3>4. \A f \in CRITICAL_FIELDS :
            /\ f \in FieldsOf(d, Confirmed(d))'
            /\ ValueOf(d, Confirmed(d), f)' = ValueOf(d, Confirmed(d), f)
      BY <3>2, <3>3, EvidenceKept
    <3>5. TermsOf(d, Confirmed(d))' = TermsOf(d, Confirmed(d))
      BY <3>4 DEF TermsOf
    <3>6. /\ CRITICAL_FIELDS \subseteq FieldsOf(d, Confirmed(d))'
          /\ bill'[b].version = 1 => bill'[b].terms = TermsOf(d, Confirmed(d))'
      BY <3>1, <3>2, <3>3, <3>4, <3>5
    <3> QED BY <3>1, <3>6
  <2>2. CASE ~Exists(b)
    <3>1. PICK d \in Document, i \in 1..MaxLines :
            /\ ConfirmInvoice(d, i) /\ Confirming(d, i)
            /\ bill' = [bill EXCEPT ![b] = NewBill(d, Confirmed(d) \cup {i})]
      BY <1>1, <2>2, NewBills
    <3>2. bill'[b].doc = d /\ bill'[b].terms = TermsOf(d, Confirmed(d) \cup {i})
      BY <3>1 DEF NewBill, TypeInv
    <3>3. doc'[d].input = doc[d].input /\ Confirmed(d)' = Confirmed(d) \cup {i}
      BY <3>1, ConfirmingAdds
    <3>4. /\ FieldsOf(d, Confirmed(d))' = FieldsOf(d, Confirmed(d) \cup {i})
          /\ TermsOf(d, Confirmed(d))' = TermsOf(d, Confirmed(d) \cup {i})
      BY <3>3 DEF FieldsOf, TermsOf, ValueOf
    <3>5. CRITICAL_FIELDS \subseteq FieldsOf(d, Confirmed(d) \cup {i})
      BY <3>1 DEF ConfirmInvoice
    <3> QED BY <3>2, <3>4, <3>5
  <2> QED BY <2>1, <2>2
<1>2. ASSUME NEW n \in notice', NEW f \in NOTICE_FIELDS
      PROVE  /\ f \in FieldsOf(n.doc, Confirmed(n.doc))'
             /\ n.terms[f] = ValueOf(n.doc, Confirmed(n.doc), f)'
  <2>1. CASE n \in notice
    <3> DEFINE d == n.doc
    <3>1. d \in Document
      BY <2>1 DEF TypeInv, NoticeRow
    <3>2. f \in FieldsOf(d, Confirmed(d)) /\ n.terms[f] = ValueOf(d, Confirmed(d), f)
      BY <2>1 DEF RowsRestOnEvidence
    <3> HIDE DEF d
    <3>3. /\ f \in FieldsOf(d, Confirmed(d))'
          /\ ValueOf(d, Confirmed(d), f)' = ValueOf(d, Confirmed(d), f)
      BY <3>1, <3>2, EvidenceKept
    <3>4. f \in FieldsOf(d, Confirmed(d))' /\ n.terms[f] = ValueOf(d, Confirmed(d), f)'
      BY <3>2, <3>3
    <3> QED BY <3>4 DEF d
  <2>2. CASE n \notin notice
    <3>1. PICK d \in Document, i \in 1..MaxLines :
            /\ Confirming(d, i) /\ n.doc = d
            /\ NOTICE_FIELDS \subseteq FieldsOf(d, Confirmed(d) \cup {i})
            /\ n.terms = [g \in NOTICE_FIELDS |-> ValueOf(d, Confirmed(d) \cup {i}, g)]
      BY <2>2, NewNotices
    <3>2. doc'[d].input = doc[d].input /\ Confirmed(d)' = Confirmed(d) \cup {i}
      BY <3>1, ConfirmingAdds
    <3>3. /\ FieldsOf(d, Confirmed(d))' = FieldsOf(d, Confirmed(d) \cup {i})
          /\ ValueOf(d, Confirmed(d), f)' = ValueOf(d, Confirmed(d) \cup {i}, f)
      BY <3>2 DEF FieldsOf, ValueOf
    <3> QED BY <3>1, <3>3
  <2> QED BY <2>1, <2>2
<1> QED BY <1>1, <1>2 DEF RowsRestOnEvidence

\* A commitment keeps a version.
LEMMA VersionsStep ==
    ASSUME TypeInv, ReadInv, Versions, [Next]_vars PROVE Versions'
<1> SUFFICES ASSUME NEW b \in Bill, Exists(b)' PROVE bill'[b].version >= 1
  BY DEF Versions
<1>1. CASE Exists(b)
  BY <1>1, BillStep DEF Kept, Versions, Exists, TypeInv, BillRow
<1>2. CASE ~Exists(b)
  <2>1. PICK d \in Document, i \in 1..MaxLines :
          bill' = [bill EXCEPT ![b] = NewBill(d, Confirmed(d) \cup {i})]
    BY <1>2, NewBills
  <2>2. bill'[b].version = 1
    BY <2>1 DEF NewBill, TypeInv
  <2> QED BY <2>2
<1> QED BY <1>1, <1>2

\* A flagged document has given nothing and cannot give anything.
LEMMA FlaggedStep ==
    ASSUME TypeInv, ReadInv, FlaggedNeverPromoted, RowsRestOnEvidence, [Next]_vars
    PROVE  FlaggedNeverPromoted'
<1> SUFFICES ASSUME NEW d \in Document, doc'[d].flags
             PROVE  /\ doc'[d].status = "SECURITY_REVIEW"
                    /\ Confirmed(d)' = {}
                    /\ \A b \in Bill : Exists(b)' => bill'[b].doc # d
                    /\ \A n \in notice' : n.doc # d
  BY DEF FlaggedNeverPromoted
<1>1. \A i \in 1..MaxLines : ~Confirming(d, i)
  BY ConfirmingAdds
<1>2. /\ doc'[d].status = "SECURITY_REVIEW" /\ Confirmed(d)' = {} /\ Confirmed(d) = {}
  <2>1. CASE doc'[d] = doc[d]
    BY <2>1, SameFacts DEF FlaggedNeverPromoted
  <2>2. CASE Uploading(d)
    BY <2>2 DEF Uploading, NoDoc
  <2>3. CASE Reading(d)
    <3>1. doc[d].input \in Input
      BY DEF TypeInv, DocRow
    <3>2. \A i \in 1..MaxLines : doc'[d].fact[i] # "USER_CONFIRMED"
      BY <2>3, <3>1, FactOfLine DEF Reading, Input
    <3> QED BY <2>3, <3>2 DEF Reading, Confirmed, Rows
  <2>4. ASSUME NEW i \in 1..MaxLines, Rejecting(d, i)
        PROVE  /\ doc'[d].status = "SECURITY_REVIEW"
               /\ Confirmed(d)' = {} /\ Confirmed(d) = {}
    BY <2>4, RejectingKeeps DEF FlaggedNeverPromoted
  <2> QED BY <1>1, <2>1, <2>2, <2>3, <2>4, DocStep
<1>3. ASSUME NEW b \in Bill, Exists(b)', bill'[b].doc = d PROVE FALSE
  <2>1. CASE Exists(b)
    <3>1. bill[b].doc = d /\ d # None
      BY <1>3, <2>1, BillStep, DocumentsAssumption DEF Kept
    <3>2. CRITICAL_FIELDS \subseteq FieldsOf(d, Confirmed(d))
      BY <2>1, <3>1 DEF RowsRestOnEvidence
    <3> QED BY <1>2, <3>2 DEF FieldsOf, CRITICAL_FIELDS
  <2>2. CASE ~Exists(b)
    <3>1. PICK e \in Document, i \in 1..MaxLines :
            /\ Confirming(e, i)
            /\ bill' = [bill EXCEPT ![b] = NewBill(e, Confirmed(e) \cup {i})]
      BY <1>3, <2>2, NewBills
    <3>2. e = d
      BY <1>3, <3>1 DEF NewBill, TypeInv
    <3> QED BY <1>1, <3>1, <3>2
  <2> QED BY <2>1, <2>2
<1>4. ASSUME NEW n \in notice', n.doc = d PROVE FALSE
  <2>1. CASE n \in notice
    <3>1. "amount" \in FieldsOf(d, Confirmed(d))
      BY <1>4, <2>1 DEF RowsRestOnEvidence, NOTICE_FIELDS
    <3> QED BY <1>2, <3>1 DEF FieldsOf
  <2>2. CASE n \notin notice
    BY <1>1, <1>4, <2>2, NewNotices
  <2> QED BY <2>1, <2>2
<1> QED BY <1>2, <1>3, <1>4

\* A document that made a commitment makes no second one, and keeps its target.
LEMMA OneBillStep ==
    ASSUME TypeInv, ReadInv, RowsRestOnEvidence, OneBillPerDocument, [Next]_vars
    PROVE  OneBillPerDocument'
<1>1. ASSUME NEW b \in Bill, Exists(b), bill[b].doc # None
      PROVE  /\ bill[b].doc \in Document
             /\ doc'[bill[b].doc].input = doc[bill[b].doc].input
  <2>1. bill[b].doc \in Document
    BY <1>1 DEF Exists, TypeInv, BillRow
  <2> PICK d \in Document : d = bill[b].doc
    BY <2>1
  <2>2. Rows(d) # {}
    BY <1>1 DEF RowsRestOnEvidence, FieldsOf, CRITICAL_FIELDS, Confirmed, Rows
  <2>3. ~Uploading(d) /\ ~Reading(d)
    BY <2>2 DEF Uploading, Reading, ReadInv, Read
  <2>4. doc'[d].input = doc[d].input
    BY <2>3, DocStep, ConfirmingAdds, RejectingKeeps
  <2> QED BY <2>4
<1>2. ASSUME NEW b \in Bill, Exists(b)', bill'[b].doc # None
      PROVE  doc'[bill'[b].doc].input.target = None
  <2>1. CASE Exists(b)
    BY <1>1, <1>2, <2>1, BillStep DEF Kept, OneBillPerDocument
  <2>2. CASE ~Exists(b)
    <3>1. PICK d \in Document, i \in 1..MaxLines :
            /\ Confirming(d, i) /\ Existing(d) = {}
            /\ bill' = [bill EXCEPT ![b] = NewBill(d, Confirmed(d) \cup {i})]
      BY <1>2, <2>2, NewBills
    <3>2. bill'[b].doc = d /\ doc'[d].input = doc[d].input
      BY <3>1, ConfirmingAdds DEF NewBill, TypeInv
    <3> QED BY <3>1, <3>2 DEF Existing
  <2> QED BY <2>1, <2>2
<1>3. ASSUME NEW b \in Bill, NEW c \in Bill, Exists(b)', Exists(c)', b # c,
             bill'[b].doc # None, bill'[c].doc = bill'[b].doc
      PROVE  FALSE
  <2>1. ASSUME NEW x \in Bill, NEW y \in Bill, x # y, ~Exists(x), Exists(x)', Exists(y)',
               bill'[x].doc # None, bill'[y].doc = bill'[x].doc
        PROVE  FALSE
    <3>1. PICK d \in Document, i \in 1..MaxLines :
            /\ Confirming(d, i) /\ Existing(d) = {}
            /\ bill' = [bill EXCEPT ![x] = NewBill(d, Confirmed(d) \cup {i})]
      BY <2>1, NewBills
    <3>2. bill'[x].doc = d /\ bill'[y] = bill[y]
      BY <2>1, <3>1 DEF NewBill, TypeInv
    <3>3. Exists(y) /\ bill[y].doc = d
      BY <2>1, <3>2 DEF Exists
    <3> QED BY <3>1, <3>3 DEF Existing
  <2>2. CASE Exists(b) /\ Exists(c)
    BY <1>3, <2>2, BillStep DEF Kept, OneBillPerDocument
  <2> QED BY <1>3, <2>1, <2>2
<1> QED BY <1>2, <1>3 DEF OneBillPerDocument

\* A payment that awaits execution is prepared on the state as it is.
LEMMA PaymentsStep ==
    ASSUME TypeInv, ReadInv, PaymentsKnowHolds, [Next]_vars PROVE PaymentsKnowHolds'
<1>1. CASE actions' = {}
  BY <1>1 DEF PaymentsKnowHolds
<1>2. ASSUME UNCHANGED <<bill, notice>>, actions' = actions PROVE PaymentsKnowHolds'
  BY <1>2 DEF PaymentsKnowHolds, FinancialState
<1>3. ASSUME NEW b \in Bill, Prepare(b) PROVE PaymentsKnowHolds'
  BY <1>3 DEF Prepare, PaymentsKnowHolds, FinancialState
<1>4. ASSUME NEW d \in Document, Extract(d) PROVE PaymentsKnowHolds'
  <2> DEFINE x == doc[d].input
  <2>1. CASE doc'[d].flags
    BY <1>1, <1>4, <2>1 DEF Extract, Invalidate
  <2>2. CASE ~doc'[d].flags /\ Rows(d) = {}
    <3>1. doc'[d].flags = FlaggedUpTo(x, Len(x.lines))
      BY <1>4, <2>2 DEF Extract, ReadText, TypeInv, DocRow
    <3>2. ~\E i \in 1..Len(x.lines) : Holds(x, i)
      BY <2>2, <3>1 DEF FlaggedUpTo
    <3>3. UNCHANGED <<bill, notice>>
      BY <1>4, <2>2, <3>2 DEF Extract, ReadText
    <3> QED BY <1>2, <1>4, <2>2, <3>3 DEF Extract
  <2>3. CASE ~doc'[d].flags /\ Rows(d) # {}
    BY <1>2, <1>4, <2>3 DEF Extract
  <2> QED BY <2>1, <2>2, <2>3
<1> QED BY <1>1, <1>2, <1>3, <1>4
        DEF Next, ReviewNext, OwnerNext, Upload, ConfirmPart, ConfirmNotice, ConfirmInvoice,
            Reject, PatchObligation, VerifyBeneficiary, Pay, GeneratePlan, vars, Invalidate

\* A document that names another beneficiary holds its commitment when it is read, and
\* the hold stays until the commitment has a new version.
LEMMA HoldStep ==
    ASSUME TypeInv, ReadInv, Versions, ForeignBeneficiaryHolds, [Next]_vars
    PROVE  ForeignBeneficiaryHolds'
<1> SUFFICES ASSUME NEW d \in Document,
                    doc'[d].status \notin {"NONE", "UPLOADED"},
                    doc'[d].input.target # None,
                    bill'[doc'[d].input.target].version = 1,
                    NEW i \in 1..Len(doc'[d].input.lines),
                    doc'[d].input.lines[i].field = "beneficiary",
                    doc'[d].input.lines[i].value
                      # bill'[doc'[d].input.target].terms["beneficiary"]
             PROVE  bill'[doc'[d].input.target].hold
  BY DEF ForeignBeneficiaryHolds
<1> DEFINE x == doc[d].input
           t == x.target
<1>1. /\ doc'[d].input = x /\ doc[d].status # "NONE"
      /\ Reading(d) \/ doc[d].status # "UPLOADED"
  <2>1. CASE doc'[d] = doc[d]
    BY <2>1
  <2>2. CASE Uploading(d)
    BY <2>2 DEF Uploading, NoDoc
  <2>3. CASE Reading(d)
    BY <2>3 DEF Reading
  <2>4. ASSUME NEW k \in 1..MaxLines, Confirming(d, k) \/ Rejecting(d, k)
        PROVE  doc'[d].input = x /\ doc[d].status \notin {"NONE", "UPLOADED"}
    <3>1. doc'[d].input = x /\ k \in Rows(d)
      BY <2>4, ConfirmingAdds, RejectingKeeps DEF Rows
    <3> QED BY <3>1 DEF ReadInv, Read
  <2> QED BY <2>1, <2>2, <2>3, <2>4, DocStep
<1>2. t \in Bill /\ Exists(t)
  BY <1>1 DEF ReadInv, Read
<1>3. /\ bill'[t].terms = bill[t].terms /\ bill[t].version = 1
      /\ bill[t].hold => bill'[t].hold
  <2>1. bill[t].version \in Nat /\ bill[t].version >= 1
    BY <1>2 DEF Versions, Exists, TypeInv, BillRow
  <2>2. bill'[t].version = 1
    BY <1>1
  <2>3. Kept(t)
    <3> HIDE DEF t
    <3> QED BY <1>2, BillStep
  <2> HIDE DEF t
  <2> QED BY <2>1, <2>2, <2>3 DEF Kept
<1>4. CASE Reading(d)
  <2>1. Holds(x, i)
    BY <1>1, <1>3 DEF Holds
  <2>2. bill' = [bill EXCEPT ![t].hold = TRUE]
    BY <1>1, <1>4, <2>1 DEF Reading
  <2>3. bill[t] \in BillRow
    BY <1>2 DEF Exists, TypeInv
  <2> QED BY <1>1, <1>2, <2>2, <2>3 DEF TypeInv, BillRow
<1>5. CASE doc[d].status # "UPLOADED"
  BY <1>1, <1>3, <1>5 DEF ForeignBeneficiaryHolds
<1> QED BY <1>1, <1>4, <1>5

\* An invoice is completed only in agreement with what is there.
LEMMA AgreementStep ==
    ASSUME TypeInv, ReadInv, [Next]_vars, NEW d \in Document, NEW b \in Existing(d),
           ~doc[d].input.notice, doc'[d].status = "CONFIRMED",
           NEW k \in 1..MaxLines, doc'[d].fact[k] = "USER_CONFIRMED",
           doc[d].fact[k] # "USER_CONFIRMED"
    PROVE  bill[b].terms = TermsOf(d, Confirmed(d) \cup
               {i \in 1..MaxLines : /\ doc'[d].fact[i] = "USER_CONFIRMED"
                                   /\ doc[d].fact[i] # "USER_CONFIRMED"})
<1> DEFINE newly == {i \in 1..MaxLines : /\ doc'[d].fact[i] = "USER_CONFIRMED"
                                        /\ doc[d].fact[i] # "USER_CONFIRMED"}
<1>1. ~Uploading(d) /\ ~Reading(d)
  <2>1. doc[d].input \in Input
    BY DEF TypeInv, DocRow
  <2> QED BY <2>1, FactOfLine DEF Uploading, Reading, NoDoc, Input
<1>2. \A i \in 1..MaxLines : ~Rejecting(d, i)
  BY RejectingKeeps
<1>3. PICK i \in 1..MaxLines : Confirming(d, i)
  BY <1>1, <1>2, DocStep
<1>4. newly = {i}
  BY <1>3, ConfirmingAdds
<1>5. ConfirmInvoice(d, i)
  <2>1. ~ConfirmPart(d, i)
    <3>1. ASSUME ConfirmPart(d, i) PROVE FALSE
      <4>1. doc[d].status = "CONFIRMED"
        BY <3>1 DEF ConfirmPart, ConfirmAs, TypeInv, DocRow
      <4>2. CRITICAL_FIELDS \subseteq FieldsOf(d, Confirmed(d))
        BY <4>1 DEF ReadInv, Read
      <4>3. CRITICAL_FIELDS \subseteq FieldsOf(d, Confirmed(d) \cup {i})
        BY <4>2 DEF FieldsOf
      <4> QED BY <3>1, <4>3 DEF ConfirmPart
    <3> QED BY <3>1
  <2> QED BY <1>3, <2>1 DEF Confirming, ConfirmNotice
<1>6. bill[b].terms = TermsOf(d, Confirmed(d) \cup {i})
  BY <1>5 DEF ConfirmInvoice, Agrees
<1> QED BY <1>4, <1>6

-----------------------------------------------------------------------------

\* The invariant holds before any upload.
LEMMA InitInv == Init => IInv
<1> SUFFICES ASSUME Init PROVE IInv
  OBVIOUS
<1>1. /\ \A d \in Document : doc[d] = NoDoc
      /\ NoDoc.status = "NONE" /\ ~NoDoc.flags /\ NoDoc.input = NoInput
      /\ \A i \in 1..MaxLines : NoDoc.fact[i] = "NONE"
  BY DEF Init, NoDoc
<1>2. \A b \in Bill : bill[b] # None =>
        /\ bill[b] \in BillRow /\ bill[b].version = 1 /\ bill[b].doc = None
  <2> SUFFICES ASSUME NEW b \in Bill, bill[b] # None
               PROVE  bill[b] \in BillRow /\ bill[b].version = 1 /\ bill[b].doc = None
    OBVIOUS
  <2>1. /\ b \in DOMAIN SeedBill
        /\ bill[b] = [terms |-> SeedBill[b], hold |-> FALSE, version |-> 1,
                      status |-> "OPEN", doc |-> None]
    BY DEF Init
  <2> QED BY <2>1, DocumentsAssumption DEF BillRow
<1>3. TypeInv
  <2>1. doc \in [Document -> DocRow] /\ \A d \in Document : doc[d].input = NoInput
    BY EmptyRows DEF Init, NoDoc
  <2>2. bill \in [Bill -> BillRow \cup {None}]
    BY <1>2 DEF Init
  <2> QED BY <2>1, <2>2 DEF Init, TypeInv
<1>4. \A d \in Document : Rows(d) = {} /\ Confirmed(d) = {}
  <2>1. \A d \in Document, i \in 1..MaxLines : doc[d].fact[i] = "NONE"
    BY <1>1
  <2> QED BY <2>1 DEF Rows, Confirmed
<1>5. ReadInv
  <2>1. \A d \in Document : doc[d].status = "NONE" /\
          \A i \in 1..MaxLines : doc[d].fact[i] = "NONE"
    BY <1>1
  <2> QED BY <1>4, <2>1 DEF ReadInv, Read
<1>6. FlaggedNeverPromoted /\ ForeignBeneficiaryHolds
  BY <1>1 DEF FlaggedNeverPromoted, ForeignBeneficiaryHolds
<1>7. Versions /\ RowsRestOnEvidence /\ OneBillPerDocument
  BY <1>2 DEF Versions, RowsRestOnEvidence, OneBillPerDocument, Exists, Init
<1>8. PaymentsKnowHolds
  BY DEF Init, PaymentsKnowHolds
<1> QED BY <1>3, <1>5, <1>6, <1>7, <1>8 DEF IInv

\* Every step keeps the invariant.
LEMMA InvStep == IInv /\ [Next]_vars => IInv'
  BY TypeStep, ReadStep, VersionsStep, FlaggedStep, EvidenceStep, OneBillStep,
     PaymentsStep, HoldStep DEF IInv

\* IInv holds in every reachable state.
LEMMA Invariant == Spec => []IInv
  BY InitInv, InvStep, PTL DEF Spec

\* TypeOK holds of every reachable state: no upload, extraction, confirmation or
\* correction writes a row the schema refuses.
THEOREM TypeCorrect == Spec => []TypeOK
<1>1. IInv => TypeOK
  <2>1. TypeInv => TypeOK
    BY StateType DEF TypeInv, TypeOK, DocRow, Action
  <2> QED BY <2>1 DEF IInv
<1> QED BY <1>1, Invariant, PTL

\* confirm: a document with a security flag gives no fact and no row.
THEOREM FlaggedEvidenceIsInert == Spec => []FlaggedNeverPromoted
<1>1. IInv => FlaggedNeverPromoted
  BY DEF IInv
<1> QED BY <1>1, Invariant, PTL

\* confirm: a row made from a document says what confirmed facts say and still say.
THEOREM EvidenceRemains == Spec => []RowsRestOnEvidence
<1>1. IInv => RowsRestOnEvidence
  BY DEF IInv
<1> QED BY <1>1, Invariant, PTL

\* confirm: a document makes at most one commitment.
THEOREM NoSecondBill == Spec => []OneBillPerDocument
<1>1. IInv => OneBillPerDocument
  BY DEF IInv
<1> QED BY <1>1, Invariant, PTL

\* invalidate: a payment that awaits execution knows every hold and beneficiary.
THEOREM HoldsReachPayments == Spec => []PaymentsKnowHolds
<1>1. IInv => PaymentsKnowHolds
  BY DEF IInv
<1> QED BY <1>1, Invariant, PTL

\* extraction: another beneficiary holds the commitment until its owner acts.
THEOREM ForeignBeneficiaryIsHeld == Spec => []ForeignBeneficiaryHolds
<1>1. IInv => ForeignBeneficiaryHolds
  BY DEF IInv
<1> QED BY <1>1, Invariant, PTL

\* confirm: no document changes the terms of a commitment or lifts its hold.
THEOREM NothingIsOverwritten == Spec => DocumentsOverwriteNothing
<1>1. IInv /\ [Next]_vars =>
        \A b \in Bill : Exists(b) =>
          \/ /\ bill'[b].terms = bill[b].terms
             /\ bill[b].hold => bill'[b].hold
          \/ bill'[b].version = bill[b].version + 1 /\ UNCHANGED doc
  BY BillStep DEF IInv, Kept
<1> QED BY <1>1, Invariant, PTL DEF Spec, DocumentsOverwriteNothing

\* confirm: an invoice is completed only in agreement with the commitment.
THEOREM CompletionAgrees == Spec => CompletedInAgreement
<1>1. IInv /\ [Next]_vars =>
        \A d \in Document, b \in Bill :
          LET newly == {i \in 1..MaxLines : /\ doc'[d].fact[i] = "USER_CONFIRMED"
                                            /\ doc[d].fact[i] # "USER_CONFIRMED"}
          IN  /\ newly # {} /\ doc'[d].status = "CONFIRMED" /\ ~doc[d].input.notice
              /\ b \in Existing(d)
              => bill[b].terms = TermsOf(d, Confirmed(d) \cup newly)
  BY AgreementStep DEF IInv
<1> QED BY <1>1, Invariant, PTL DEF Spec, CompletedInAgreement
=============================================================================
