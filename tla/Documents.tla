------------------------------ MODULE Documents ------------------------------
(***************************************************************************)
(* Evidence (apps/api/routes_documents.py, lattice_ai/extraction/          *)
(* service.py): an uploaded document is read into facts, each quoted and   *)
(* checked, the student confirms or rejects them one by one, and the last  *)
(* confirmation that completes the evidence creates a commitment or an     *)
(* expected source, or agrees with the commitment the document was         *)
(* uploaded for.  Suspicious text flags the document for good; another     *)
(* beneficiary holds the commitment until its owner attests one.           *)
(*                                                                         *)
(* One student.  A request that raises is rolled back whole and changes    *)
(* nothing.  Plans and payments appear as in LifeEvents: a live plan is    *)
(* the state it was made from, a live action pays one commitment.          *)
(***************************************************************************)
EXTENDS Integers, Sequences

CONSTANTS
    Document,       \* document slots
    Bill,           \* commitment slots
    SeedBill,       \* the terms of the commitments there before any document
    None,           \* no commitment, no document
    Value,          \* amounts, currencies, dates and beneficiaries
    Inputs,         \* the documents a student may upload
    Fractional,     \* <<amount, currency>>: more decimals than the currency has
    Edits,          \* <<field, value>>: the corrections an owner may send
    Attested,       \* the beneficiaries an owner may attest
    MaxLines,       \* bound: labelled lines of a document
    MaxVersion      \* bound: commitment versions are 1..MaxVersion

CRITICAL_FIELDS == {"amount", "currency", "due_date", "beneficiary"}
NOTICE_FIELDS == {"amount", "currency", "available_from"}
Field == CRITICAL_FIELDS \cup NOTICE_FIELDS

\* A labelled line as the provider proposes it; supported is the verdict of the
\* validation on the quoted evidence and the normalized value.
Line == [field : Field, value : Value, supported : BOOLEAN]

\* notice: of a scholarship or sponsor; injected: instructions, hidden characters
\* or a spoofed beneficiary in the text; target: the related commitment.
Input == [notice : BOOLEAN, injected : BOOLEAN, target : Bill \cup {None},
          lines : Seq(Line)]

ASSUME DocumentsAssumption ==
    /\ None \notin Bill \cup Document
    /\ DOMAIN SeedBill \subseteq Bill
    /\ \A b \in DOMAIN SeedBill : SeedBill[b] \in [CRITICAL_FIELDS -> Value]
    /\ Inputs \subseteq Input
    /\ \A x \in Inputs : Len(x.lines) <= MaxLines
    /\ Fractional \subseteq Value \X Value
    /\ Edits \subseteq {"amount", "due_date"} \X Value
    /\ Attested \subseteq Value
    /\ MaxLines \in Nat /\ MaxVersion \in Nat \ {0}

VARIABLES
    doc,        \* document rows with their facts
    bill,       \* commitment rows
    notice,     \* the expected sources made from notices
    plans,      \* the snapshots of the live plans
    actions     \* the live prepared payments

vars == <<doc, bill, notice, plans, actions>>

FactStatus == {"NONE", "EXTRACTED", "REVIEW_REQUIRED", "CONFLICTED",
               "USER_CONFIRMED", "REJECTED"}
DocStatus == {"NONE", "UPLOADED", "EXTRACTED", "SECURITY_REVIEW", "CONFIRMED"}

\* The fact of line i has the row fact[i]; flags: whether security_flags has any.
DocRow == [status : DocStatus, input : Input, flags : BOOLEAN,
           fact : [1..MaxLines -> FactStatus]]
NoInput == [notice |-> FALSE, injected |-> FALSE, target |-> None, lines |-> <<>>]
NoDoc == [status |-> "NONE", input |-> NoInput, flags |-> FALSE,
          fact |-> [i \in 1..MaxLines |-> "NONE"]]

\* doc: the column source_document_id.
BillRow == [terms : [CRITICAL_FIELDS -> Value], hold : BOOLEAN, version : Nat,
            status : {"OPEN", "SANDBOX_PAID"}, doc : Document \cup {None}]
Exists(b) == bill[b] # None

ASSUME NoneAssumption == None \notin BillRow

-----------------------------------------------------------------------------
(* The canonical state, plans and payments *)

FinancialState == [bill |-> bill, notice |-> notice]

\* invalidate, with a replacement when a plan was live.
Invalidate ==
    /\ actions' = {}
    /\ plans' = IF plans = {} THEN {} ELSE {FinancialState'}

GeneratePlan ==
    /\ plans' = plans \cup {FinancialState}
    /\ UNCHANGED <<doc, bill, notice, actions>>

Prepare(b) ==
    /\ Exists(b)
    /\ bill[b].status = "OPEN" /\ ~bill[b].hold
    /\ FinancialState \in plans
    /\ actions' = actions \cup
          {[hash |-> FinancialState, bill |-> b, to |-> bill[b].terms["beneficiary"]]}
    /\ UNCHANGED <<doc, bill, notice, plans>>

Pay(a) ==
    /\ a.hash = FinancialState
    /\ ~bill[a.bill].hold
    /\ a.to = bill[a.bill].terms["beneficiary"]
    /\ bill' = [bill EXCEPT ![a.bill].status = "SANDBOX_PAID"]
    /\ UNCHANGED <<doc, notice>>
    /\ actions' = {} /\ plans' = {FinancialState'}

-----------------------------------------------------------------------------
(* Upload and extraction *)

Upload(d, x) ==
    /\ doc[d].status = "NONE"
    /\ x.target # None => Exists(x.target)
    /\ doc' = [doc EXCEPT ![d] = [NoDoc EXCEPT !.status = "UPLOADED", !.input = x]]
    /\ UNCHANGED <<bill, notice, plans, actions>>

Rows(d) == {i \in 1..MaxLines : doc[d].fact[i] # "NONE"}

\* Several values for one field, or another one than the related commitment has.
Disputed(x, i) ==
    \/ \E j \in 1..Len(x.lines) : /\ x.lines[j].field = x.lines[i].field
                                  /\ x.lines[j].value # x.lines[i].value
    \/ /\ x.target # None
       /\ x.lines[i].field \in CRITICAL_FIELDS
       /\ x.lines[i].value # bill[x.target].terms[x.lines[i].field]

\* Mutant: only a proposal that is supported by its evidence sets a hold.
HoldsIfSupported(x, i) ==
    /\ x.target # None
    /\ x.lines[i].field = "beneficiary"
    /\ Disputed(x, i) /\ x.lines[i].supported

\* A beneficiary that differs holds the commitment even if it is not supported.
Holds(x, i) ==
    /\ x.target # None
    /\ x.lines[i].field = "beneficiary"
    /\ \/ x.lines[i].value # bill[x.target].terms["beneficiary"]
       \/ Disputed(x, i) /\ x.lines[i].supported

FlaggedText(x) ==
    \/ x.injected
    \/ \E i, j \in 1..Len(x.lines) :
          /\ x.lines[i].field = "amount" /\ x.lines[j].field = "currency"
          /\ x.lines[i].supported /\ x.lines[j].supported
          /\ <<x.lines[i].value, x.lines[j].value>> \in Fractional

\* The flags raised when line n has been looked at, in reading order.
FlaggedUpTo(x, n) ==
    FlaggedText(x) \/ \E i \in 1..n : Holds(x, i) \/ ~x.lines[i].supported

\* Mutant: a fact takes over the status of its document.
FactLikeDocument(x, i) ==
    IF i > Len(x.lines) \/ ~x.lines[i].supported THEN "NONE"
    ELSE IF FlaggedUpTo(x, i) THEN "SECURITY_REVIEW" ELSE "EXTRACTED"

FactOf(x, i) ==
    IF i > Len(x.lines) \/ ~x.lines[i].supported THEN "NONE"
    ELSE IF Disputed(x, i) THEN "CONFLICTED"
    ELSE IF FlaggedUpTo(x, i) THEN "REVIEW_REQUIRED" ELSE "EXTRACTED"

ReadText(d) ==
    LET x == doc[d].input
        flags == FlaggedUpTo(x, Len(x.lines))
    IN  /\ doc' = [doc EXCEPT ![d] =
              [@ EXCEPT !.fact = [i \in 1..MaxLines |-> FactOf(x, i)],
                        !.flags = flags,
                        !.status = IF flags THEN "SECURITY_REVIEW" ELSE "EXTRACTED"]]
        /\ bill' = IF \E i \in 1..Len(x.lines) : Holds(x, i)
                   THEN [bill EXCEPT ![x.target].hold = TRUE] ELSE bill
        /\ UNCHANGED notice

\* Mutant: the student's plans are left as they are.
ExtractQuietly(d) ==
    /\ doc[d].status # "NONE"
    /\ IF Rows(d) = {} THEN ReadText(d) ELSE UNCHANGED <<doc, bill, notice>>
    /\ UNCHANGED <<plans, actions>>

\* A document is read again as long as it has given no fact.
Extract(d) ==
    /\ doc[d].status # "NONE"
    /\ IF Rows(d) = {} THEN ReadText(d) ELSE UNCHANGED <<doc, bill, notice>>
    /\ IF doc'[d].flags THEN Invalidate ELSE UNCHANGED <<plans, actions>>

-----------------------------------------------------------------------------
(* Confirmation and rejection *)

\* Mutant: the status of the fact is all that counts.
PromotableFact(d, i) ==
    doc[d].fact[i] \notin {"NONE", "CONFLICTED", "REJECTED"}

Promotable(d, i) ==
    /\ doc[d].fact[i] \notin {"NONE", "CONFLICTED", "REJECTED"}
    /\ ~doc[d].flags

Confirmed(d) == {i \in 1..MaxLines : doc[d].fact[i] = "USER_CONFIRMED"}
FieldsOf(d, rows) == {doc[d].input.lines[i].field : i \in rows}
ValueOf(d, rows, field) ==
    CHOOSE v \in Value : \E i \in rows : /\ doc[d].input.lines[i].field = field
                                         /\ doc[d].input.lines[i].value = v

\* The terms the confirmed facts add up to.
TermsOf(d, rows) == [field \in CRITICAL_FIELDS |-> ValueOf(d, rows, field)]

ConfirmAs(d, i, status) ==
    doc' = [doc EXCEPT ![d].fact[i] = "USER_CONFIRMED", ![d].status = status]

\* Facts are missing: the confirmation is kept, nothing else happens.
ConfirmPart(d, i) ==
    LET rows == Confirmed(d) \cup {i}
        required == IF doc[d].input.notice THEN NOTICE_FIELDS ELSE CRITICAL_FIELDS
    IN  /\ Promotable(d, i)
        /\ ~(required \subseteq FieldsOf(d, rows))
        /\ ConfirmAs(d, i, doc[d].status)
        /\ UNCHANGED <<bill, notice, plans, actions>>

\* The source belongs to an amount fact of the document; which one, if it states
\* its amount twice, is up to the order the database returns rows in.
ConfirmNotice(d, i) ==
    LET rows == Confirmed(d) \cup {i}
    IN  /\ Promotable(d, i)
        /\ doc[d].input.notice
        /\ NOTICE_FIELDS \subseteq FieldsOf(d, rows)
        /\ ConfirmAs(d, i, "CONFIRMED")
        /\ \E k \in Rows(d) :
              /\ doc[d].input.lines[k].field = "amount"
              /\ notice' = IF \E n \in notice : n.doc = d /\ n.fact = k THEN notice
                           ELSE notice \cup {[doc |-> d, fact |-> k, terms |->
                                   [f \in NOTICE_FIELDS |-> ValueOf(d, rows, f)]]}
        /\ UNCHANGED bill
        /\ Invalidate

\* Mutant: a commitment is found by the document's target only.
ExistingTarget(d) == {doc[d].input.target} \ {None}

Existing(d) ==
    IF doc[d].input.target # None THEN {doc[d].input.target}
    ELSE {b \in Bill : Exists(b) /\ bill[b].doc = d}

\* Mutant: agreement is taken from the extraction.
AgreesAsExtracted(d, rows) == TRUE

Agrees(d, rows) == \A b \in Existing(d) : bill[b].terms = TermsOf(d, rows)

NewBill(d, rows) ==
    [terms |-> TermsOf(d, rows), hold |-> FALSE, version |-> 1, status |-> "OPEN",
     doc |-> d]

\* Mutant: a complete document corrects the commitment it was uploaded for.
ConfirmOverwriting(d, i) ==
    LET rows == Confirmed(d) \cup {i}
    IN  /\ Promotable(d, i)
        /\ ~doc[d].input.notice
        /\ CRITICAL_FIELDS \subseteq FieldsOf(d, rows)
        /\ ConfirmAs(d, i, "CONFIRMED")
        /\ bill' = [b \in Bill |-> IF b \in Existing(d)
                                   THEN [bill[b] EXCEPT !.terms = TermsOf(d, rows)]
                                   ELSE bill[b]]
        /\ UNCHANGED notice
        /\ Invalidate

ConfirmInvoice(d, i) ==
    LET rows == Confirmed(d) \cup {i}
    IN  /\ Promotable(d, i)
        /\ ~doc[d].input.notice
        /\ CRITICAL_FIELDS \subseteq FieldsOf(d, rows)
        /\ Agrees(d, rows)
        /\ ConfirmAs(d, i, "CONFIRMED")
        /\ IF Existing(d) # {} THEN UNCHANGED bill
           ELSE \E b \in {x \in Bill : ~Exists(x)} :
                   bill' = [bill EXCEPT ![b] = NewBill(d, rows)]
        /\ UNCHANGED notice
        /\ Invalidate

\* Mutant: a confirmed fact may be rejected.
RejectAny(d, i) ==
    /\ doc[d].fact[i] # "NONE"
    /\ doc' = [doc EXCEPT ![d].fact[i] = "REJECTED"]
    /\ UNCHANGED <<bill, notice, plans, actions>>

\* A confirmed fact is retained as evidence.
Reject(d, i) ==
    /\ doc[d].fact[i] \notin {"NONE", "USER_CONFIRMED"}
    /\ doc' = [doc EXCEPT ![d].fact[i] = "REJECTED"]
    /\ UNCHANGED <<bill, notice, plans, actions>>

-----------------------------------------------------------------------------
(* The owner's own corrections *)

PatchObligation(b, field, value) ==
    /\ Exists(b)
    /\ bill[b].version < MaxVersion
    /\ bill' = [bill EXCEPT ![b].terms[field] = value, ![b].version = @ + 1]
    /\ UNCHANGED <<doc, notice>>
    /\ Invalidate

VerifyBeneficiary(b, value) ==
    /\ Exists(b)
    /\ bill[b].version < MaxVersion
    /\ bill' = [bill EXCEPT ![b].terms["beneficiary"] = value, ![b].hold = FALSE,
                            ![b].version = @ + 1]
    /\ UNCHANGED <<doc, notice>>
    /\ Invalidate

-----------------------------------------------------------------------------

Init ==
    /\ doc = [d \in Document |-> NoDoc]
    /\ bill = [b \in Bill |->
          IF b \in DOMAIN SeedBill
          THEN [terms |-> SeedBill[b], hold |-> FALSE, version |-> 1,
                status |-> "OPEN", doc |-> None]
          ELSE None]
    /\ notice = {}
    /\ plans = {}
    /\ actions = {}

ReviewNext(d) ==
    \/ \E x \in Inputs : Upload(d, x)
    \/ Extract(d)
    \/ \E i \in 1..MaxLines :
          ConfirmPart(d, i) \/ ConfirmNotice(d, i) \/ ConfirmInvoice(d, i) \/ Reject(d, i)

OwnerNext(b) ==
    \/ \E e \in Edits : PatchObligation(b, e[1], e[2])
    \/ \E v \in Attested : VerifyBeneficiary(b, v)
    \/ Prepare(b)

Next ==
    \/ \E d \in Document : ReviewNext(d)
    \/ \E b \in Bill : OwnerNext(b)
    \/ \E a \in actions : Pay(a)
    \/ GeneratePlan

Spec == Init /\ [][Next]_vars

-----------------------------------------------------------------------------
(* Properties *)

NoticeRow == [doc : Document, fact : 1..MaxLines, terms : [NOTICE_FIELDS -> Value]]
State == [bill : [Bill -> BillRow \cup {None}], notice : SUBSET NoticeRow]

\* Every row is one the schema admits.
TypeOK ==
    /\ DOMAIN doc = Document
    /\ \A d \in Document :
          /\ doc[d].status \in DocStatus /\ doc[d].flags \in BOOLEAN
          /\ doc[d].input \in Inputs \cup {NoInput}
          /\ doc[d].fact \in [1..MaxLines -> FactStatus]
    /\ FinancialState \in State
    /\ plans \subseteq State
    /\ \A a \in actions : a.hash \in State /\ a.bill \in Bill /\ a.to \in Value

\* confirm: nothing a flagged document says is ever confirmed or becomes a row,
\* although some of its lines were read before the first flag was raised.
FlaggedNeverPromoted ==
    \A d \in Document : doc[d].flags =>
        /\ doc[d].status = "SECURITY_REVIEW"
        /\ Confirmed(d) = {}
        /\ \A b \in Bill : Exists(b) => bill[b].doc # d
        /\ \A n \in notice : n.doc # d

\* docs/threat-model.md, "No evidence means no financial fact promotion": a
\* commitment made from a document says, until its owner corrects it, what facts
\* confirmed one by one say and still say; and so does an expected source.
RowsRestOnEvidence ==
    /\ \A b \in Bill : Exists(b) /\ bill[b].doc # None =>
          LET d == bill[b].doc
          IN  /\ CRITICAL_FIELDS \subseteq FieldsOf(d, Confirmed(d))
              /\ bill[b].version = 1 => bill[b].terms = TermsOf(d, Confirmed(d))
    /\ \A n \in notice : \A f \in NOTICE_FIELDS :
          /\ f \in FieldsOf(n.doc, Confirmed(n.doc))
          /\ n.terms[f] = ValueOf(n.doc, Confirmed(n.doc), f)

\* confirm: however often facts of a document are confirmed again, it makes one
\* commitment, and none beside the commitment it was uploaded for.
OneBillPerDocument ==
    \A b \in Bill : Exists(b) /\ bill[b].doc # None =>
        /\ doc[bill[b].doc].input.target = None
        /\ \A c \in Bill : Exists(c) /\ bill[c].doc = bill[b].doc => c = b

\* extraction and verify_beneficiary: a payment that awaits execution was prepared
\* on the current state, so it knows every hold and every attested beneficiary.
PaymentsKnowHolds ==
    \A a \in actions :
        /\ a.hash = FinancialState
        /\ ~bill[a.bill].hold
        /\ a.to = bill[a.bill].terms["beneficiary"]

\* docs/audit-report.md, "proposals needed to set a security hold even when rejected
\* during validation": once a document that names another beneficiary was read, its
\* commitment is held until the owner has corrected or attested it.
ForeignBeneficiaryHolds ==
    \A d \in Document :
        LET x == doc[d].input
        IN  /\ doc[d].status \notin {"NONE", "UPLOADED"}
            /\ x.target # None /\ bill[x.target].version = 1
            /\ \E i \in 1..Len(x.lines) :
                  /\ x.lines[i].field = "beneficiary"
                  /\ x.lines[i].value # bill[x.target].terms["beneficiary"]
            => bill[x.target].hold

\* docs/threat-model.md, "Existing verified obligation cannot be overwritten by
\* document confirmation": terms change, and a hold is lifted, only with a new
\* version, which no step of a document gives.
DocumentsOverwriteNothing ==
    [][\A b \in Bill : Exists(b) =>
          \/ /\ bill'[b].terms = bill[b].terms
             /\ bill[b].hold => bill'[b].hold
          \/ bill'[b].version = bill[b].version + 1 /\ UNCHANGED doc]_vars

\* confirm: an invoice is completed only while the commitment it stands for has the
\* very terms it states, whatever its owner changed since the extraction.
CompletedInAgreement ==
    [][\A d \in Document, b \in Bill :
          LET newly == {i \in 1..MaxLines : /\ doc'[d].fact[i] = "USER_CONFIRMED"
                                            /\ doc[d].fact[i] # "USER_CONFIRMED"}
          IN  /\ newly # {} /\ doc'[d].status = "CONFIRMED" /\ ~doc[d].input.notice
              /\ b \in Existing(d)
              => bill[b].terms = TermsOf(d, Confirmed(d) \cup newly)]_vars
=============================================================================
