------------------------------ MODULE Billing ------------------------------
(***************************************************************************)
(* The billing module (billing.service.ts) over PostgreSQL at its default  *)
(* isolation level, READ COMMITTED: every statement of a request sees what *)
(* is committed when it runs, so a request is a sequence of atomic         *)
(* statements between which other requests run.  A slot is one HTTP        *)
(* request in flight; Duties[s] names the kinds of request slot s serves,  *)
(* one at a time, so the value of Duties says which kinds run              *)
(* concurrently.  The rows a transaction inserts are invisible until it    *)
(* commits, so the nested insert and its commit are one step.              *)
(***************************************************************************)
EXTENDS Integers, FiniteSets, FiniteSetsExt

CONSTANTS Slots, Duties, InvoiceIds, Trips, Clients, Amounts,
          Days,       \* calendar days
          DayOf,      \* [Trips -> Days], the date of the trip's daily log
          Radix,      \* base in which an invoice number is written
          SeqLimit,   \* largest number that fills its padded width
          None        \* not a value of any other set

ASSUME DutiesAssumption == Duties \in [Slots -> SUBSET {"create", "update", "remove"}]
ASSUME DaysAssumption == Days \subseteq Int /\ DayOf \in [Trips -> Days]
ASSUME AmountsAssumption == Amounts \subseteq Nat
ASSUME NoneAssumption == None \notin {"draft", "sent", "paid", "void"} \cup InvoiceIds
ASSUME NumberingAssumption == Radix \in Nat \ {0} /\ SeqLimit \in Nat

VARIABLES inv,        \* table Invoice with its InvoiceLine rows
          trip,       \* table Trip (owned by the operations module)
          req,        \* the request each slot serves
          announced   \* INVOICE_PAID events emitted so far, per invoice

vars == <<inv, trip, req, announced>>

-----------------------------------------------------------------------------
\* The status machine of an invoice.

\* Mutant of Transitions: a paid invoice may be voided.
VoidablePaid == [draft |-> {"sent", "paid", "void"},
                 sent  |-> {"paid", "void"},
                 paid  |-> {"void"},
                 void  |-> {}]

Transitions == [draft |-> {"sent", "paid", "void"},
                sent  |-> {"paid", "void"},
                paid  |-> {},
                void  |-> {}]

Statuses == DOMAIN Transitions

\* Rows: "absent" before the insert, "deleted" after the delete.
LineSets == UNION {[S -> Amounts] : S \in SUBSET Trips}
NoLines  == [t \in {} |-> 0]
Total(lines) == SumFunction(lines)
Totals   == {0} \cup {Total(l) : l \in LineSets}

Invoice == [status : Statuses \cup {"absent", "deleted"}, number : Nat,
            lines : LineSets, total : Totals, amountPaid : Totals]

NoRow(status) == [status |-> status, number |-> 0, lines |-> NoLines,
                  total |-> 0, amountPaid |-> 0]

Exists(i) == inv[i].status \in Statuses

\* Trips on a line of an invoice that is not void.
InForce(i) == Exists(i) /\ inv[i].status # "void"
\* Mutant of Invoiced: drafts do not hold their trips yet.
IssuedOnly == UNION {DOMAIN inv[i].lines : i \in
    {j \in InvoiceIds : InForce(j) /\ inv[j].status # "draft"}}
Invoiced == UNION {DOMAIN inv[i].lines : i \in {j \in InvoiceIds : InForce(j)}}

\* Column `number` is unique; findFirst orders it as text, written in Radix
\* and padded to the width of SeqLimit: a wider number sorts as its prefix
\* does.  (Numbers two digits wider than SeqLimit are out of the model.)
Numbers  == {inv[i].number : i \in {j \in InvoiceIds : Exists(j)}}
LexRank(n) == IF n <= SeqLimit THEN 2 * Radix * n - 1 ELSE 2 * n

LastNumbers == {n \in Numbers : \A m \in Numbers : LexRank(m) <= LexRank(n)}
\* Mutant of NextNumbers: the count of the invoices, plus one.
CountPlusOne == {Cardinality(Numbers) + 1}
NextNumbers == IF Numbers = {} THEN {1} ELSE {n + 1 : n \in LastNumbers}

NoTrip(state) == [state |-> state, client |-> None, bill |-> 0]

TripRow == [state : {"live"}, client : Clients, bill : Amounts]
           \cup {NoTrip("unborn"), NoTrip("deleted")}

\* What a request holds between two statements.
Steps == {"idle", "trips", "number", "insert", "write", "announce", "delete"}

Request == [pc : Steps,
            client : Clients \cup {None}, from : Days \cup {0}, to : Days \cup {0},
            invoiced : SUBSET Trips, rows : LineSets, number : Nat,
            id : InvoiceIds \cup {None}, seen : Invoice,
            want : Statuses \cup {None}]

Idle == [pc |-> "idle", client |-> None, from |-> 0, to |-> 0,
         invoiced |-> {}, rows |-> NoLines, number |-> 0,
         id |-> None, seen |-> NoRow("absent"), want |-> None]

Serves(s, duty) == duty \in Duties[s] /\ req[s].pc = "idle"

Return(s) == req' = [req EXCEPT ![s] = Idle]

Init ==
    /\ inv = [i \in InvoiceIds |-> NoRow("absent")]
    /\ trip = [t \in Trips |-> NoTrip("unborn")]
    /\ req = [s \in Slots |-> Idle]
    /\ announced = [i \in InvoiceIds |-> 0]

-----------------------------------------------------------------------------
\* The operations module enters, edits and hard-deletes trips meanwhile.

EnterTrip(t, c, a) ==
    /\ trip[t].state = "unborn"
    /\ trip' = [trip EXCEPT ![t] = [state |-> "live", client |-> c, bill |-> a]]
    /\ UNCHANGED <<inv, req, announced>>

\* Mutant of EditTrip: an edit reaches the lines that billed the trip.
EditThrough(t, c, a) ==
    /\ trip[t].state = "live"
    /\ trip' = [trip EXCEPT ![t] = [state |-> "live", client |-> c, bill |-> a]]
    /\ inv' = [i \in InvoiceIds |-> [inv[i] EXCEPT !.lines =
                  [u \in DOMAIN @ |-> IF u = t THEN a ELSE @[u]]]]
    /\ UNCHANGED <<req, announced>>

EditTrip(t, c, a) ==
    /\ trip[t].state = "live"
    /\ trip' = [trip EXCEPT ![t] = [state |-> "live", client |-> c, bill |-> a]]
    /\ UNCHANGED <<inv, req, announced>>

DeleteTrip(t) ==
    /\ trip[t].state = "live"
    /\ trip' = [trip EXCEPT ![t] = NoTrip("deleted")]
    /\ UNCHANGED <<inv, req, announced>>

-----------------------------------------------------------------------------
\* POST /invoices.  Four statements: the lines of non-void invoices, the
\* client's trips of the period that are not among them, the last number,
\* and the insert of the invoice with its lines.

StartCreate(s, c, from, to) ==
    /\ Serves(s, "create")
    /\ from <= to
    /\ req' = [req EXCEPT ![s] = [Idle EXCEPT !.pc = "trips", !.client = c,
                  !.from = from, !.to = to, !.invoiced = Invoiced]]
    /\ UNCHANGED <<inv, trip, announced>>

Billable(r) == {t \in Trips \ r.invoiced :
    trip[t].state = "live" /\ trip[t].client = r.client /\ DayOf[t] \in r.from..r.to}

FetchTrips(s) ==
    /\ req[s].pc = "trips"
    /\ IF Billable(req[s]) = {}
       THEN Return(s)                              \* 400
       ELSE req' = [req EXCEPT ![s] = [Idle EXCEPT !.pc = "number",
                !.rows = [t \in Billable(req[s]) |-> trip[t].bill]]]
    /\ UNCHANGED <<inv, trip, announced>>

NumberInvoice(s) ==
    /\ req[s].pc = "number"
    /\ \E n \in NextNumbers :
          req' = [req EXCEPT ![s].pc = "insert", ![s].number = n]
    /\ UNCHANGED <<inv, trip, announced>>

InsertInvoice(s, i) ==
    /\ req[s].pc = "insert"
    /\ inv[i].status = "absent"
    /\ req[s].number \notin Numbers
    /\ inv' = [inv EXCEPT ![i] =
          [status |-> "draft", number |-> req[s].number, lines |-> req[s].rows,
           total |-> Total(req[s].rows), amountPaid |-> 0]]
    /\ Return(s)
    /\ UNCHANGED <<trip, announced>>

\* The unique index on the number refuses the row; the transaction aborts.
NumberTaken(s) ==
    /\ req[s].pc = "insert"
    /\ req[s].number \in Numbers
    /\ Return(s)
    /\ UNCHANGED <<inv, trip, announced>>

-----------------------------------------------------------------------------
\* PATCH /invoices/:id with status w (None: only the notes change).  The row
\* read by the first statement decides; the second writes by id alone.

\* Mutant of StartUpdate: no transition is refused.
StartAnyUpdate(s, i, w) ==
    /\ Serves(s, "update")
    /\ Exists(i)
    /\ req' = [req EXCEPT ![s] = [Idle EXCEPT !.pc = "write", !.id = i,
                  !.seen = inv[i], !.want = w]]
    /\ UNCHANGED <<inv, trip, announced>>

StartUpdate(s, i, w) ==
    /\ Serves(s, "update")
    /\ Exists(i)
    /\ w \in {None, inv[i].status} \cup Transitions[inv[i].status]
    /\ req' = [req EXCEPT ![s] = [Idle EXCEPT !.pc = "write", !.id = i,
                  !.seen = inv[i], !.want = w]]
    /\ UNCHANGED <<inv, trip, announced>>

\* Mutants of Patched: the status is written when none is given; the payment
\* is what the trips are worth now.
PatchedAlways(row, r) ==
    [row EXCEPT !.status = r.want,
                !.amountPaid = IF r.want = "paid" THEN r.seen.total ELSE @]

PatchedAtWorth(row, r) ==
    IF r.want \in {None, r.seen.status} THEN row
    ELSE [row EXCEPT !.status = r.want, !.amountPaid =
             IF r.want = "paid"
             THEN SumFunction([t \in DOMAIN row.lines |-> trip[t].bill]) ELSE @]

\* The columns the update names: none when the status stays as it was read.
Patched(row, r) ==
    IF r.want \in {None, r.seen.status} THEN row
    ELSE [row EXCEPT !.status = r.want,
                     !.amountPaid = IF r.want = "paid" THEN r.seen.total ELSE @]

\* Mutant of PaysNow: paying what was paid pays again.
PaysAgain(r) == r.want = "paid"
PaysNow(r) == r.want = "paid" /\ r.seen.status # "paid"

WriteUpdate(s) == LET i == req[s].id IN
    /\ req[s].pc = "write"
    /\ IF Exists(i)
       THEN /\ inv' = [inv EXCEPT ![i] = Patched(@, req[s])]
            /\ IF PaysNow(req[s])
               THEN req' = [req EXCEPT ![s] = [Idle EXCEPT !.pc = "announce", !.id = i]]
               ELSE Return(s)
       ELSE Return(s) /\ UNCHANGED inv             \* P2025
    /\ UNCHANGED <<trip, announced>>

\* getDetail, and the event once it has answered.
Announce(s) == LET i == req[s].id IN
    /\ req[s].pc = "announce"
    /\ announced' = IF Exists(i) THEN [announced EXCEPT ![i] = @ + 1]
                                 ELSE announced    \* 404
    /\ Return(s)
    /\ UNCHANGED <<inv, trip>>

-----------------------------------------------------------------------------
\* DELETE /invoices/:id, drafts only; the lines go with the row.

StartRemove(s, i) ==
    /\ Serves(s, "remove")
    /\ inv[i].status = "draft"
    /\ req' = [req EXCEPT ![s] = [Idle EXCEPT !.pc = "delete", !.id = i]]
    /\ UNCHANGED <<inv, trip, announced>>

DeleteInvoice(s) == LET i == req[s].id IN
    /\ req[s].pc = "delete"
    /\ inv' = IF Exists(i) THEN [inv EXCEPT ![i] = NoRow("deleted")]
                           ELSE inv                \* P2025
    /\ Return(s)
    /\ UNCHANGED <<trip, announced>>

\* A statement throws, a transaction times out or the process dies: the
\* request is gone and so is what it had not committed.
Fail(s) ==
    /\ req[s].pc # "idle"
    /\ Return(s)
    /\ UNCHANGED <<inv, trip, announced>>

-----------------------------------------------------------------------------
TripStep == \E t \in Trips :
    \/ \E c \in Clients, a \in Amounts : EnterTrip(t, c, a) \/ EditTrip(t, c, a)
    \/ DeleteTrip(t)

CreateStep(s) ==
    \/ \E c \in Clients, from, to \in Days : StartCreate(s, c, from, to)
    \/ FetchTrips(s)
    \/ NumberInvoice(s)
    \/ \E i \in InvoiceIds : InsertInvoice(s, i)
    \/ NumberTaken(s)

UpdateStep(s) ==
    \/ \E i \in InvoiceIds, w \in Statuses \cup {None} : StartUpdate(s, i, w)
    \/ WriteUpdate(s)
    \/ Announce(s)

RemoveStep(s) ==
    \/ \E i \in InvoiceIds : StartRemove(s, i)
    \/ DeleteInvoice(s)

Next ==
    \/ TripStep
    \/ \E s \in Slots : CreateStep(s) \/ UpdateStep(s) \/ RemoveStep(s) \/ Fail(s)

Spec == Init /\ [][Next]_vars

-----------------------------------------------------------------------------
\* Which requests may be concurrent: the conditions the results below need.

AtMostOne(duties) == \A s, t \in Slots :
    s # t => Duties[s] \cap duties = {} \/ Duties[t] \cap duties = {}

OneCreator == AtMostOne({"create"})
OneUpdater == AtMostOne({"update"})
OneClerk   == AtMostOne({"update", "remove"})

-----------------------------------------------------------------------------
\* Every variable holds a value of its type.
TypeOK ==
    /\ inv \in [InvoiceIds -> Invoice]
    /\ trip \in [Trips -> TripRow]
    /\ req \in [Slots -> Request]
    /\ announced \in [InvoiceIds -> Nat]

\* No trip is on the lines of two invoices that are not void, whatever
\* payments, voidings, deletions and trip edits happen while a creation is
\* under way.  Needs one creator and one updater (create, fetchBillableTrips).
BilledOnce == \A i, j \in InvoiceIds :
    i # j /\ InForce(i) /\ InForce(j)
        => DOMAIN inv[i].lines \cap DOMAIN inv[j].lines = {}

\* The total of an invoice is the sum of its frozen lines, and what a paid one
\* records as received is that total, though the amounts of its trips were
\* edited or the trips deleted between the creation, the reading of the row and
\* the payment (create, update).
PaidMatchesLines == \A i \in InvoiceIds : Exists(i) =>
    /\ inv[i].total = Total(inv[i].lines)
    /\ inv[i].status = "paid" => inv[i].amountPaid = inv[i].total

\* One creation at a time never fails on its number before the numbers
\* outgrow their padding; then only the first wider number is ever refused
\* (nextNumber takes the lexicographic maximum, plus one).
CollidesOnlyAtLimit == \A s \in Slots :
    req[s].pc = "insert" /\ req[s].number \in Numbers
        => req[s].number = SeqLimit + 1

\* Payment is announced at most once, and only of an invoice that is paid and
\* stays so: what the treasury posts from.  Needs one clerk (update, remove).
AnnouncedIsPaid == \A i \in InvoiceIds :
    announced[i] > 0 => announced[i] = 1 /\ inv[i].status = "paid"

\* Each kind of request runs in a slot that serves it, on an invoice if it
\* is past the reading of one; an update wants a change that is legal from
\* the status it read.
Dutiful == \A s \in Slots :
    /\ req[s].pc \in {"trips", "number", "insert"} => "create" \in Duties[s]
    /\ req[s].pc \in {"write", "announce"} => "update" \in Duties[s]
    /\ req[s].pc = "delete" => "remove" \in Duties[s]
    /\ req[s].pc \in {"write", "announce", "delete"} => req[s].id \in InvoiceIds
    /\ req[s].pc = "write" => LET was == req[s].seen.status IN
          was \in Statuses /\ req[s].want \in {None, was} \cup Transitions[was]

\* Between its statements a creation keeps a safe view: no invoice in force
\* got hold of a trip it did not know as invoiced, or of one it is to bill.
CreatorView == \A s \in Slots :
    /\ req[s].pc = "trips" => Invoiced \subseteq req[s].invoiced
    /\ req[s].pc \in {"number", "insert"} =>
          DOMAIN req[s].rows # {} /\ DOMAIN req[s].rows \cap Invoiced = {}

\* The status a lone update read is still the row's when it writes, unless
\* the row is deleted.
UpdaterView == \A s \in Slots : req[s].pc = "write" =>
    inv[req[s].id].status \in {req[s].seen.status, "deleted"}

\* With deletions in the same queue the view is exact: what is written was
\* legal, what is announced is paid and unannounced, what is deleted a draft.
ClerkView == \A s \in Slots : LET row == inv[req[s].id] IN
    /\ req[s].pc = "write" => row.status = req[s].seen.status
    /\ req[s].pc = "announce" => row.status = "paid" /\ announced[req[s].id] = 0
    /\ req[s].pc = "delete" => row.status = "draft"

\* The total of a row, and of the row an update holds, is that of its lines.
FrozenTotals ==
    /\ \A i \in InvoiceIds : Exists(i) => inv[i].total = Total(inv[i].lines)
    /\ \A s \in Slots : req[s].pc = "write" =>
          \/ inv[req[s].id].status = "deleted"
          \/ Exists(req[s].id) /\ req[s].seen.total = Total(inv[req[s].id].lines)

\* Invoices are a period book: each step of each request is an atomic Issue,
\* Move or Discard, or changes nothing a reader of the book can see.
Book == INSTANCE PeriodBook WITH
    Docs <- InvoiceIds, Items <- Trips, Moves <- Transitions,
    book <- [i \in InvoiceIds |-> [status |-> inv[i].status,
                                   items |-> DOMAIN inv[i].lines]]

ImplementsBook == Book!Spec

\* "paid/void are terminal": such an invoice keeps its status for ever.
TerminalStays == [][\A i \in InvoiceIds : inv[i].status \in {"paid", "void"}
                        => inv'[i].status = inv[i].status]_inv

\* "Only drafts may be deleted": what is deleted was a draft until then.
OnlyDraftsDeleted == [][\A i \in InvoiceIds : inv'[i].status = "deleted"
                        => inv[i].status \in {"draft", "deleted"}]_inv
=============================================================================
