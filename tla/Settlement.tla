----------------------------- MODULE Settlement -----------------------------
(***************************************************************************)
(* The treasury in one process with the modules it subscribes to: Billing, *)
(* Payroll and Costs, joined by the event emitter.  The emission of        *)
(* INVOICE_PAID, PAYROLL_PAID or COST_CREATED starts the treasury's        *)
(* handler in the same step (EventEmitter2.emit calls its listeners        *)
(* synchronously, up to their first await), and from there the handler     *)
(* runs by itself.  A crash of the process loses every request and every   *)
(* handler under way; the database keeps what was committed.  The slots,   *)
(* the duties and `req` are the treasury's own: those of its desks.        *)
(***************************************************************************)
EXTENDS Treasury

CONSTANTS Trips, Clients, Workers, Days, DayOf, Radix, SeqLimit,
          Billers, BillDuties, InvoiceIds, Bills,   \* Billing
          Payers, PayDuties, RunIds, Pays,          \* Payroll
          Spenders, CostIds, Spends,                \* Costs
          MaxRequests,     \* bound on the requests under way
          Faults           \* of "fail" and "crash", those that may happen

ASSUME FaultsAssumption == Faults \subseteq {"fail", "crash"}
ASSUME SourcesAssumption ==
    /\ Sources = InvoiceIds \cup RunIds \cup CostIds
    /\ InvoiceIds \cap RunIds = {}
    /\ CostIds \cap (InvoiceIds \cup RunIds) = {}
ASSUME ClerksAssumption ==
    /\ BillDuties \in [Billers -> SUBSET {"create", "update", "remove"}]
    /\ PayDuties \in [Payers -> SUBSET {"create", "update", "remove"}]
ASSUME CalendarAssumption == Days \subseteq Int /\ DayOf \in [Trips -> Days]
ASSUME MoneyAssumption == Bills \cup Pays \cup Spends \subseteq Nat
ASSUME NobodyAssumption ==
    None \notin Workers \cup {"draft", "sent", "approved", "paid", "void"}
ASSUME NumberingAssumption == Radix \in Nat \ {0} /\ SeqLimit \in Nat

VARIABLES inv, trip, biller, announced,     \* Billing
          run, crew, payer, paidOut,        \* Payroll
          cost, spender,                    \* Costs
          lost      \* the payments whose event or handler a fault took (history)

B == INSTANCE Billing WITH Slots <- Billers, Duties <- BillDuties, Amounts <- Bills,
                           req <- biller

\* Billing and Payroll each see their columns of one table Trip.
P == INSTANCE Payroll WITH Slots <- Payers, Duties <- PayDuties, Amounts <- Pays,
                           trip <- crew, req <- payer, announced <- paidOut

C == INSTANCE Costs WITH Slots <- Spenders, Amounts <- Spends, req <- spender

billingVars  == <<inv, trip, biller, announced>>
payrollVars  == <<run, crew, payer, paidOut>>
costVars     == <<cost, spender>>
treasuryVars == <<account, entry, req, post>>
allVars == <<billingVars, payrollVars, costVars, treasuryVars, lost>>

SettlementInit == B!Init /\ P!Init /\ C!Init /\ Init /\ lost = {}

-----------------------------------------------------------------------------
\* Requests, but for their announcements.

BillingStep(s) ==
    /\ \/ B!CreateStep(s)
       \/ \E i \in InvoiceIds, w \in B!Statuses \cup {None} : B!StartUpdate(s, i, w)
       \/ B!WriteUpdate(s)
       \/ B!RemoveStep(s)
    /\ UNCHANGED <<payrollVars, costVars, treasuryVars, lost>>

PayrollStep(s) ==
    /\ \/ P!CreateStep(s)
       \/ \E i \in RunIds, w \in P!Statuses \cup {None} : P!StartUpdate(s, i, w)
       \/ P!WriteUpdate(s)
       \/ P!RemoveStep(s)
    /\ UNCHANGED <<billingVars, costVars, treasuryVars, lost>>

CostStep(s) == C!CostStep(s) /\ UNCHANGED <<billingVars, payrollVars, treasuryVars, lost>>

DeskStep(d) ==
    /\ ManagerStep(d) \/ LedgerStep(d)
    /\ UNCHANGED <<billingVars, payrollVars, costVars, lost>>

TripStep ==
    /\ \E t \in Trips :
          \/ \E c \in Clients, n \in Bills, hands \in P!LiveTrip :
                \/ B!EnterTrip(t, c, n) /\ P!EnterTrip(t, hands)
                \/ B!EditTrip(t, c, n) /\ P!EditTrip(t, hands)
          \/ B!DeleteTrip(t) /\ P!DeleteTrip(t)
    /\ UNCHANGED <<costVars, treasuryVars, lost>>

-----------------------------------------------------------------------------
\* Events.  (The handlers at a time are as many as there are posters.)

Emit(src, n) == \E p \in Posters : Receive(p, src, n)

\* The total of the event is that of the row getDetail has read.
InvoicePaid(s) == LET i == biller[s].id IN
    /\ B!Announce(s)
    /\ IF announced' # announced THEN Emit(i, inv[i].total) ELSE UNCHANGED treasuryVars
    /\ UNCHANGED <<payrollVars, costVars, lost>>

\* Mutant of PayrollPaid: a payroll comes in.
PayrollPaidIn(s) == LET i == payer[s].id IN
    /\ P!Announce(s)
    /\ IF paidOut' # paidOut THEN Emit(i, run[i].total) ELSE UNCHANGED treasuryVars
    /\ UNCHANGED <<billingVars, costVars, lost>>

PayrollPaid(s) == LET i == payer[s].id IN
    /\ P!Announce(s)
    /\ IF paidOut' # paidOut THEN Emit(i, 0 - run[i].total) ELSE UNCHANGED treasuryVars
    /\ UNCHANGED <<billingVars, costVars, lost>>

CostCreated(s) ==
    /\ C!Announce(s)
    /\ Emit(spender[s].id, 0 - spender[s].amount)
    /\ UNCHANGED <<billingVars, payrollVars, lost>>

HandlerStep(p) == PostStep(p) /\ UNCHANGED <<billingVars, payrollVars, costVars, lost>>

-----------------------------------------------------------------------------
\* One request or handler fails ...
Awaited(slots, r) == {r[s].id : s \in {x \in slots : r[x].pc = "announce"}}
Handled(posters)  == {post[p].source : p \in {q \in posters : post[q].pc # "idle"}}

Failure ==
    /\ "fail" \in Faults
    /\ \/ \E s \in Billers :
             /\ B!Fail(s)
             /\ lost' = lost \cup Awaited({s}, biller)
             /\ UNCHANGED <<payrollVars, costVars, treasuryVars>>
       \/ \E s \in Payers :
             /\ P!Fail(s)
             /\ lost' = lost \cup Awaited({s}, payer)
             /\ UNCHANGED <<billingVars, costVars, treasuryVars>>
       \/ \E s \in Spenders :
             /\ C!Fail(s)
             /\ lost' = lost \cup Awaited({s}, spender)
             /\ UNCHANGED <<billingVars, payrollVars, treasuryVars>>
       \/ \E d \in Slots :
             /\ Fail(d)
             /\ UNCHANGED <<billingVars, payrollVars, costVars, lost>>
       \/ \E p \in Posters :
             /\ FailPost(p)
             /\ lost' = lost \cup Handled({p})
             /\ UNCHANGED <<billingVars, payrollVars, costVars>>

\* ... or the process dies and restarts.
Crash ==
    /\ "crash" \in Faults
    /\ biller' = [s \in Billers |-> B!Idle]
    /\ payer' = [s \in Payers |-> P!Idle]
    /\ spender' = [s \in Spenders |-> C!Idle]
    /\ req' = [d \in Slots |-> Idle]
    /\ post' = [p \in Posters |-> Resting]
    /\ lost' = UNION {lost, Awaited(Billers, biller), Awaited(Payers, payer),
                      Awaited(Spenders, spender), Handled(Posters)}
    /\ UNCHANGED <<inv, trip, announced, run, crew, paidOut, cost, account, entry>>

UnderWay == Cardinality({s \in Billers : biller[s].pc # "idle"})
          + Cardinality({s \in Payers : payer[s].pc # "idle"})
          + Cardinality({s \in Spenders : spender[s].pc # "idle"})
          + Cardinality({d \in Slots : req[d].pc # "idle"})

RequestStep ==
    \/ \E s \in Billers : BillingStep(s) \/ InvoicePaid(s)
    \/ \E s \in Payers : PayrollStep(s) \/ PayrollPaid(s)
    \/ \E s \in Spenders : CostStep(s) \/ CostCreated(s)
    \/ \E d \in Slots : DeskStep(d)

SettlementNext ==
    \/ RequestStep /\ UnderWay' <= MaxRequests
    \/ TripStep
    \/ \E p \in Posters : HandlerStep(p)
    \/ Failure
    \/ Crash

SettlementSpec == SettlementInit /\ [][SettlementNext]_allVars

\* A statement sent to the database is answered and the event loop resumes
\* the function that awaits it: what a request or a handler has begun goes on.
Fairness ==
    /\ \A s \in Billers :
          WF_allVars(B!WriteUpdate(s) /\ BillingStep(s)) /\ WF_allVars(InvoicePaid(s))
    /\ \A s \in Payers :
          WF_allVars(P!WriteUpdate(s) /\ PayrollStep(s)) /\ WF_allVars(PayrollPaid(s))
    /\ \A s \in Spenders : WF_allVars(CostCreated(s))
    /\ \A p \in Posters : WF_allVars(HandlerStep(p))

FairSpec == SettlementSpec /\ Fairness

-----------------------------------------------------------------------------
\* The money a source has moved: an invoice that is paid, a payroll that is
\* paid, a cost once it is entered, whether removed since or not.
Settled(src) ==
    CASE src \in InvoiceIds -> inv[src].status = "paid"
      [] src \in RunIds     -> run[src].status = "paid"
      [] src \in CostIds    -> cost[src].state # "absent"

Worth(src) ==
    CASE src \in InvoiceIds -> inv[src].amountPaid
      [] src \in RunIds     -> 0 - P!Total(run[src].lines)
      [] src \in CostIds    -> 0 - cost[src].amount

Booked == {src \in Sources : EntriesFor(src) # {}}

\* The cash ledger tells what happened: an entry stands for an invoice or a
\* payroll that is paid or a cost that was entered, one at most for each,
\* whatever fails in between; and the cash position, with what disabled accounts
\* have moved, is what those documents say now, invoices in, payrolls and costs out.
\* Needs one clerk in Billing and in Payroll and desks that neither record nor
\* remove entries; handlers may overlap (update, create, autoPost, cashPosition).
BooksAgree ==
    /\ \A src \in Booked : Settled(src)
    /\ PostedOnce
    /\ cashPosition + SumFunction([a \in Accounts \ Active |-> netByAccount(a)])
          = SumFunction([src \in Booked |-> Worth(src)])

\* Each payment ends up in the ledger: what is settled, and never so while no
\* account is active, has its entry some time after, unless a fault took its
\* event or its handler.
PaidIsPosted == \A src \in Sources :
    [](Settled(src) => Active # {})
        => [](Settled(src) => <>(src \in Booked \cup lost))
=============================================================================
