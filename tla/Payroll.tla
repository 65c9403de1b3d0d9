------------------------------ MODULE Payroll ------------------------------
(***************************************************************************)
(* The payroll module (payroll.service.ts), statement by statement as in   *)
(* Billing: a slot is one HTTP request in flight, Duties[s] the kinds it   *)
(* serves, and every action is one statement at READ COMMITTED.  A run     *)
(* freezes one pay line per trip and role; whether a trip is covered is    *)
(* asked of the trip, not of its roles.                                    *)
(***************************************************************************)
EXTENDS Integers, FiniteSets, FiniteSetsExt

CONSTANTS Slots, Duties, RunIds, Trips, Workers, Amounts,
          Days, DayOf,       \* calendar days; the date of a trip's daily log
          Radix, SeqLimit,   \* how run numbers are written (see Billing)
          None               \* not a value of any other set

ASSUME DutiesAssumption == Duties \in [Slots -> SUBSET {"create", "update", "remove"}]
ASSUME DaysAssumption == Days \subseteq Int /\ DayOf \in [Trips -> Days]
ASSUME AmountsAssumption == Amounts \subseteq Nat
ASSUME NoneAssumption ==
    None \notin {"draft", "approved", "paid", "void"} \cup RunIds \cup Workers
ASSUME NumberingAssumption == Radix \in Nat \ {0} /\ SeqLimit \in Nat

VARIABLES run,        \* table PayrollRun with its PayrollLine rows
          trip,       \* table Trip (owned by the operations module)
          req,        \* the request each slot serves
          announced   \* PAYROLL_PAID events emitted so far, per run

vars == <<run, trip, req, announced>>

-----------------------------------------------------------------------------
Transitions == [draft    |-> {"approved", "paid", "void"},
                approved |-> {"paid", "void"},
                paid     |-> {},
                void     |-> {}]

Statuses == DOMAIN Transitions
Roles    == {"driver", "helper"}

Line == [trip : Trips, role : Roles, worker : Workers, amount : Amounts]

TripsOf(lines)   == {l.trip : l \in lines}
WorkersOf(lines) == {l.worker : l \in lines}
Total(lines)     == SumFunction([l \in lines |-> l.amount])

Totals == {0} \cup {Total(lines) : lines \in SUBSET Line}
Counts == {0} \cup {Cardinality(W) : W \in SUBSET Workers}

\* Rows: "absent" before the insert, "deleted" after the delete.
Run == [status : Statuses \cup {"absent", "deleted"}, number : Nat,
        lines : SUBSET Line, total : Totals, workerCount : Counts]

NoRow(status) == [status |-> status, number |-> 0, lines |-> {}, total |-> 0,
                  workerCount |-> 0]

Exists(i)  == run[i].status \in Statuses
InForce(i) == Exists(i) /\ run[i].status # "void"

\* Mutant of Covered: drafts cover nothing yet.
ApprovedOnly == UNION {TripsOf(run[i].lines) :
                          i \in {j \in RunIds : run[j].status \in {"approved", "paid"}}}

\* Trips with a line on a run that is not void.
Covered == UNION {TripsOf(run[i].lines) : i \in {j \in RunIds : InForce(j)}}

\* Run numbers sort as text, as invoice numbers do.
Numbers == {run[i].number : i \in {j \in RunIds : Exists(j)}}
LexRank(n) == IF n <= SeqLimit THEN 2 * Radix * n - 1 ELSE 2 * n
LastNumbers == {n \in Numbers : \A m \in Numbers : LexRank(m) <= LexRank(n)}
NextNumbers == IF Numbers = {} THEN {1} ELSE {n + 1 : n \in LastNumbers}

NoTrip(state) == [state |-> state, driver |-> None, helper |-> None,
                  driverPay |-> 0, helperPay |-> 0]

LiveTrip == [state : {"live"}, driver : Workers, helper : Workers \cup {None},
             driverPay : Amounts, helperPay : Amounts]

\* What a request holds between two statements.
Request == [pc : {"idle", "trips", "number", "insert", "write", "announce", "delete"},
            from : Days \cup {0}, to : Days \cup {0}, covered : SUBSET Trips,
            lines : SUBSET Line, number : Nat, id : RunIds \cup {None},
            was : Statuses \cup {None}, want : Statuses \cup {None}]

Idle == [pc |-> "idle", from |-> 0, to |-> 0, covered |-> {}, lines |-> {},
         number |-> 0, id |-> None, was |-> None, want |-> None]

Serves(s, duty) == duty \in Duties[s] /\ req[s].pc = "idle"
Return(s) == req' = [req EXCEPT ![s] = Idle]

Init ==
    /\ run = [i \in RunIds |-> NoRow("absent")]
    /\ trip = [t \in Trips |-> NoTrip("unborn")]
    /\ req = [s \in Slots |-> Idle]
    /\ announced = [i \in RunIds |-> 0]

-----------------------------------------------------------------------------
\* The operations module enters, edits and hard-deletes trips meanwhile.

EnterTrip(t, row) ==
    /\ trip[t].state = "unborn"
    /\ trip' = [trip EXCEPT ![t] = row]
    /\ UNCHANGED <<run, req, announced>>

\* A patch cannot take a helper off a trip, only name another one.
EditTrip(t, row) ==
    /\ trip[t].state = "live"
    /\ trip[t].helper # None => row.helper # None
    /\ trip' = [trip EXCEPT ![t] = row]
    /\ UNCHANGED <<run, req, announced>>

DeleteTrip(t) ==
    /\ trip[t].state = "live"
    /\ trip' = [trip EXCEPT ![t] = NoTrip("deleted")]
    /\ UNCHANGED <<run, req, announced>>

-----------------------------------------------------------------------------
\* POST /payroll: the covered trips, the trips of the period that are
\* not among them, the last number, the insert of the run with its lines.

StartCreate(s, from, to) ==
    /\ Serves(s, "create")
    /\ from <= to
    /\ req' = [req EXCEPT ![s] = [Idle EXCEPT !.pc = "trips",
                  !.from = from, !.to = to, !.covered = Covered]]
    /\ UNCHANGED <<run, trip, announced>>

\* A line for the driver and, when there is one, a line for the helper.
LinesFor(t) ==
    {[trip |-> t, role |-> "driver", worker |-> trip[t].driver,
      amount |-> trip[t].driverPay]} \cup
    (IF trip[t].helper = None THEN {}
     ELSE {[trip |-> t, role |-> "helper", worker |-> trip[t].helper,
            amount |-> trip[t].helperPay]})

Payable(r) == {t \in Trips \ r.covered :
                  trip[t].state = "live" /\ DayOf[t] \in r.from..r.to}

Lines(r) == UNION {LinesFor(t) : t \in Payable(r)}

FetchTrips(s) == LET lines == Lines(req[s]) IN
    /\ req[s].pc = "trips"
    /\ IF lines = {}
       THEN Return(s)                              \* 400
       ELSE req' = [req EXCEPT ![s] = [Idle EXCEPT !.pc = "number", !.lines = lines]]
    /\ UNCHANGED <<run, trip, announced>>

NumberRun(s) ==
    /\ req[s].pc = "number"
    /\ \E n \in NextNumbers :
          req' = [req EXCEPT ![s].pc = "insert", ![s].number = n]
    /\ UNCHANGED <<run, trip, announced>>

InsertRun(s, i) ==
    /\ req[s].pc = "insert"
    /\ run[i].status = "absent"
    /\ req[s].number \notin Numbers
    /\ run' = [run EXCEPT ![i] =
          [status |-> "draft", number |-> req[s].number, lines |-> req[s].lines,
           total |-> Total(req[s].lines),
           workerCount |-> Cardinality(WorkersOf(req[s].lines))]]
    /\ Return(s)
    /\ UNCHANGED <<trip, announced>>

\* The unique index on the number refuses the row; the transaction aborts.
NumberTaken(s) ==
    /\ req[s].pc = "insert"
    /\ req[s].number \in Numbers
    /\ Return(s)
    /\ UNCHANGED <<run, trip, announced>>

-----------------------------------------------------------------------------
\* Mutant of StartUpdate: any status is accepted.
StartAnyUpdate(s, i, w) ==
    /\ Serves(s, "update")
    /\ Exists(i)
    /\ req' = [req EXCEPT ![s] = [Idle EXCEPT !.pc = "write", !.id = i,
                  !.was = run[i].status, !.want = w]]
    /\ UNCHANGED <<run, trip, announced>>

\* PATCH /payroll/:id with status w (None: only the notes change).

StartUpdate(s, i, w) ==
    /\ Serves(s, "update")
    /\ Exists(i)
    /\ w \in {None, run[i].status} \cup Transitions[run[i].status]
    /\ req' = [req EXCEPT ![s] = [Idle EXCEPT !.pc = "write", !.id = i,
                  !.was = run[i].status, !.want = w]]
    /\ UNCHANGED <<run, trip, announced>>

\* Mutant of Changes: an absent status is written too.
ChangesAlways(r) == r.want # r.was

\* Mutant of PaysNow: a payment is announced whenever paid is asked for.
PaysAgain(r) == r.want = "paid"

\* Nothing but the status (and paidAt) is ever written, and only when it
\* differs from the status that was read.
Changes(r) == r.want \notin {None, r.was}
PaysNow(r) == r.want = "paid" /\ r.was # "paid"

WriteUpdate(s) == LET i == req[s].id IN
    /\ req[s].pc = "write"
    /\ run' = IF Exists(i) /\ Changes(req[s])
              THEN [run EXCEPT ![i].status = req[s].want] ELSE run
    /\ IF Exists(i) /\ PaysNow(req[s])
       THEN req' = [req EXCEPT ![s] = [Idle EXCEPT !.pc = "announce", !.id = i]]
       ELSE Return(s)                              \* done, or P2025
    /\ UNCHANGED <<trip, announced>>

\* getDetail, and the event once it has answered.
Announce(s) == LET i == req[s].id IN
    /\ req[s].pc = "announce"
    /\ announced' = IF Exists(i) THEN [announced EXCEPT ![i] = @ + 1]
                                 ELSE announced    \* 404
    /\ Return(s)
    /\ UNCHANGED <<run, trip>>

-----------------------------------------------------------------------------
\* DELETE /payroll/:id, drafts only; the lines go with the row.

StartRemove(s, i) ==
    /\ Serves(s, "remove")
    /\ run[i].status = "draft"
    /\ req' = [req EXCEPT ![s] = [Idle EXCEPT !.pc = "delete", !.id = i]]
    /\ UNCHANGED <<run, trip, announced>>

DeleteRun(s) == LET i == req[s].id IN
    /\ req[s].pc = "delete"
    /\ run' = IF Exists(i) THEN [run EXCEPT ![i] = NoRow("deleted")]
                           ELSE run                \* P2025
    /\ Return(s)
    /\ UNCHANGED <<trip, announced>>

\* A statement throws, a transaction times out or the process dies.
Fail(s) ==
    /\ req[s].pc # "idle"
    /\ Return(s)
    /\ UNCHANGED <<run, trip, announced>>

-----------------------------------------------------------------------------
TripStep == \E t \in Trips :
    \/ \E row \in LiveTrip : EnterTrip(t, row) \/ EditTrip(t, row)
    \/ DeleteTrip(t)

CreateStep(s) ==
    \/ \E from, to \in Days : StartCreate(s, from, to)
    \/ FetchTrips(s)
    \/ NumberRun(s)
    \/ \E i \in RunIds : InsertRun(s, i)
    \/ NumberTaken(s)

UpdateStep(s) ==
    \/ \E i \in RunIds, w \in Statuses \cup {None} : StartUpdate(s, i, w)
    \/ WriteUpdate(s)
    \/ Announce(s)

RemoveStep(s) ==
    \/ \E i \in RunIds : StartRemove(s, i)
    \/ DeleteRun(s)

Next ==
    \/ TripStep
    \/ \E s \in Slots : CreateStep(s) \/ UpdateStep(s) \/ RemoveStep(s) \/ Fail(s)

Spec == Init /\ [][Next]_vars

-----------------------------------------------------------------------------
\* Which requests may be concurrent: the conditions the results below need.

AtMostOne(duties) == \A s, t \in Slots :
    s # t => Duties[s] \cap duties = {} \/ Duties[t] \cap duties = {}

OneCreator == AtMostOne({"create"})
OneUpdater == AtMostOne({"update"})
OneClerk   == AtMostOne({"update", "remove"})

-----------------------------------------------------------------------------
\* Mutant of Statement: a worker's driver lines replace one another.
LastLine(lines, w) ==
    LET mine == {l \in lines : l.worker = w} IN
    [driverPay |-> Max({0} \cup {l.amount : l \in {m \in mine : m.role = "driver"}}),
     helperPay |-> Total({l \in mine : l.role = "helper"}),
     tripCount |-> Cardinality(TripsOf(mine))]

\* What a reader is shown of a run: aggregateByWorker, one row per worker.

Statement(lines, w) ==
    [driverPay |-> Total({l \in lines : l.worker = w /\ l.role = "driver"}),
     helperPay |-> Total({l \in lines : l.worker = w /\ l.role = "helper"}),
     tripCount |-> Cardinality(TripsOf({l \in lines : l.worker = w}))]

\* All the statements of a run, added up.
Stated(lines) == SumFunction([w \in WorkersOf(lines) |->
    Statement(lines, w).driverPay + Statement(lines, w).helperPay])

-----------------------------------------------------------------------------
\* Every variable holds a value of its type.
TypeOK ==
    /\ run \in [RunIds -> Run]
    /\ trip \in [Trips -> LiveTrip \cup {NoTrip("unborn"), NoTrip("deleted")}]
    /\ req \in [Slots -> Request]
    /\ announced \in [RunIds -> Nat]

\* "A trip is paid once": no trip has lines on two runs that are not void, and
\* within a run each role of it has one line, whatever edits of its workers,
\* voidings and deletions happen while a run is created.
PaidOnce == \A i, j \in RunIds : InForce(i) /\ InForce(j) =>
    \A l \in run[i].lines, m \in run[j].lines :
        l.trip = m.trip => i = j /\ (l.role = m.role => l = m)

\* The statements of a run, added up over its workers, are what the run
\* records: its total and the number of workers, however the trips and their
\* workers changed since.
StatementsAgree == \A i \in RunIds : Exists(i) =>
    /\ run[i].workerCount = Cardinality(WorkersOf(run[i].lines))
    /\ run[i].total = Stated(run[i].lines)

\* A payroll is announced at most once, and only if it is paid for good.
AnnouncedIsPaid == \A i \in RunIds :
    announced[i] > 0 => announced[i] = 1 /\ run[i].status = "paid"

\* One creation at a time is refused its number only if that is the first
\* number wider than the padding.
CollidesOnlyAtLimit == \A s \in Slots :
    req[s].pc = "insert" /\ req[s].number \in Numbers
        => req[s].number = SeqLimit + 1

\* Each kind of request runs in a slot that serves it, on a run if it is past
\* the reading of one; an update wants a change legal from what it read.
Dutiful == \A s \in Slots : LET r == req[s] IN
    /\ r.pc \in {"trips", "number", "insert"} => "create" \in Duties[s]
    /\ r.pc \in {"write", "announce"} => "update" \in Duties[s]
    /\ r.pc = "delete" => "remove" \in Duties[s]
    /\ r.pc \in {"write", "announce", "delete"} => r.id \in RunIds
    /\ r.pc = "write" => r.was \in Statuses /\ r.want \in {None, r.was} \cup Transitions[r.was]

\* One line for a role of a trip.
Single(lines) == \A l, m \in lines : l.trip = m.trip /\ l.role = m.role => l = m

\* Between its statements a creation knows of every trip covered since, and
\* holds lines of trips that are not covered still.
CreatorView == \A s \in Slots :
    /\ req[s].pc = "trips" => Covered \subseteq req[s].covered
    /\ req[s].pc \in {"number", "insert"} =>
          /\ req[s].lines # {} /\ Single(req[s].lines)
          /\ TripsOf(req[s].lines) \cap Covered = {}

\* The status a lone update read is still the row's when it writes, unless
\* the row is deleted.
UpdaterView == \A s \in Slots : req[s].pc = "write" =>
    run[req[s].id].status \in {req[s].was, "deleted"}

\* With deletions in the same queue the view is exact.
ClerkView == \A s \in Slots : LET row == run[req[s].id] IN
    /\ req[s].pc = "write" => row.status = req[s].was
    /\ req[s].pc = "announce" => row.status = "paid" /\ announced[req[s].id] = 0
    /\ req[s].pc = "delete" => row.status = "draft"

\* Runs are a period book over trips: each step of each request is an atomic
\* Issue, Move or Discard, or changes nothing a reader of the book can see.
Book == INSTANCE PeriodBook WITH
    Docs <- RunIds, Items <- Trips, Moves <- Transitions,
    book <- [i \in RunIds |-> [status |-> run[i].status,
                               items |-> TripsOf(run[i].lines)]]

ImplementsBook == Book!Spec
=============================================================================
