----------------------------- MODULE Reporting -----------------------------
(***************************************************************************)
(* The reports (reporting.service.ts, reporting.aggregate.ts) over the     *)
(* tables of Operations, with two tables only reports read together: the   *)
(* costs of trucks and the status of trucks.  A report is a set of rows,   *)
(* each with the day, truck, worker or client it is about.                 *)
(* Amounts are Decimals, summed exactly: integers.  Ratios are left as     *)
(* their two terms; names, orders and formats are left out.                *)
(***************************************************************************)
EXTENDS Operations

CONSTANTS Trucks, Dates,
          MaxRangeDays,  \* the widest window a report is made for
          Costs, Amounts,
          TripOf,        \* the columns of a trip a figure stands for
          LogOf          \* the columns of a log a figure stands for

OperStatus == {"operating", "no_clients", "broken"}

ASSUME DatesAssumption == Dates \subseteq Int /\ TruckDays \subseteq Trucks \X Dates
ASSUME AmountsAssumption == Amounts \subseteq Nat /\ MaxRangeDays \in Nat
ASSUME TripOfAssumption == \A f \in Figures :
    /\ \A column \in {"bill", "driverPay", "helperPay"} : TripOf[f][column] \in Nat
    /\ TripOf[f].driver # None
ASSUME LogOfAssumption == \A f \in Figures :
    LogOf[f].fuel \in Nat \cup {None} /\ LogOf[f].oper \in OperStatus \cup {None}

VARIABLES cost,    \* table TruckCost
          truck    \* Truck.status

reportingVars == <<vars, cost, truck>>

NoCost == [truck |-> None, date |-> 0, amount |-> 0]
Entered(c) == cost[c] # NoCost

ReportingInit ==
    /\ Init
    /\ cost = [c \in Costs |-> NoCost]
    /\ truck = [k \in Trucks |-> "active"]

-----------------------------------------------------------------------------
\* POST /costs and DELETE /costs/:id; PATCH /trucks/:id and its deactivation.

CreateCost(c, k, d, a) ==
    /\ ~Entered(c)
    /\ cost' = [cost EXCEPT ![c] = [truck |-> k, date |-> d, amount |-> a]]
    /\ UNCHANGED <<vars, truck>>

RemoveCost(c) ==
    /\ Entered(c)
    /\ cost' = [cost EXCEPT ![c] = NoCost]
    /\ UNCHANGED <<vars, truck>>

SetTruck(k, status) ==
    /\ truck' = [truck EXCEPT ![k] = status]
    /\ UNCHANGED <<vars, cost>>

\* A patch without a helper leaves the helper of a trip alone.
KeepsHelper == \A t \in Trips :
    Live(t) /\ TripOf[trip[t].figure].helper # None => TripOf[trip'[t].figure].helper # None

RecordStep(s) ==
    /\ LogStep(s) \/ TripStep(s) \/ Fail(s)
    /\ KeepsHelper
    /\ UNCHANGED <<cost, truck>>

ReportingNext ==
    \/ \E s \in Slots : RecordStep(s)
    \/ \E c \in Costs, k \in Trucks, d \in Dates, a \in Amounts : CreateCost(c, k, d, a)
    \/ \E c \in Costs : RemoveCost(c)
    \/ \E k \in Trucks, status \in {"active", "inactive"} : SetTruck(k, status)

ReportingSpec == ReportingInit /\ [][ReportingNext]_reportingVars

-----------------------------------------------------------------------------
\* What a report reads: the rows of a window of dates, both ends included.

\* The windows resolveRange lets through.
Windows == {w \in Dates \X Dates : w[1] <= w[2] /\ w[2] - w[1] + 1 <= MaxRangeDays}

\* Mutant of enumerateDays: the last day is left out.
DaysBefore(w) == w[1] .. w[2] - 1

enumerateDays(w) == w[1] .. w[2]

Columns(t) == TripOf[trip[t].figure]
TruckOf(t) == log[trip[t].log].key[1]
DateOf(t)  == log[trip[t].log].key[2]
Within(date, w) == w[1] <= date /\ date <= w[2]

\* Mutant of fetchTripRows: the window ends before its last day.
RowsBefore(w) == {t \in Trips : Live(t) /\ w[1] <= DateOf(t) /\ DateOf(t) < w[2]}

fetchTripRows(w) == {t \in Trips : Live(t) /\ Within(DateOf(t), w)}

fetchOperationalRows(w) == {l \in Logs :
    Opened(l) /\ Within(log[l].key[2], w) /\ LogOf[log[l].figure].oper # None}

fetchFuelRows(w) == {l \in Logs :
    Opened(l) /\ Within(log[l].key[2], w) /\ LogOf[log[l].figure].fuel # None}

fetchCostRows(w) == {c \in Costs : Entered(c) /\ Within(cost[c].date, w)}

fuelCost(l) == LogOf[log[l].figure].fuel
amountOf(c) == cost[c].amount

-----------------------------------------------------------------------------
\* What it makes of them: a row per day, truck, worker or client.

\* A column of some trips added up; the fuel of some logs; some costs.
Billed(rows, column) == SumFunction([t \in rows |-> Columns(t)[column]])
Fuelled(logs)        == SumFunction([l \in logs |-> fuelCost(l)])
Spent(costs)         == SumFunction([c \in costs |-> amountOf(c)])

aggregateTrips(rows) ==
    [perDay   |-> {[date |-> d, tripCount |-> Cardinality({t \in rows : DateOf(t) = d})] :
                      d \in {DateOf(t) : t \in rows}},
     perTruck |-> {[truckId |-> k, tripCount |-> Cardinality({t \in rows : TruckOf(t) = k})] :
                      k \in {TruckOf(t) : t \in rows}}]

aggregateUtilization(rows, days) ==
    {[date |-> d, activeTrucks |-> Cardinality({k \in Trucks : truck[k] = "active"}),
      trucksWithTrips |-> Cardinality({TruckOf(t) : t \in {r \in rows : DateOf(r) = d}})] :
        d \in days}

\* Mutant of aggregateWorkerPay: who only helped is left out.
DriversPay(rows) ==
    {[workerId  |-> w,
      driverPay |-> Billed({t \in rows : Columns(t).driver = w}, "driverPay"),
      helperPay |-> Billed({t \in rows : Columns(t).helper = w}, "helperPay")] :
        w \in {Columns(t).driver : t \in rows}}

aggregateWorkerPay(rows) ==
    {[workerId  |-> w,
      driverPay |-> Billed({t \in rows : Columns(t).driver = w}, "driverPay"),
      helperPay |-> Billed({t \in rows : Columns(t).helper = w}, "helperPay")] :
        w \in ({Columns(t).driver : t \in rows} \cup {Columns(t).helper : t \in rows}) \ {None}}

aggregateClientBillables(rows) ==
    {LET own == {t \in rows : Columns(t).client = c}
     IN  [clientId |-> c, tripCount |-> Cardinality(own), billAmount |-> Billed(own, "bill")] :
        c \in {Columns(t).client : t \in rows}}

\* The statuses of some logs, counted; recorded is their sum.
Bucket(logs) == [status \in OperStatus |->
    Cardinality({l \in logs : LogOf[log[l].figure].oper = status})]

aggregateOperational(rows, days) ==
    [totals |-> Bucket(rows),
     perDay |-> {[date |-> d, bucket |-> Bucket({l \in rows : log[l].key[2] = d})] : d \in days}]

\* Profit and loss per truck with trips, fuel or costs.
TruckPnl(rows, fuels, costs, k) ==
    LET own     == {t \in rows : TruckOf(t) = k}
        revenue == Billed(own, "bill")
        driver  == Billed(own, "driverPay")
        helper  == Billed(own, "helperPay")
        fuel    == Fuelled({l \in fuels : log[l].key[1] = k})
        others  == Spent({c \in costs : cost[c].truck = k})
    IN  [truckId |-> k, revenue |-> revenue, fuel |-> fuel, driverPay |-> driver,
         helperPay |-> helper, costs |-> others,
         profit |-> revenue - fuel - driver - helper - others]

aggregateTruckPnl(rows, fuels, costs) ==
    {TruckPnl(rows, fuels, costs, k) :
        k \in {TruckOf(t) : t \in rows} \cup {log[l].key[1] : l \in fuels}
                 \cup {cost[c].truck : c \in costs}}

-----------------------------------------------------------------------------
\* GET /reports/...

trips(w) == LET rows == fetchTripRows(w) IN
    [totalTrips |-> Cardinality(rows), perDay |-> aggregateTrips(rows).perDay,
     perTruck |-> aggregateTrips(rows).perTruck]
utilization(w) == aggregateUtilization(fetchTripRows(w), enumerateDays(w))
workerPay(w) == aggregateWorkerPay(fetchTripRows(w))
clientBillables(w) == aggregateClientBillables(fetchTripRows(w))
operational(w) == aggregateOperational(fetchOperationalRows(w), enumerateDays(w))
truckPnl(w) == aggregateTruckPnl(fetchTripRows(w), fetchFuelRows(w), fetchCostRows(w))

-----------------------------------------------------------------------------
\* A field of the rows of a report added up, and of those about k alone.
Total(rows, field) == SumFunction([r \in rows |-> r[field]])
About(rows, id, k, field) == Total({r \in rows : r[id] = k}, field)

\* The reports on one window tell one story: they count the same trips, bill
\* and pay the same money, and profit is what is earned less what is spent.
\* They part in one place: the helper pay of a trip that names no helper is
\* an expense of its truck and nobody's pay.
ReportsAgree == \A w \in Windows :
    LET rows   == fetchTripRows(w)
        counts == trips(w)
        bills  == clientBillables(w)
        pay    == workerPay(w)
        pnl    == truckPnl(w)
    IN  /\ Total(counts.perDay, "tripCount") = counts.totalTrips
        /\ Total(counts.perTruck, "tripCount") = counts.totalTrips
        /\ Total(bills, "tripCount") = counts.totalTrips
        /\ Total(bills, "billAmount") = Total(pnl, "revenue")
        /\ Total(pay, "driverPay") = Total(pnl, "driverPay")
        /\ Total(pay, "helperPay") = Total(pnl, "helperPay")
              - Billed({t \in rows : Columns(t).helper = None}, "helperPay")
        /\ Total(pnl, "profit") =
              Billed(rows, "bill") - Billed(rows, "driverPay") - Billed(rows, "helperPay")
                 - Fuelled(fetchFuelRows(w)) - Spent(fetchCostRows(w))

\* What a report says about any k is what those on two windows say together.
Adds(whole, start, rest, id, field) ==
    \A k \in {r[id] : r \in whole \cup start \cup rest} :
        About(whole, id, k, field) = About(start, id, k, field) + About(rest, id, k, field)

\* Windows that meet add up, worker by worker and truck by truck: no day is
\* lost or counted twice where one ends and the next begins.
MeetingWindowsAdd == \A w \in Windows : \A d \in w[1] .. w[2] - 1 :
    LET start == <<w[1], d>>
        rest  == <<d + 1, w[2]>>
    IN  /\ Adds(truckPnl(w), truckPnl(start), truckPnl(rest), "truckId", "profit")
        /\ \A field \in {"driverPay", "helperPay"} :
              Adds(workerPay(w), workerPay(start), workerPay(rest), "workerId", field)

\* The days of a report are those of the reports on each day alone, and its
\* totals are their sums: a quiet day is there with nothing.
DaysAdd == \A w \in Windows :
    LET whole == operational(w)
    IN  /\ \A status \in OperStatus :
              SumFunction([r \in whole.perDay |-> r.bucket[status]]) = whole.totals[status]
        /\ \A r \in whole.perDay : r.bucket = operational(<<r.date, r.date>>).totals
        /\ \A r \in utilization(w) :
              r.trucksWithTrips = Cardinality(trips(<<r.date, r.date>>).perTruck)

\* However a window is cut, its reports are the sums of those on its parts
\* (the date filters of the queries, resolveRange, enumerateDays).
WindowsAdd == MeetingWindowsAdd /\ DaysAdd

\* "A 0..1 ratio": trips of a truck that is inactive by now count, it does not.
UtilizationIsRatio == \A w \in Windows : \A r \in utilization(w) :
    r.activeTrucks > 0 => r.trucksWithTrips <= r.activeTrucks
=============================================================================
