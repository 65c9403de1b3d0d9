---------------------------- MODULE MCReporting ----------------------------
(***************************************************************************)
(* Small instances of Reporting, and of Operations within it, for TLC.     *)
(***************************************************************************)
EXTENDS Reporting, TLC

CONSTANTS s1, s2, a, b, f1, f2, c1, c2, w1, w2

\* Two people open logs.  One also records and edits trips and amends logs, the
\* other deletes trips and confirms logs.
RecorderAndManager ==
    (s1 :> {"open", "amend", "record", "edit"}) @@ (s2 :> {"open", "drop", "confirm"})

\* A log of truck a on the first day, one of truck b on the second.
TwoDays == {<<a, 1>>, <<b, 2>>}

\* Both trucks on one day.
SameDay == {<<a, 1>>, <<b, 1>>}

\* A trip with a helper, and one that pays a helper it does not name.
TripFigures ==
    (f1 :> [client |-> c1, driver |-> w1, helper |-> w2,
            bill |-> 9, driverPay |-> 3, helperPay |-> 2]) @@
    (f2 :> [client |-> c2, driver |-> w1, helper |-> None,
            bill |-> 4, driverPay |-> 1, helperPay |-> 1])

LogFigures ==
    (f1 :> [fuel |-> 2, oper |-> "operating"]) @@ (f2 :> [fuel |-> None, oper |-> None])

\* Two people on rows that are alike; or one person at a time on rows that
\* differ, two trips at most; and then, nobody in between, a cost or an inactive
\* truck.
Resting == \A s \in Slots : req[s].pc = "idle"
Bare == (\A c \in Costs : ~Entered(c)) /\ (\A k \in Trucks : truck[k] = "active")
Plain ==
    /\ \A l \in Logs : log[l].figure # f2
    /\ \A t \in Trips : trip[t].figure # f2
    /\ \A s \in Slots : req[s].figure # f2
Calm ==
    /\ Cardinality(Ever) <= 2
    /\ Cardinality({s \in Slots : req[s].pc # "idle"}) <= 1
    /\ \A l \in Logs : log[l].status # "confirmed"
Scope == (Bare /\ Plain) \/ (Calm /\ (Bare \/ Resting))

\* The steps that stay within Scope.  (As a constraint it would let TLC draw
\* all reports of every state just outside.)
ScopedNext ==
    \/ \E s \in Slots : RecordStep(s) /\ Scope'
    \/ \E c \in Costs, k \in Trucks, d \in Dates, x \in Amounts : CreateCost(c, k, d, x) /\ Scope'
    \/ \E c \in Costs : RemoveCost(c) /\ Scope'
    \/ \E k \in Trucks, status \in {"active", "inactive"} : SetTruck(k, status) /\ Scope'

ScopedSpec == ReportingInit /\ [][ScopedNext]_reportingVars

Symmetry == Permutations(Logs) \cup Permutations(Trips)
=============================================================================
