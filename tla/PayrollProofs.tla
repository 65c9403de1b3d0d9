--------------------------- MODULE PayrollProofs ---------------------------
(***************************************************************************)
(* Theorems about Payroll, for any slots, duties, runs, trips, workers,    *)
(* days and amounts.  They rest on one lemma that says what a step of a    *)
(* request does to its slot and to the runs (StepEffect): the invariants   *)
(* are then argued over those effects, and not over the actions.           *)
(***************************************************************************)
EXTENDS Payroll, Sums

-----------------------------------------------------------------------------
\* Values the steps build are in the type sets.

LEMMA NoRowTyped ==
    ASSUME NEW st \in {"absent", "deleted"}
    PROVE  NoRow(st) \in Run /\ NoRow(st).status = st /\ NoRow(st).lines = {}
BY DEF NoRow, Run, Totals, Counts

LEMMA IdleTyped == Idle \in Request /\ Idle.pc = "idle"
BY DEF Idle, Request

LEMMA LinesTyped ==
    ASSUME TypeOK, NEW r
    PROVE  Lines(r) \subseteq Line
<1>1. ASSUME NEW t \in Payable(r) PROVE LinesFor(t) \subseteq Line
  <2>1. t \in Trips /\ trip[t].state = "live"
    BY DEF Payable
  <2>2. trip[t] \in LiveTrip
    BY <2>1 DEF TypeOK, NoTrip
  <2>3. \A role \in Roles, w \in Workers, a \in Amounts :
            [trip |-> t, role |-> role, worker |-> w, amount |-> a] \in Line
    BY <2>1 DEF Line
  <2>4. /\ trip[t].driver \in Workers /\ trip[t].driverPay \in Amounts
        /\ trip[t].helper \in Workers \cup {None} /\ trip[t].helperPay \in Amounts
    BY <2>2 DEF LiveTrip
  <2>5. "driver" \in Roles /\ "helper" \in Roles
    BY DEF Roles
  <2> QED
    BY <2>3, <2>4, <2>5 DEF LinesFor
<1> QED
  BY <1>1 DEF Lines

LEMMA NextNumbersTyped ==
    ASSUME TypeOK
    PROVE  NextNumbers \subseteq Nat
<1>1. Numbers \subseteq Nat
  BY DEF TypeOK, Numbers, Run
<1> QED
  BY <1>1 DEF NextNumbers, LastNumbers

LEMMA InsertedTyped ==
    ASSUME NEW r \in Request
    PROVE  [status |-> "draft", number |-> r.number, lines |-> r.lines,
            total |-> Total(r.lines),
            workerCount |-> Cardinality(WorkersOf(r.lines))] \in Run
<1>1. r.lines \in SUBSET Line /\ r.number \in Nat
  BY DEF Request
<1>2. Total(r.lines) \in Totals
  BY <1>1 DEF Totals
<1>3. WorkersOf(r.lines) \in SUBSET Workers
  BY <1>1 DEF WorkersOf, Line
<1>4. Cardinality(WorkersOf(r.lines)) \in Counts
  BY <1>3 DEF Counts
<1> QED
  BY <1>1, <1>2, <1>4 DEF Run, Statuses, Transitions

-----------------------------------------------------------------------------
\* Every step keeps the types.
LEMMA TypeStep == TypeOK /\ [Next]_vars => TypeOK'
<1> SUFFICES ASSUME TypeOK, [Next]_vars PROVE TypeOK'
  OBVIOUS
<1> USE DEF TypeOK
<1>1. ASSUME NEW t \in Trips, NEW row \in LiveTrip, EnterTrip(t, row) \/ EditTrip(t, row)
      PROVE  TypeOK'
  BY <1>1 DEF EnterTrip, EditTrip
<1>2. ASSUME NEW t \in Trips, DeleteTrip(t) PROVE TypeOK'
  BY <1>2 DEF DeleteTrip
<1>3. ASSUME NEW s \in Slots, NEW from \in Days, NEW to \in Days,
             StartCreate(s, from, to)
      PROVE  TypeOK'
  <2>1. Covered \in SUBSET Trips
    BY DEF Covered, InForce, Run, TripsOf, Line, Exists, Statuses, Transitions
  <2>2. [Idle EXCEPT !.pc = "trips", !.from = from, !.to = to,
                     !.covered = Covered] \in Request
    BY <2>1, IdleTyped DEF Request
  <2> QED
    BY <1>3, <2>2 DEF StartCreate
<1>4. ASSUME NEW s \in Slots, FetchTrips(s) PROVE TypeOK'
  <2>1. [Idle EXCEPT !.pc = "number", !.lines = Lines(req[s])] \in Request
    BY LinesTyped, IdleTyped DEF Request
  <2> QED
    BY <1>4, <2>1, IdleTyped DEF FetchTrips, Return
<1>5. ASSUME NEW s \in Slots, NumberRun(s) PROVE TypeOK'
  <2>1. ASSUME NEW n \in NextNumbers
        PROVE  [req[s] EXCEPT !.pc = "insert", !.number = n] \in Request
    BY NextNumbersTyped DEF Request
  <2> QED
    BY <1>5, <2>1 DEF NumberRun
<1>6. ASSUME NEW s \in Slots, NEW i \in RunIds, InsertRun(s, i)
      PROVE  TypeOK'
  BY <1>6, InsertedTyped, IdleTyped DEF InsertRun, Return
<1>7. ASSUME NEW s \in Slots, NumberTaken(s) PROVE TypeOK'
  BY <1>7, IdleTyped DEF NumberTaken, Return
<1>8. ASSUME NEW s \in Slots, NEW i \in RunIds, NEW w \in Statuses \cup {None},
             StartUpdate(s, i, w)
      PROVE  TypeOK'
  <2>1. run[i].status \in Statuses
    BY <1>8 DEF StartUpdate, Exists
  <2>2. [Idle EXCEPT !.pc = "write", !.id = i, !.was = run[i].status,
                     !.want = w] \in Request
    BY <2>1, IdleTyped DEF Request
  <2> QED
    BY <1>8, <2>2 DEF StartUpdate
<1>9. ASSUME NEW s \in Slots, WriteUpdate(s) PROVE TypeOK'
  <2>1. [Idle EXCEPT !.pc = "announce", !.id = req[s].id] \in Request
    BY IdleTyped DEF Request
  <2>2. run' \in [RunIds -> Run]
    <3>1. CASE Exists(req[s].id) /\ Changes(req[s])
      <4>1. req[s].want \in Statuses
        BY <3>1 DEF Changes, Request
      <4>2. run' = [run EXCEPT ![req[s].id].status = req[s].want]
        BY <1>9, <3>1 DEF WriteUpdate
      <4>3. ASSUME NEW i \in RunIds
            PROVE  [run[i] EXCEPT !.status = req[s].want] \in Run
        BY <4>1 DEF Run
      <4> QED
        BY <4>2, <4>3
    <3>2. CASE ~ (Exists(req[s].id) /\ Changes(req[s]))
      BY <1>9, <3>2 DEF WriteUpdate
    <3> QED
      BY <3>1, <3>2
  <2>3. req' \in [Slots -> Request]
    BY <1>9, <2>1, IdleTyped DEF WriteUpdate, Return
  <2> QED
    BY <1>9, <2>2, <2>3 DEF WriteUpdate
<1>10. ASSUME NEW s \in Slots, Announce(s) PROVE TypeOK'
  <2>1. announced' \in [RunIds -> Nat]
    <3>1. CASE req[s].id \in RunIds
      BY <1>10, <3>1 DEF Announce
    <3>2. CASE req[s].id \notin RunIds
      BY <1>10, <3>2 DEF Announce
    <3> QED
      BY <3>1, <3>2
  <2> QED
    BY <1>10, <2>1, IdleTyped DEF Announce, Return
<1>11. ASSUME NEW s \in Slots, NEW i \in RunIds, StartRemove(s, i)
       PROVE  TypeOK'
  <2>1. [Idle EXCEPT !.pc = "delete", !.id = i] \in Request
    BY IdleTyped DEF Request
  <2> QED
    BY <1>11, <2>1 DEF StartRemove
<1>12. ASSUME NEW s \in Slots, DeleteRun(s) PROVE TypeOK'
  BY <1>12, IdleTyped, NoRowTyped DEF DeleteRun, Return
<1>13. ASSUME NEW s \in Slots, Fail(s) PROVE TypeOK'
  BY <1>13, IdleTyped DEF Fail, Return
<1>14. CASE UNCHANGED vars
  BY <1>14 DEF vars
<1> QED
  BY <1>1, <1>2, <1>3, <1>4, <1>5, <1>6, <1>7, <1>8, <1>9, <1>10, <1>11,
     <1>12, <1>13, <1>14
     DEF Next, TripStep, CreateStep, UpdateStep, RemoveStep

\* Every variable holds a value of its type.
THEOREM TypeCorrect == Spec => []TypeOK
<1>1. Init => TypeOK
  BY NoRowTyped, IdleTyped DEF Init, TypeOK
<1> QED
  BY <1>1, TypeStep, PTL DEF Spec

-----------------------------------------------------------------------------
\* What a step of slot s does to the request it serves and to the runs.

Quiet  == run' = run /\ announced' = announced
Others(i) == \A j \in RunIds \ {i} : run'[j] = run[j]

BeganCreate(s) ==
    /\ Quiet
    /\ "create" \in Duties[s]
    /\ req'[s].pc = "trips"
    /\ req'[s].covered = Covered

BeganUpdate(s) == \E i \in RunIds :
    /\ Quiet
    /\ "update" \in Duties[s] /\ Exists(i)
    /\ req'[s].pc = "write" /\ req'[s].id = i
    /\ req'[s].was = run[i].status
    /\ req'[s].want \in {None, run[i].status} \cup Transitions[run[i].status]

BeganRemove(s) == \E i \in RunIds :
    /\ Quiet
    /\ "remove" \in Duties[s] /\ run[i].status = "draft"
    /\ req'[s].pc = "delete" /\ req'[s].id = i

Fetched(s) ==
    /\ Quiet
    /\ req[s].pc = "trips" /\ req'[s].pc = "number"
    /\ Lines(req[s]) # {} /\ req'[s].lines = Lines(req[s])

Numbered(s) ==
    /\ Quiet
    /\ req[s].pc = "number" /\ req'[s].pc = "insert"
    /\ req'[s].lines = req[s].lines /\ req'[s].number \in NextNumbers

Returned(s) == Quiet /\ req'[s].pc = "idle"

Inserted(s) == \E i \in RunIds :
    /\ req[s].pc = "insert" /\ req'[s].pc = "idle"
    /\ announced' = announced
    /\ run[i].status = "absent" /\ Others(i)
    /\ run'[i].status = "draft"
    /\ run'[i].lines = req[s].lines
    /\ run'[i].total = Total(req[s].lines)
    /\ run'[i].workerCount = Cardinality(WorkersOf(req[s].lines))

Moved(s) == \E i \in RunIds :
    /\ req[s].pc = "write" /\ req[s].id = i
    /\ Exists(i) /\ Changes(req[s]) /\ Others(i)
    /\ announced' = announced
    /\ run'[i].status = req[s].want
    /\ run'[i].number = run[i].number /\ run'[i].lines = run[i].lines
    /\ run'[i].total = run[i].total /\ run'[i].workerCount = run[i].workerCount
    /\ \/ req'[s].pc = "idle"
       \/ req[s].want = "paid" /\ req'[s].pc = "announce" /\ req'[s].id = i

Posted(s) == \E i \in RunIds :
    /\ req[s].pc = "announce" /\ req[s].id = i /\ req'[s].pc = "idle"
    /\ Exists(i) /\ run' = run
    /\ announced' = [announced EXCEPT ![i] = @ + 1]

Discarded(s) == \E i \in RunIds :
    /\ req[s].pc = "delete" /\ req[s].id = i /\ req'[s].pc = "idle"
    /\ announced' = announced
    /\ Exists(i) /\ Others(i) /\ run'[i] = NoRow("deleted")

Effect(s) ==
    /\ \A x \in Slots \ {s} : req'[x] = req[x]
    /\ \/ BeganCreate(s) \/ BeganUpdate(s) \/ BeganRemove(s)
       \/ Fetched(s) \/ Numbered(s) \/ Returned(s)
       \/ Inserted(s) \/ Moved(s) \/ Posted(s) \/ Discarded(s)

LEMMA CreateEffect ==
    ASSUME TypeOK, NEW s \in Slots, CreateStep(s)
    PROVE  Effect(s)
<1> USE DEF TypeOK
<1>1. ASSUME NEW from \in Days, NEW to \in Days, StartCreate(s, from, to)
      PROVE  Effect(s)
  <2> DEFINE r == [Idle EXCEPT !.pc = "trips", !.from = from, !.to = to,
                               !.covered = Covered]
  <2>1. r.pc = "trips" /\ r.covered = Covered
    BY IdleTyped DEF Request
  <2>2. req' = [req EXCEPT ![s] = r]
    BY <1>1 DEF StartCreate
  <2> HIDE DEF r
  <2>3. BeganCreate(s)
    BY <1>1, <2>1, <2>2 DEF StartCreate, Serves, BeganCreate, Quiet
  <2> QED
    BY <2>2, <2>3 DEF Effect
<1>2. ASSUME Return(s), Quiet PROVE Effect(s)
  BY <1>2, IdleTyped DEF Return, Effect, Returned
<1>3. CASE FetchTrips(s)
  <2>1. CASE Lines(req[s]) = {}
    BY <1>2, <1>3, <2>1 DEF FetchTrips, Quiet
  <2>2. CASE Lines(req[s]) # {}
    <3> DEFINE r == [Idle EXCEPT !.pc = "number", !.lines = Lines(req[s])]
    <3>1. r.pc = "number" /\ r.lines = Lines(req[s])
      BY IdleTyped DEF Request
    <3>2. req' = [req EXCEPT ![s] = r]
      BY <1>3, <2>2 DEF FetchTrips
    <3> HIDE DEF r
    <3>3. Fetched(s)
      BY <1>3, <2>2, <3>1, <3>2 DEF FetchTrips, Fetched, Quiet
    <3> QED
      BY <3>2, <3>3 DEF Effect
  <2> QED
    BY <2>1, <2>2
<1>4. CASE NumberRun(s)
  <2>1. PICK n \in NextNumbers :
           req' = [req EXCEPT ![s].pc = "insert", ![s].number = n]
    BY <1>4 DEF NumberRun
  <2>2. Numbered(s) /\ \A x \in Slots \ {s} : req'[x] = req[x]
    BY <1>4, <2>1 DEF NumberRun, Numbered, Quiet, Request
  <2> QED
    BY <2>2 DEF Effect
<1>5. ASSUME NEW i \in RunIds, InsertRun(s, i) PROVE Effect(s)
  <2> DEFINE row == [status |-> "draft", number |-> req[s].number,
                     lines |-> req[s].lines, total |-> Total(req[s].lines),
                     workerCount |-> Cardinality(WorkersOf(req[s].lines))]
  <2>1. run' = [run EXCEPT ![i] = row]
    BY <1>5 DEF InsertRun
  <2>2. run'[i] = row /\ Others(i)
    BY <2>1 DEF Others
  <2>3. req'[s].pc = "idle" /\ \A x \in Slots \ {s} : req'[x] = req[x]
    BY <1>5, IdleTyped DEF InsertRun, Return
  <2>4. Inserted(s)
    BY <1>5, <2>2, <2>3 DEF InsertRun, Inserted
  <2> QED
    BY <2>3, <2>4 DEF Effect
<1>6. CASE NumberTaken(s)
  BY <1>2, <1>6 DEF NumberTaken, Quiet
<1> QED
  BY <1>1, <1>3, <1>4, <1>5, <1>6 DEF CreateStep

LEMMA UpdateEffect ==
    ASSUME TypeOK, Dutiful, NEW s \in Slots, UpdateStep(s)
    PROVE  Effect(s)
<1> USE DEF TypeOK
<1>1. ASSUME NEW i \in RunIds, NEW w \in Statuses \cup {None}, StartUpdate(s, i, w)
      PROVE  Effect(s)
  <2> DEFINE r == [Idle EXCEPT !.pc = "write", !.id = i, !.was = run[i].status,
                               !.want = w]
  <2>1. r.pc = "write" /\ r.id = i /\ r.was = run[i].status /\ r.want = w
    BY IdleTyped DEF Request
  <2>2. req' = [req EXCEPT ![s] = r]
    BY <1>1 DEF StartUpdate
  <2> HIDE DEF r
  <2>3. req'[s] = r /\ \A x \in Slots \ {s} : req'[x] = req[x]
    BY <2>2
  <2>4. BeganUpdate(s)
    BY <1>1, <2>1, <2>3 DEF StartUpdate, Serves, BeganUpdate, Quiet
  <2> QED
    BY <2>3, <2>4 DEF Effect
<1>2. ASSUME Return(s), Quiet PROVE Effect(s)
  BY <1>2, IdleTyped DEF Return, Effect, Returned
<1>3. CASE WriteUpdate(s)
  <2> DEFINE i == req[s].id
             r == [Idle EXCEPT !.pc = "announce", !.id = i]
  <2>1. req[s].pc = "write" /\ i \in RunIds
    BY <1>3 DEF WriteUpdate, Dutiful
  <2>2. r.pc = "announce" /\ r.id = i
    BY IdleTyped DEF Request
  <2>3. CASE Exists(i) /\ Changes(req[s])
    <3>1. run' = [run EXCEPT ![i].status = req[s].want] /\ announced' = announced
      BY <1>3, <2>3 DEF WriteUpdate
    <3>2. /\ Others(i)
          /\ run'[i] = [run[i] EXCEPT !.status = req[s].want]
      BY <2>1, <3>1 DEF Others
    <3>3. /\ run'[i].status = req[s].want /\ run'[i].number = run[i].number
          /\ run'[i].lines = run[i].lines /\ run'[i].total = run[i].total
          /\ run'[i].workerCount = run[i].workerCount
      BY <2>1, <3>2 DEF Run
    <3>4. \/ req' = [req EXCEPT ![s] = Idle]
          \/ req[s].want = "paid" /\ req' = [req EXCEPT ![s] = r]
      BY <1>3, Zenon DEF WriteUpdate, Return, PaysNow
    <3> HIDE DEF r
    <3>5. /\ \A x \in Slots \ {s} : req'[x] = req[x]
          /\ \/ req'[s].pc = "idle"
             \/ req[s].want = "paid" /\ req'[s].pc = "announce" /\ req'[s].id = i
      BY <2>2, <3>4, IdleTyped
    <3>6. Moved(s)
      BY <2>1, <2>3, <3>1, <3>2, <3>3, <3>5 DEF Moved
    <3> QED
      BY <3>5, <3>6 DEF Effect
  <2>4. CASE ~ (Exists(i) /\ Changes(req[s]))
    <3>1. ~ (Exists(i) /\ PaysNow(req[s]))
      BY <2>4, NoneAssumption DEF Changes, PaysNow
    <3>2. Return(s) /\ Quiet
      BY <1>3, <2>4, <3>1 DEF WriteUpdate, Quiet
    <3> QED
      BY <1>2, <3>2
  <2> QED
    BY <2>3, <2>4
<1>4. CASE Announce(s)
  <2> DEFINE i == req[s].id
  <2>1. req[s].pc = "announce" /\ i \in RunIds
    BY <1>4 DEF Announce, Dutiful
  <2>2. CASE Exists(i)
    <3>1. run' = run /\ announced' = [announced EXCEPT ![i] = @ + 1]
      BY <1>4, <2>2 DEF Announce
    <3>2. req'[s].pc = "idle" /\ \A x \in Slots \ {s} : req'[x] = req[x]
      BY <1>4, IdleTyped DEF Announce, Return
    <3>3. Posted(s)
      BY <2>1, <2>2, <3>1, <3>2 DEF Posted
    <3> QED
      BY <3>2, <3>3 DEF Effect
  <2>3. CASE ~ Exists(i)
    BY <1>2, <1>4, <2>3 DEF Announce, Quiet
  <2> QED
    BY <2>2, <2>3
<1> QED
  BY <1>1, <1>3, <1>4 DEF UpdateStep

LEMMA RemoveEffect ==
    ASSUME TypeOK, Dutiful, NEW s \in Slots, RemoveStep(s) \/ Fail(s)
    PROVE  Effect(s)
<1> USE DEF TypeOK
<1>1. ASSUME NEW i \in RunIds, StartRemove(s, i) PROVE Effect(s)
  <2> DEFINE r == [Idle EXCEPT !.pc = "delete", !.id = i]
  <2>1. r.pc = "delete" /\ r.id = i
    BY IdleTyped DEF Request
  <2>2. req' = [req EXCEPT ![s] = r]
    BY <1>1 DEF StartRemove
  <2> HIDE DEF r
  <2>3. req'[s] = r /\ \A x \in Slots \ {s} : req'[x] = req[x]
    BY <2>2
  <2>4. BeganRemove(s)
    BY <1>1, <2>1, <2>3 DEF StartRemove, Serves, BeganRemove, Quiet
  <2> QED
    BY <2>3, <2>4 DEF Effect
<1>2. ASSUME Return(s), Quiet PROVE Effect(s)
  BY <1>2, IdleTyped DEF Return, Effect, Returned
<1>3. CASE DeleteRun(s)
  <2> DEFINE i == req[s].id
  <2>1. req[s].pc = "delete" /\ i \in RunIds
    BY <1>3 DEF DeleteRun, Dutiful
  <2>2. CASE Exists(i)
    <3>1. run' = [run EXCEPT ![i] = NoRow("deleted")] /\ announced' = announced
      BY <1>3, <2>2 DEF DeleteRun
    <3>2. Others(i) /\ run'[i] = NoRow("deleted")
      BY <2>1, <3>1 DEF Others
    <3>3. req'[s].pc = "idle" /\ \A x \in Slots \ {s} : req'[x] = req[x]
      BY <1>3, IdleTyped DEF DeleteRun, Return
    <3>4. Discarded(s)
      BY <2>1, <2>2, <3>1, <3>2, <3>3 DEF Discarded
    <3> QED
      BY <3>3, <3>4 DEF Effect
  <2>3. CASE ~ Exists(i)
    BY <1>2, <1>3, <2>3 DEF DeleteRun, Quiet
  <2> QED
    BY <2>2, <2>3
<1>4. CASE Fail(s)
  BY <1>2, <1>4 DEF Fail, Quiet
<1> QED
  BY <1>1, <1>3, <1>4 DEF RemoveStep

\* A step leaves the runs and the requests alone, or is a step of one slot.
LEMMA StepEffect ==
    ASSUME TypeOK, Dutiful, [Next]_vars
    PROVE  (Quiet /\ req' = req) \/ \E s \in Slots : Effect(s)
<1>1. CASE TripStep
  BY <1>1 DEF TripStep, EnterTrip, EditTrip, DeleteTrip, Quiet
<1>2. CASE UNCHANGED vars
  BY <1>2 DEF vars, Quiet
<1> QED
  BY <1>1, <1>2, CreateEffect, UpdateEffect, RemoveEffect DEF Next

\* A slot serves the kind of request its duties name, on an existing id.
LEMMA DutifulStep == TypeOK /\ Dutiful /\ [Next]_vars => Dutiful'
<1> SUFFICES ASSUME TypeOK, Dutiful, [Next]_vars PROVE Dutiful'
  OBVIOUS
<1>1. CASE req' = req
  BY <1>1 DEF Dutiful
<1>2. ASSUME NEW s \in Slots, Effect(s) PROVE Dutiful'
  <2>1. \A x \in Slots \ {s} : req'[x] = req[x]
    BY <1>2 DEF Effect
  <2>2. CASE BeganCreate(s)
    BY <2>1, <2>2 DEF BeganCreate, Dutiful
  <2>3. CASE BeganUpdate(s)
    BY <2>1, <2>3 DEF BeganUpdate, Dutiful, Exists
  <2>4. CASE BeganRemove(s)
    BY <2>1, <2>4 DEF BeganRemove, Dutiful
  <2>5. CASE Fetched(s) \/ Numbered(s)
    BY <2>1, <2>5 DEF Fetched, Numbered, Dutiful
  <2>6. CASE Returned(s) \/ Inserted(s) \/ Posted(s) \/ Discarded(s)
    BY <2>1, <2>6 DEF Returned, Inserted, Posted, Discarded, Dutiful
  <2>7. CASE Moved(s)
    BY <2>1, <2>7 DEF Moved, Dutiful
  <2> QED
    BY <1>2, <2>2, <2>3, <2>4, <2>5, <2>6, <2>7 DEF Effect
<1> QED
  BY <1>1, <1>2, StepEffect

LEMMA DutifulCorrect == Spec => []Dutiful
<1>1. Init => Dutiful
  BY IdleTyped DEF Init, Dutiful
<1> QED
  BY <1>1, DutifulStep, TypeCorrect, PTL DEF Spec

-----------------------------------------------------------------------------
\* A trip is paid once.  Every step but the insert only releases trips: a run
\* in force after it was in force before it, with the same lines.

\* PaidOnce in its two parts.
Apart == \A i, j \in RunIds : i # j /\ InForce(i) /\ InForce(j) =>
    TripsOf(run[i].lines) \cap TripsOf(run[j].lines) = {}

Singles == \A i \in RunIds : InForce(i) => Single(run[i].lines)

LEMMA PaidOnceParts == Apart /\ Singles => PaidOnce
<1> SUFFICES ASSUME Apart, Singles, NEW i \in RunIds, NEW j \in RunIds,
                    InForce(i), InForce(j), NEW l \in run[i].lines,
                    NEW m \in run[j].lines, l.trip = m.trip
             PROVE  i = j /\ (l.role = m.role => l = m)
  BY DEF PaidOnce
<1>1. l.trip \in TripsOf(run[i].lines) \cap TripsOf(run[j].lines)
  BY DEF TripsOf
<1> QED
  BY <1>1 DEF Apart, Singles, Single

OnlyReleases == \A j \in RunIds :
    InForce(j)' => InForce(j) /\ run'[j].lines = run[j].lines

LEMMA ReleasesShrink ==
    ASSUME OnlyReleases
    PROVE  /\ Covered' \subseteq Covered
           /\ Apart /\ Singles => (Apart /\ Singles)'
<1>1. Covered' \subseteq Covered
  BY DEF OnlyReleases, Covered
<1>2. Apart => Apart'
  BY DEF OnlyReleases, Apart
<1>3. Singles => Singles'
  BY DEF OnlyReleases, Singles
<1> QED
  BY <1>1, <1>2, <1>3

OnceInv == TypeOK /\ Dutiful /\ CreatorView /\ UpdaterView /\ Apart /\ Singles

\* All but the insert release at most: an update writes a status the one it
\* read may change to, and as that is still the row's a void run stays void.
LEMMA EffectReleases ==
    ASSUME OnceInv, NEW s \in Slots, Effect(s), ~ Inserted(s)
    PROVE  OnlyReleases
<1> USE DEF OnceInv
<1>1. CASE run' = run
  BY <1>1 DEF OnlyReleases, InForce, Exists
<1>2. CASE Moved(s)
  <2>1. PICK i \in RunIds :
           /\ req[s].pc = "write" /\ req[s].id = i
           /\ Exists(i) /\ Changes(req[s]) /\ Others(i)
           /\ run'[i].status = req[s].want /\ run'[i].lines = run[i].lines
    BY <1>2 DEF Moved
  <2>2. run[i].status = req[s].was /\ run[i].status \in Statuses
    BY <2>1 DEF UpdaterView, Exists, Statuses, Transitions
  <2>3. req[s].want \in Transitions[run[i].status]
    BY <2>1, <2>2 DEF Dutiful, Changes
  <2>4. run[i].status # "void"
    BY <2>3 DEF Transitions
  <2> QED
    BY <2>1, <2>4 DEF OnlyReleases, InForce, Exists, Others
<1>3. CASE Discarded(s)
  <2>1. PICK i \in RunIds : Others(i) /\ run'[i] = NoRow("deleted")
    BY <1>3 DEF Discarded
  <2>2. run'[i].status \notin Statuses
    BY <2>1, NoRowTyped DEF Statuses, Transitions
  <2> QED
    BY <2>1, <2>2 DEF OnlyReleases, InForce, Exists, Others
<1> QED
  BY <1>1, <1>2, <1>3 DEF Effect, BeganCreate, BeganUpdate, BeganRemove, Fetched,
     Numbered, Returned, Posted, Quiet

\* The lines a creation makes have one for a role of a trip, and none of a
\* trip that was covered.
LEMMA LinesFresh ==
    ASSUME NEW r
    PROVE  Single(Lines(r)) /\ TripsOf(Lines(r)) \cap r.covered = {}
<1>1. ASSUME NEW l \in Lines(r)
      PROVE  /\ l.trip \in Payable(r)
             /\ \/ l = [trip |-> l.trip, role |-> "driver", worker |-> trip[l.trip].driver,
                        amount |-> trip[l.trip].driverPay]
                \/ l = [trip |-> l.trip, role |-> "helper", worker |-> trip[l.trip].helper,
                        amount |-> trip[l.trip].helperPay]
  <2>1. PICK t \in Payable(r) : l \in LinesFor(t)
    BY DEF Lines
  <2> QED
    BY <2>1 DEF LinesFor
<1>2. Single(Lines(r))
  <2> SUFFICES ASSUME NEW l \in Lines(r), NEW m \in Lines(r),
                      l.trip = m.trip, l.role = m.role
               PROVE  l = m
    BY DEF Single
  <2> QED
    BY <1>1
<1>3. TripsOf(Lines(r)) \cap r.covered = {}
  BY <1>1 DEF TripsOf, Payable
<1> QED
  BY <1>2, <1>3

CreatorViewOf(s) ==
    /\ req[s].pc = "trips" => Covered \subseteq req[s].covered
    /\ req[s].pc \in {"number", "insert"} =>
          /\ req[s].lines # {} /\ Single(req[s].lines)
          /\ TripsOf(req[s].lines) \cap Covered = {}

\* A step that releases at most keeps the views of all creations under way.
LEMMA CreationKept ==
    ASSUME OnceInv, NEW s \in Slots, Effect(s), OnlyReleases
    PROVE  CreatorView'
<1> USE DEF OnceInv
<1>0. Covered' \subseteq Covered
  BY ReleasesShrink
<1>1. \A x \in Slots : CreatorViewOf(x)
  BY DEF CreatorView, CreatorViewOf
<1>2. ASSUME NEW x \in Slots, req'[x] = req[x] PROVE CreatorViewOf(x)'
  BY <1>0, <1>1, <1>2 DEF CreatorViewOf
<1>3. ASSUME req'[s].pc \notin {"trips", "number", "insert"} PROVE CreatorViewOf(s)'
  BY <1>3 DEF CreatorViewOf
<1>4. ASSUME BeganCreate(s) PROVE CreatorViewOf(s)'
  BY <1>0, <1>4 DEF BeganCreate, CreatorViewOf
<1>5. ASSUME Fetched(s) PROVE CreatorViewOf(s)'
  <2>1. TripsOf(Lines(req[s])) \cap Covered = {} /\ Single(Lines(req[s]))
    BY <1>1, <1>5, LinesFresh DEF Fetched, CreatorViewOf
  <2> QED
    BY <1>0, <1>5, <2>1 DEF Fetched, CreatorViewOf
<1>6. ASSUME Numbered(s) PROVE CreatorViewOf(s)'
  BY <1>0, <1>1, <1>6 DEF Numbered, CreatorViewOf
<1>7. CreatorViewOf(s)'
  BY <1>3, <1>4, <1>5, <1>6 DEF Effect, BeganUpdate, BeganRemove, Returned, Inserted,
     Moved, Posted, Discarded
<1>8. \A x \in Slots : CreatorViewOf(x)'
  BY <1>2, <1>7 DEF Effect
<1> QED
  BY <1>8 DEF CreatorView, CreatorViewOf

\* Only the insert adds lines, and no other creation is there to have read
\* before it.
LEMMA InsertOnce ==
    ASSUME OneCreator, OnceInv, NEW s \in Slots, Effect(s), Inserted(s)
    PROVE  (CreatorView /\ Apart /\ Singles)'
<1> USE DEF OnceInv
<1>1. PICK i \in RunIds :
         /\ req[s].pc = "insert" /\ req'[s].pc = "idle"
         /\ run[i].status = "absent" /\ Others(i)
         /\ run'[i].lines = req[s].lines
  BY DEF Inserted
<1>2. TripsOf(req[s].lines) \cap Covered = {} /\ Single(req[s].lines)
  BY <1>1 DEF CreatorView
<1>3. ASSUME NEW j \in RunIds \ {i}, InForce(j)'
      PROVE  /\ InForce(j) /\ run'[j].lines = run[j].lines
             /\ TripsOf(run'[j].lines) \cap TripsOf(run'[i].lines) = {}
  <2>1. run'[j] = run[j] /\ InForce(j)
    BY <1>1, <1>3 DEF Others, InForce, Exists
  <2>2. TripsOf(run[j].lines) \subseteq Covered
    BY <2>1 DEF Covered
  <2> QED
    BY <1>1, <1>2, <2>1, <2>2
<1>4. Apart'
  BY <1>1, <1>3 DEF Apart
<1>5. Singles'
  BY <1>1, <1>2, <1>3 DEF Singles
<1>6. ASSUME NEW x \in Slots PROVE req'[x].pc \notin {"trips", "number", "insert"}
  <2>1. CASE x = s
    BY <1>1, <2>1
  <2>2. CASE x # s
    <3>1. req'[x] = req[x] /\ "create" \in Duties[s]
      BY <1>1, <2>2 DEF Effect, Dutiful
    <3>2. "create" \notin Duties[x]
      BY <2>2, <3>1 DEF OneCreator, AtMostOne
    <3> QED
      BY <3>1, <3>2 DEF Dutiful
  <2> QED
    BY <2>1, <2>2
<1>7. CreatorView'
  BY <1>6 DEF CreatorView
<1> QED
  BY <1>4, <1>5, <1>7

\* No step but the write of an update changes the status of an existing row,
\* and there is one update at a time.
LEMMA UpdaterKept ==
    ASSUME OneUpdater, OnceInv, NEW s \in Slots, Effect(s)
    PROVE  UpdaterView'
<1> USE DEF OnceInv
<1> DEFINE Held(x) == req[x].pc = "write" =>
               run[req[x].id].status \in {req[x].was, "deleted"}
<1>1. ASSUME NEW x \in Slots, req[x].pc = "write"
      PROVE  /\ req[x].id \in RunIds /\ req[x].was \in Statuses
             /\ run[req[x].id].status \in {req[x].was, "deleted"}
  BY <1>1 DEF Dutiful, UpdaterView
<1>2. ASSUME \A j \in RunIds : Exists(j) \/ run[j].status = "deleted" =>
                 run'[j].status \in {run[j].status, "deleted"},
             NEW x \in Slots, req'[x] = req[x]
      PROVE  Held(x)'
  BY <1>1, <1>2 DEF Exists
<1>3. CASE run' = run
  <2>1. Held(s)'
    BY <1>2, <1>3 DEF Effect, BeganCreate, BeganUpdate, BeganRemove, Fetched, Numbered,
       Returned, Inserted, Moved, Posted, Discarded
  <2>2. \A x \in Slots \ {s} : Held(x)'
    BY <1>2, <1>3 DEF Effect
  <2> QED
    BY <2>1, <2>2 DEF UpdaterView
<1>4. CASE Inserted(s) \/ Discarded(s)
  <2>1. \A j \in RunIds : Exists(j) \/ run[j].status = "deleted" =>
            run'[j].status \in {run[j].status, "deleted"}
    BY <1>4, NoRowTyped DEF Inserted, Discarded, Others, Exists, Statuses, Transitions
  <2>2. req'[s].pc = "idle"
    BY <1>4 DEF Inserted, Discarded
  <2>3. \A x \in Slots \ {s} : Held(x)'
    BY <1>2, <2>1 DEF Effect
  <2> QED
    BY <2>2, <2>3 DEF UpdaterView
<1>5. CASE Moved(s)
  <2>1. req[s].pc = "write" /\ req'[s].pc \in {"idle", "announce"}
    BY <1>5 DEF Moved
  <2>2. \A x \in Slots \ {s} : req'[x] = req[x] /\ req[x].pc # "write"
    BY <2>1 DEF Effect, Dutiful, OneUpdater, AtMostOne
  <2> QED
    BY <2>1, <2>2 DEF UpdaterView
<1> QED
  BY <1>3, <1>4, <1>5 DEF Effect, BeganCreate, BeganUpdate, BeganRemove, Fetched,
     Numbered, Returned, Posted, Quiet

\* Whatever runs, one creation and one status change at a time keep the invariant.
LEMMA OnceStep ==
    ASSUME OneCreator, OneUpdater
    PROVE  OnceInv /\ [Next]_vars => (CreatorView /\ UpdaterView /\ Apart /\ Singles)'
<1> SUFFICES ASSUME OnceInv, [Next]_vars
             PROVE  (CreatorView /\ UpdaterView /\ Apart /\ Singles)'
  OBVIOUS
<1>1. CASE Quiet /\ req' = req
  BY <1>1 DEF OnceInv, Quiet, CreatorView, UpdaterView, Apart, Singles, InForce,
     Exists, Covered
<1>2. ASSUME NEW s \in Slots, Effect(s)
      PROVE  (CreatorView /\ UpdaterView /\ Apart /\ Singles)'
  <2>1. CASE Inserted(s)
    BY <1>2, <2>1, InsertOnce, UpdaterKept
  <2>2. CASE ~ Inserted(s)
    BY <1>2, <2>2, EffectReleases, ReleasesShrink, CreationKept, UpdaterKept DEF OnceInv
  <2> QED
    BY <2>1, <2>2
<1> QED
  BY <1>1, <1>2, StepEffect DEF OnceInv

LEMMA OnceBegins == Init => CreatorView /\ UpdaterView /\ Apart /\ Singles
BY IdleTyped DEF Init, CreatorView, UpdaterView, Apart, Singles, InForce, Exists,
   NoRow, Statuses, Transitions

\* No trip has lines on two runs in force, nor two lines for a role of it on
\* one, if creations are served one at a time and so are status changes
\* (payroll.service.ts, create), whatever else runs in between.
THEOREM OncePaid ==
    ASSUME OneCreator, OneUpdater
    PROVE  Spec => [](PaidOnce /\ CreatorView)
<1>1. OnceInv /\ [Next]_vars => (CreatorView /\ UpdaterView /\ Apart /\ Singles)'
  BY OnceStep
<1>2. OnceInv <=> TypeOK /\ Dutiful /\ CreatorView /\ UpdaterView /\ Apart /\ Singles
  BY DEF OnceInv
<1> QED
  BY <1>1, <1>2, OnceBegins, PaidOnceParts, TypeCorrect, DutifulCorrect, PTL DEF Spec

-----------------------------------------------------------------------------
\* A payment is announced once.

PostInv == TypeOK /\ Dutiful /\ ClerkView /\ AnnouncedIsPaid

Clerical == {"write", "announce", "delete"}

\* While a clerical request runs in a slot, no other slot runs one.
LEMMA ClerkAlone ==
    ASSUME OneClerk, Dutiful, NEW s \in Slots, req[s].pc \in Clerical
    PROVE  \A x \in Slots \ {s} : req[x].pc \notin Clerical
BY DEF OneClerk, AtMostOne, Dutiful, Clerical

ClerkViewOf(s) ==
    /\ req[s].pc = "write" => run[req[s].id].status = req[s].was
    /\ req[s].pc = "announce" => run[req[s].id].status = "paid" /\ announced[req[s].id] = 0
    /\ req[s].pc = "delete" => run[req[s].id].status = "draft"

\* A request that is not clerical leaves every row a clerical one holds, and
\* every announced one, as it is.
LEMMA BystanderPost ==
    ASSUME PostInv, NEW s \in Slots, Effect(s),
           announced' = announced,
           \A i \in RunIds : run[i].status # "absent" => run'[i] = run[i],
           ClerkViewOf(s)'
    PROVE  ClerkView' /\ AnnouncedIsPaid'
<1> USE DEF PostInv
<1>1. AnnouncedIsPaid'
  BY DEF AnnouncedIsPaid, TypeOK
<1>2. ASSUME NEW x \in Slots \ {s} PROVE ClerkViewOf(x)'
  <2>1. req'[x] = req[x]
    BY DEF Effect
  <2>2. req[x].pc \in Clerical => req[x].id \in RunIds /\ run'[req[x].id] = run[req[x].id]
    BY DEF ClerkView, Dutiful, Clerical, Statuses, Transitions
  <2> QED
    BY <2>1, <2>2 DEF ClerkView, ClerkViewOf, Clerical
<1>3. \A x \in Slots : ClerkViewOf(x)'
  BY <1>2
<1> QED
  BY <1>1, <1>3 DEF ClerkView, ClerkViewOf

\* A clerical request that ends its statement is alone.
LEMMA ClerkPost ==
    ASSUME OneClerk, PostInv, NEW s \in Slots, Effect(s), req[s].pc \in Clerical,
           ClerkViewOf(s)'
    PROVE  ClerkView'
<1>1. \A x \in Slots \ {s} : req'[x] = req[x] /\ req[x].pc \notin Clerical
  BY ClerkAlone DEF Effect, PostInv
<1>2. \A x \in Slots : ClerkViewOf(x)'
  BY <1>1 DEF ClerkViewOf, Clerical
<1> QED
  BY <1>2 DEF ClerkView, ClerkViewOf

LEMMA EffectPost ==
    ASSUME OneClerk, PostInv, NEW s \in Slots, Effect(s)
    PROVE  ClerkView' /\ AnnouncedIsPaid'
<1> USE DEF PostInv
<1>1. CASE BeganCreate(s) \/ Fetched(s) \/ Numbered(s) \/ Returned(s)
  <2>1. Quiet /\ req'[s].pc \notin Clerical
    BY <1>1 DEF BeganCreate, Fetched, Numbered, Returned, Clerical
  <2>2. ClerkViewOf(s)'
    BY <2>1 DEF ClerkViewOf, Clerical
  <2> QED
    BY <2>1, <2>2, BystanderPost DEF Quiet
<1>2. CASE BeganUpdate(s) \/ BeganRemove(s)
  <2>1. Quiet
    BY <1>2 DEF BeganUpdate, BeganRemove
  <2>2. ClerkViewOf(s)'
    BY <1>2 DEF BeganUpdate, BeganRemove, ClerkViewOf, Quiet
  <2> QED
    BY <2>1, <2>2, BystanderPost DEF Quiet
<1>3. CASE Inserted(s)
  <2>1. ClerkViewOf(s)'
    BY <1>3 DEF Inserted, ClerkViewOf
  <2>2. /\ announced' = announced
        /\ \A i \in RunIds : run[i].status # "absent" => run'[i] = run[i]
    BY <1>3 DEF Inserted, Others
  <2> QED
    BY <2>1, <2>2, BystanderPost
<1>4. CASE Moved(s)
  <2>1. PICK i \in RunIds :
           /\ req[s].pc = "write" /\ req[s].id = i
           /\ Exists(i) /\ Changes(req[s]) /\ Others(i)
           /\ announced' = announced
           /\ run'[i].status = req[s].want
           /\ \/ req'[s].pc = "idle"
              \/ req[s].want = "paid" /\ req'[s].pc = "announce" /\ req'[s].id = i
    BY <1>4 DEF Moved
  <2>2. run[i].status = req[s].was /\ req[s].want \in Transitions[run[i].status]
    BY <2>1 DEF ClerkView, Dutiful, Changes
  <2>3. run[i].status # "paid"
    BY <2>2 DEF Transitions
  <2>4. announced[i] = 0
    BY <2>3 DEF AnnouncedIsPaid, TypeOK
  <2>5. AnnouncedIsPaid'
    BY <2>1, <2>4 DEF AnnouncedIsPaid, Others
  <2>6. ClerkViewOf(s)'
    BY <2>1, <2>4 DEF ClerkViewOf
  <2> QED
    BY <2>1, <2>5, <2>6, ClerkPost DEF Clerical
<1>5. CASE Posted(s)
  <2>1. PICK i \in RunIds :
           /\ req[s].pc = "announce" /\ req[s].id = i /\ req'[s].pc = "idle"
           /\ run' = run /\ announced' = [announced EXCEPT ![i] = @ + 1]
    BY <1>5 DEF Posted
  <2>2. run[i].status = "paid" /\ announced[i] = 0
    BY <2>1 DEF ClerkView
  <2>3. announced'[i] = 1 /\ \A j \in RunIds \ {i} : announced'[j] = announced[j]
    BY <2>1, <2>2 DEF TypeOK
  <2>4. AnnouncedIsPaid'
    BY <2>1, <2>2, <2>3 DEF AnnouncedIsPaid
  <2>5. ClerkViewOf(s)'
    BY <2>1 DEF ClerkViewOf
  <2> QED
    BY <2>1, <2>4, <2>5, ClerkPost DEF Clerical
<1>6. CASE Discarded(s)
  <2>1. PICK i \in RunIds :
           /\ req[s].pc = "delete" /\ req[s].id = i /\ req'[s].pc = "idle"
           /\ announced' = announced /\ Others(i)
    BY <1>6 DEF Discarded
  <2>2. run[i].status = "draft"
    BY <2>1 DEF ClerkView
  <2>3. ~ (announced[i] > 0)
    BY <2>2 DEF AnnouncedIsPaid
  <2>4. AnnouncedIsPaid'
    BY <2>1, <2>3 DEF AnnouncedIsPaid, Others
  <2>5. ClerkViewOf(s)'
    BY <2>1 DEF ClerkViewOf
  <2> QED
    BY <2>1, <2>4, <2>5, ClerkPost DEF Clerical
<1> QED
  BY <1>1, <1>2, <1>3, <1>4, <1>5, <1>6 DEF Effect

\* What a lone clerk relies on, from step to step.
LEMMA PostStep ==
    ASSUME OneClerk
    PROVE  PostInv /\ [Next]_vars => (ClerkView /\ AnnouncedIsPaid)'
<1> SUFFICES ASSUME PostInv, [Next]_vars PROVE ClerkView' /\ AnnouncedIsPaid'
  OBVIOUS
<1>1. CASE Quiet /\ req' = req
  BY <1>1 DEF PostInv, Quiet, ClerkView, AnnouncedIsPaid
<1> QED
  BY <1>1, EffectPost, StepEffect DEF PostInv

\* PAYROLL_PAID is emitted at most once for a run and only for one that is
\* paid and stays so, if status changes and deletions are served one at a
\* time (payroll.service.ts, update and remove).
THEOREM AnnouncedOnce ==
    ASSUME OneClerk
    PROVE  Spec => [](AnnouncedIsPaid /\ ClerkView)
<1>1. Init => ClerkView /\ AnnouncedIsPaid
  BY IdleTyped DEF Init, ClerkView, AnnouncedIsPaid
<1>2. PostInv /\ [Next]_vars => (ClerkView /\ AnnouncedIsPaid)'
  BY PostStep
<1>3. PostInv <=> TypeOK /\ Dutiful /\ ClerkView /\ AnnouncedIsPaid
  BY DEF PostInv
<1> QED
  BY <1>1, <1>2, <1>3, TypeCorrect, DutifulCorrect, PTL DEF Spec

-----------------------------------------------------------------------------
\* What a run records is what its lines say.

Frozen == \A i \in RunIds : Exists(i) =>
    /\ run[i].total = Total(run[i].lines)
    /\ run[i].workerCount = Cardinality(WorkersOf(run[i].lines))

\* Every step keeps what a run records.
LEMMA FrozenStep == TypeOK /\ Dutiful /\ Frozen /\ [Next]_vars => Frozen'
<1> SUFFICES ASSUME TypeOK, Dutiful, Frozen, [Next]_vars PROVE Frozen'
  OBVIOUS
<1>1. CASE run' = run
  BY <1>1 DEF Frozen, Exists
<1>2. ASSUME NEW s \in Slots, Inserted(s) PROVE Frozen'
  BY <1>2 DEF Inserted, Others, Frozen, Exists
<1>3. ASSUME NEW s \in Slots, Moved(s) PROVE Frozen'
  BY <1>3 DEF Moved, Others, Frozen, Exists
<1>4. ASSUME NEW s \in Slots, Discarded(s) PROVE Frozen'
  BY <1>4, NoRowTyped DEF Discarded, Others, Frozen, Exists, Statuses, Transitions
<1> QED
  BY <1>1, <1>2, <1>3, <1>4, StepEffect DEF Effect, BeganCreate, BeganUpdate,
     BeganRemove, Fetched, Numbered, Returned, Posted, Quiet

LEMMA FrozenCorrect == Spec => []Frozen
<1>1. Init => Frozen
  BY DEF Init, Frozen, Exists, NoRow, Statuses, Transitions
<1> QED
  BY <1>1, FrozenStep, TypeCorrect, DutifulCorrect, PTL DEF Spec

\* The lines of a run are finitely many: finitely many trips were ever entered,
\* and a creation takes its lines from live ones.

Born == {t \in Trips : trip[t].state # "unborn"}

FiniteLines ==
    /\ IsFiniteSet(Born)
    /\ \A i \in RunIds : IsFiniteSet(run[i].lines)
    /\ \A s \in Slots : req[s].pc \in {"number", "insert"} => IsFiniteSet(req[s].lines)

LEMMA BornGrows ==
    ASSUME TypeOK, [Next]_vars
    PROVE  Born' = Born \/ \E t \in Trips : Born' \subseteq Born \cup {t}
<1>1. ASSUME NEW t \in Trips, NEW row \in LiveTrip, EnterTrip(t, row) \/ EditTrip(t, row)
      PROVE  Born' \subseteq Born \cup {t}
  BY <1>1 DEF EnterTrip, EditTrip, Born, TypeOK
<1>2. ASSUME NEW t \in Trips, DeleteTrip(t)
      PROVE  Born' \subseteq Born \cup {t}
  BY <1>2 DEF DeleteTrip, Born, TypeOK
<1>3. ASSUME NEW s \in Slots, CreateStep(s) \/ UpdateStep(s) \/ RemoveStep(s) \/ Fail(s)
      PROVE  trip' = trip
  BY <1>3 DEF CreateStep, StartCreate, FetchTrips, NumberRun, InsertRun, NumberTaken,
     UpdateStep, StartUpdate, WriteUpdate, Announce, RemoveStep, StartRemove, DeleteRun, Fail
<1>4. CASE trip' = trip
  BY <1>4 DEF Born
<1> QED
  BY <1>1, <1>2, <1>3, <1>4 DEF Next, TripStep, vars

\* The lines of the trips of a period.
LEMMA LinesFinite ==
    ASSUME IsFiniteSet(Born), NEW r
    PROVE  IsFiniteSet(Lines(r))
<1>1. IsFiniteSet(Payable(r))
  <2>1. Payable(r) \subseteq Born
    BY DEF Payable, Born
  <2> QED
    BY <2>1, FS_Subset
<1>2. ASSUME NEW t PROVE IsFiniteSet(LinesFor(t))
  BY FS_Singleton, FS_EmptySet, FS_Union DEF LinesFor
<1>3. PICK groups : groups = {LinesFor(t) : t \in Payable(r)}
  OBVIOUS
<1>4. IsFiniteSet(groups)
  <2>1. PICK group : group = [t \in Payable(r) |-> LinesFor(t)]
    OBVIOUS
  <2>2. \A g \in groups : \E t \in Payable(r) : group[t] = g
    BY <1>3, <2>1
  <2> QED
    BY <1>1, <2>2, ImageFinite
<1>5. \A g \in groups : IsFiniteSet(g)
  BY <1>2, <1>3
<1>6. IsFiniteSet(UNION groups)
  BY <1>4, <1>5, FS_UNION
<1> QED
  BY <1>3, <1>6 DEF Lines

LEMMA FiniteStep == TypeOK /\ Dutiful /\ FiniteLines /\ [Next]_vars => FiniteLines'
<1> SUFFICES ASSUME TypeOK, Dutiful, FiniteLines, [Next]_vars PROVE FiniteLines'
  OBVIOUS
<1>1. IsFiniteSet(Born')
  <2>1. \A t : IsFiniteSet(Born \cup {t})
    BY FS_Singleton, FS_Union DEF FiniteLines
  <2> QED
    BY <2>1, BornGrows, FS_Subset DEF FiniteLines
<1>2. CASE Quiet /\ req' = req
  BY <1>1, <1>2 DEF Quiet, FiniteLines
<1>3. ASSUME NEW s \in Slots, Effect(s)
      PROVE  /\ \A i \in RunIds : IsFiniteSet(run'[i].lines)
             /\ req'[s].pc \in {"number", "insert"} => IsFiniteSet(req'[s].lines)
  <2> USE DEF FiniteLines
  <2>1. CASE BeganCreate(s) \/ BeganUpdate(s) \/ BeganRemove(s) \/ Returned(s) \/ Posted(s)
    BY <2>1 DEF BeganCreate, BeganUpdate, BeganRemove, Returned, Posted, Quiet
  <2>2. CASE Fetched(s)
    BY <2>2, LinesFinite DEF Fetched, Quiet
  <2>3. CASE Numbered(s)
    BY <2>3 DEF Numbered, Quiet
  <2>4. CASE Inserted(s)
    BY <2>4 DEF Inserted, Others
  <2>5. CASE Moved(s)
    BY <2>5 DEF Moved, Others
  <2>6. CASE Discarded(s)
    BY <2>6, FS_EmptySet, NoRowTyped DEF Discarded, Others
  <2> QED
    BY <1>3, <2>1, <2>2, <2>3, <2>4, <2>5, <2>6 DEF Effect
<1>4. ASSUME NEW s \in Slots, Effect(s) PROVE FiniteLines'
  BY <1>1, <1>3, <1>4 DEF Effect, FiniteLines
<1> QED
  BY <1>2, <1>4, StepEffect

LEMMA FiniteCorrect == Spec => []FiniteLines
<1>1. Init => FiniteLines
  <2> SUFFICES ASSUME Init PROVE FiniteLines
    OBVIOUS
  <2>1. Born = {}
    BY DEF Init, Born, NoTrip
  <2> QED
    BY <2>1, FS_EmptySet, NoRowTyped, IdleTyped DEF Init, FiniteLines
<1> QED
  BY <1>1, FiniteStep, TypeCorrect, DutifulCorrect, PTL DEF Spec

\* Line amounts add up worker by worker, and role by role for each worker.
LEMMA StatedIsTotal ==
    ASSUME NEW lines \in SUBSET Line, IsFiniteSet(lines)
    PROVE  Stated(lines) = Total(lines) /\ Total(lines) \in Int
<1>1. PICK pay : pay = [l \in lines |-> l.amount]
  OBVIOUS
<1>2. \A l \in lines : pay[l] \in Int
  <2>1. \A l \in lines : l.amount \in Nat
    BY AmountsAssumption DEF Line
  <2> QED
    BY <1>1, <2>1
<1>3. ASSUME NEW part \in SUBSET lines
      PROVE  Total(part) = SumFunctionOnSet(pay, part) /\ IsFiniteSet(part)
  <2>1. PICK own : own = [l \in part |-> l.amount]
    OBVIOUS
  <2>2. \A l \in part : own[l] \in Int /\ own[l] = pay[l]
    BY <1>1, <1>2, <2>1
  <2>3. IsFiniteSet(part)
    BY FS_Subset
  <2>4. SumFunctionOnSet(own, part) = SumFunctionOnSet(pay, part)
    BY <2>2, <2>3, SumSame
  <2>5. Total(part) = SumFunctionOnSet(own, part)
    BY <2>1 DEF Total, SumFunction
  <2> QED
    BY <2>3, <2>4, <2>5
<1>4. PICK Of \in [WorkersOf(lines) -> SUBSET lines] :
         \A w \in WorkersOf(lines) : Of[w] = {l \in lines : l.worker = w}
  <2> DEFINE byWorker == [w \in WorkersOf(lines) |-> {l \in lines : l.worker = w}]
  <2>1. /\ byWorker \in [WorkersOf(lines) -> SUBSET lines]
        /\ \A w \in WorkersOf(lines) : byWorker[w] = {l \in lines : l.worker = w}
    OBVIOUS
  <2> HIDE DEF byWorker
  <2> QED
    BY <2>1
<1>5. PICK owed : owed = [w \in WorkersOf(lines) |->
                             Statement(lines, w).driverPay + Statement(lines, w).helperPay]
  OBVIOUS
<1>6. ASSUME NEW w \in WorkersOf(lines) PROVE owed[w] = SumFunctionOnSet(pay, Of[w])
  <2> DEFINE D == {l \in lines : l.worker = w /\ l.role = "driver"}
             H == {l \in lines : l.worker = w /\ l.role = "helper"}
  <2>1. Of[w] = D \cup H /\ D \cap H = {} /\ D \in SUBSET lines /\ H \in SUBSET lines
    BY <1>4 DEF Line, Roles
  <2>2. owed[w] = Total(D) + Total(H)
    BY <1>5 DEF Statement
  <2> HIDE DEF D, H
  <2>3. \A l \in D \cup H : pay[l] \in Int
    BY <1>2, <2>1
  <2>4. SumFunctionOnSet(pay, D \cup H) = SumFunctionOnSet(pay, D) + SumFunctionOnSet(pay, H)
    BY <1>3, <2>1, <2>3, SumUnion
  <2> QED
    BY <1>3, <2>1, <2>2, <2>4
<1>7. IsFiniteSet(WorkersOf(lines))
  <2>1. PICK worker : worker = [l \in lines |-> l.worker]
    OBVIOUS
  <2>2. \A w \in WorkersOf(lines) : \E l \in lines : worker[l] = w
    BY <2>1 DEF WorkersOf
  <2> QED
    BY <2>2, ImageFinite
<1>8. SumFunctionOnSet(owed, WorkersOf(lines)) = SumFunctionOnSet(pay, lines)
  <2>1. \A l \in lines : \E w \in WorkersOf(lines) : l \in Of[w]
    BY <1>4 DEF WorkersOf
  <2>2. \A w, v \in WorkersOf(lines) : \A l \in lines : l \in Of[w] /\ l \in Of[v] => w = v
    BY <1>4
  <2> QED
    BY <1>2, <1>4, <1>6, <1>7, <2>1, <2>2, SumOfParts
<1>9. Stated(lines) = SumFunctionOnSet(owed, WorkersOf(lines))
  BY <1>5 DEF Stated, SumFunction
<1> QED
  BY <1>2, <1>3, <1>8, <1>9, SumInt

\* The statements of a run add up to its total and its workers are counted
\* right for as long as it exists, whatever becomes of its trips and their
\* workers (aggregateByWorker).
THEOREM StatementsStand == Spec => []StatementsAgree
<1>1. TypeOK /\ Frozen /\ FiniteLines => StatementsAgree
  BY StatedIsTotal DEF TypeOK, Run, Frozen, FiniteLines, StatementsAgree
<1> QED
  BY <1>1, TypeCorrect, FrozenCorrect, FiniteCorrect, PTL

-----------------------------------------------------------------------------
\* Numbers.

\* The successor of the last number, as text, is free, or it is the first
\* number wider than the padding.
LEMMA NextNumberFree ==
    ASSUME TypeOK, NEW n \in NextNumbers, n \in Numbers
    PROVE  n = SeqLimit + 1
<1>1. PICK last \in Numbers :
         n = last + 1 /\ \A m \in Numbers : LexRank(m) <= LexRank(last)
  BY DEF NextNumbers, LastNumbers
<1>2. n \in Nat /\ last \in Nat /\ LexRank(n) <= LexRank(last)
  BY <1>1 DEF TypeOK, Numbers, Run
<1>3. Radix \in Nat /\ Radix > 0 /\ SeqLimit \in Nat
  BY NumberingAssumption
<1>4. CASE n <= SeqLimit
  <2> DEFINE a == 2 * Radix * n
             b == 2 * Radix * last
  <2>1. LexRank(n) = a - 1 /\ LexRank(last) = b - 1
    BY <1>1, <1>2, <1>3, <1>4 DEF LexRank
  <2>2. a = b + 2 * Radix /\ b \in Nat
    BY <1>1, <1>2, <1>3
  <2> HIDE DEF a, b
  <2> QED
    BY <1>2, <1>3, <2>1, <2>2
<1>5. CASE last > SeqLimit
  <2>1. LexRank(n) = 2 * n /\ LexRank(last) = 2 * last
    BY <1>1, <1>2, <1>3, <1>5 DEF LexRank
  <2> QED
    BY <1>1, <1>2, <2>1
<1> QED
  BY <1>1, <1>2, <1>3, <1>4, <1>5

\* A lone creation of a run is refused its number only when the numbers
\* outgrow their padding, and then for the first wider number alone.
THEOREM NumbersSuffice ==
    ASSUME OneCreator
    PROVE  Spec => []CollidesOnlyAtLimit
<1>1. Init => CollidesOnlyAtLimit
  BY IdleTyped DEF Init, CollidesOnlyAtLimit
<1>2. TypeOK /\ Dutiful /\ CollidesOnlyAtLimit /\ [Next]_vars => CollidesOnlyAtLimit'
  <2> SUFFICES ASSUME TypeOK, Dutiful, CollidesOnlyAtLimit, [Next]_vars
               PROVE  CollidesOnlyAtLimit'
    OBVIOUS
  <2>1. CASE Quiet /\ req' = req
    BY <2>1 DEF Quiet, CollidesOnlyAtLimit, Numbers, Exists
  <2>2. ASSUME NEW s \in Slots, Effect(s), Inserted(s) PROVE CollidesOnlyAtLimit'
    <3>1. "create" \in Duties[s] /\ req'[s].pc = "idle"
      BY <2>2 DEF Inserted, Dutiful
    <3>2. \A x \in Slots \ {s} : req'[x] = req[x] /\ req[x].pc # "insert"
      BY <2>2, <3>1 DEF Effect, Dutiful, OneCreator, AtMostOne
    <3> QED
      BY <3>1, <3>2 DEF CollidesOnlyAtLimit
  <2>3. ASSUME NEW s \in Slots, Effect(s), ~ Inserted(s) PROVE CollidesOnlyAtLimit'
    <3>1. Numbers' \subseteq Numbers
      <4>1. \A j \in RunIds : Exists(j)' => Exists(j) /\ run'[j].number = run[j].number
        <5>1. CASE run' = run
          BY <5>1 DEF Exists
        <5>2. CASE Moved(s)
          BY <5>2 DEF Moved, Others, Exists
        <5>3. CASE Discarded(s)
          BY <5>3, NoRowTyped DEF Discarded, Others, Exists, Statuses, Transitions
        <5> QED
          BY <2>3, <5>1, <5>2, <5>3 DEF Effect, BeganCreate, BeganUpdate, BeganRemove,
             Fetched, Numbered, Returned, Posted, Quiet
      <4> QED
        BY <4>1 DEF Numbers
    <3>2. ASSUME NEW x \in Slots, req'[x].pc = "insert"
          PROVE  req'[x] = req[x] \/ req'[x].number \in NextNumbers
      BY <2>3, <3>2 DEF Effect, BeganCreate, BeganUpdate, BeganRemove, Fetched,
         Numbered, Returned, Moved, Posted, Discarded
    <3> QED
      BY <3>1, <3>2, NextNumberFree DEF CollidesOnlyAtLimit
  <2> QED
    BY <2>1, <2>2, <2>3, StepEffect
<1> QED
  BY <1>1, <1>2, TypeCorrect, DutifulCorrect, PTL DEF Spec

-----------------------------------------------------------------------------
\* Payroll implements the period book.

BookInv == TypeOK /\ Dutiful /\ CreatorView /\ ClerkView

LEMMA BookInsert ==
    ASSUME BookInv, NEW s \in Slots, Inserted(s)
    PROVE  \E i \in RunIds, S \in SUBSET Trips : Book!Issue(i, S)
<1> USE DEF BookInv
<1> DEFINE book == [j \in RunIds |-> [status |-> run[j].status,
                                      items |-> TripsOf(run[j].lines)]]
<1>0. PICK S \in SUBSET Trips : S = TripsOf(req[s].lines)
  <2>1. req[s].lines \subseteq Line
    BY DEF TypeOK, Request
  <2>2. TripsOf(req[s].lines) \in SUBSET Trips
    BY <2>1 DEF TripsOf, Line
  <2> QED
    BY <2>2
<1>1. PICK i \in RunIds :
         /\ req[s].pc = "insert" /\ run[i].status = "absent" /\ Others(i)
         /\ run'[i].status = "draft" /\ run'[i].lines = req[s].lines
  BY DEF Inserted
<1>2. \A j \in RunIds : Book!InForce(j) <=> InForce(j)
  BY DEF Book!InForce, Book!Statuses, InForce, Exists, Statuses
<1>3. Book!Held = Covered
  BY <1>2 DEF Book!Held, Covered
<1>4. S # {} /\ S \cap Covered = {}
  BY <1>0, <1>1 DEF CreatorView, TripsOf
<1>5. book[i].status = "absent"
  BY <1>1
<1>6. book' = [book EXCEPT ![i] = [status |-> "draft", items |-> S]]
  BY <1>0, <1>1 DEF Others
<1>7. Book!Issue(i, S)
  BY <1>3, <1>4, <1>5, <1>6 DEF Book!Issue
<1> QED
  BY <1>7

LEMMA BookMove ==
    ASSUME BookInv, NEW s \in Slots, Moved(s)
    PROVE  \E i \in RunIds, w \in Book!Statuses : Book!Move(i, w)
<1> USE DEF BookInv
<1> DEFINE book == [j \in RunIds |-> [status |-> run[j].status,
                                      items |-> TripsOf(run[j].lines)]]
<1>1. PICK i \in RunIds :
         /\ req[s].pc = "write" /\ req[s].id = i
         /\ Exists(i) /\ Changes(req[s]) /\ Others(i)
         /\ run'[i].status = req[s].want /\ run'[i].lines = run[i].lines
  BY DEF Moved
<1>0. PICK w \in Statuses \cup {None} : w = req[s].want
  BY DEF TypeOK, Request
<1>2. w \in Transitions[run[i].status] /\ run[i].status \in Statuses
  BY <1>0, <1>1 DEF ClerkView, Dutiful, Changes, Exists
<1>3. book' = [book EXCEPT ![i].status = w]
  BY <1>0, <1>1 DEF Others
<1>4. w \in Book!Statuses
  BY <1>2 DEF Book!Statuses, Statuses, Transitions
<1>5. book[i].status = run[i].status
  OBVIOUS
<1>6. Book!Move(i, w)
  BY <1>2, <1>3, <1>5 DEF Book!Move, Book!Statuses, Statuses
<1> QED
  BY <1>4, <1>6

LEMMA BookDiscard ==
    ASSUME BookInv, NEW s \in Slots, Discarded(s)
    PROVE  \E i \in RunIds : Book!Discard(i)
<1> USE DEF BookInv
<1> DEFINE book == [j \in RunIds |-> [status |-> run[j].status,
                                      items |-> TripsOf(run[j].lines)]]
<1>1. PICK i \in RunIds :
         req[s].pc = "delete" /\ req[s].id = i /\ Others(i) /\ run'[i] = NoRow("deleted")
  BY DEF Discarded
<1>2. run[i].status = "draft"
  BY <1>1 DEF ClerkView
<1>3. run'[i].status = "deleted" /\ TripsOf(run'[i].lines) = {}
  BY <1>1, NoRowTyped DEF TripsOf
<1>4. book' = [book EXCEPT ![i] = [status |-> "deleted", items |-> {}]]
  BY <1>1, <1>3 DEF Others
<1> QED
  BY <1>2, <1>4 DEF Book!Discard

\* A statement issues, moves or discards a run or leaves the book alone.
LEMMA BookStep ==
    ASSUME BookInv, [Next]_vars
    PROVE  Book!Next \/ run' = run
<1>1. ASSUME NEW s \in Slots, Inserted(s) PROVE Book!Next
  BY <1>1, BookInsert, Zenon DEF Book!Next
<1>2. ASSUME NEW s \in Slots, Moved(s) PROVE Book!Next
  BY <1>2, BookMove, Zenon DEF Book!Next
<1>3. ASSUME NEW s \in Slots, Discarded(s) PROVE Book!Next
  BY <1>3, BookDiscard, Zenon DEF Book!Next
<1> QED
  BY <1>1, <1>2, <1>3, StepEffect DEF BookInv, Effect, BeganCreate, BeganUpdate,
     BeganRemove, Fetched, Numbered, Returned, Posted, Quiet

LEMMA BookBegins == Init => Book!Init
BY NoRowTyped DEF Init, Book!Init, Book!Absent, TripsOf

\* Every behaviour of the payroll module is one of a period book, if creations
\* are served one at a time and so are status changes and deletions: a request
\* takes effect at its one writing statement.
THEOREM PayrollImplementsBook ==
    ASSUME OneCreator, OneClerk
    PROVE  Spec => ImplementsBook
<1>1. BookInv /\ [Next]_vars =>
         [Book!Next]_([i \in RunIds |-> [status |-> run[i].status,
                                         items |-> TripsOf(run[i].lines)]])
  BY BookStep
<1>2. BookInv <=> TypeOK /\ Dutiful /\ CreatorView /\ ClerkView
  BY DEF BookInv
<1>3. OneUpdater
  BY DEF OneClerk, OneUpdater, AtMostOne
<1> QED
  BY <1>1, <1>2, <1>3, BookBegins, TypeCorrect, DutifulCorrect, OncePaid, AnnouncedOnce,
     PTL DEF Spec, ImplementsBook, Book!Spec
=============================================================================
