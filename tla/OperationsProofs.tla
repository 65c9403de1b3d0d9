------------------------- MODULE OperationsProofs -------------------------
(***************************************************************************)
(* Theorems about Operations, for any slots, duties, logs and trips, and   *)
(* about the reports drawn from it, for any windows and figures.           *)
(***************************************************************************)
EXTENDS Reporting, Sums

-----------------------------------------------------------------------------
\* The greatest number of a bounded set.

LEMMA MaxExists ==
    ASSUME NEW S \in SUBSET Nat, S # {}, NEW b \in Nat, \A x \in S : x <= b
    PROVE  \E m \in S : \A x \in S : m >= x
<1> DEFINE Above == {n \in Nat : \A x \in S : x <= n}
<1>1. PICK m \in Above : \A n \in Above : m <= n
  <2>1. Above \in SUBSET Nat /\ Above # {}
    OBVIOUS
  <2>2. PICK m \in Above : \A n \in Above : <<n, m>> \notin OpToRel(<, Nat)
    <3> HIDE DEF Above
    <3> QED
      BY <2>1, WFMin, NatLessThanWellFounded, Zenon
  <2>3. \A n \in Above : ~ (n < m)
    BY <2>2 DEF OpToRel
  <2>4. m \in Above /\ \A n \in Above : m <= n
    BY <2>3
  <2> QED
    BY <2>4
<1>2. CASE m \in S
  BY <1>1, <1>2
<1>3. CASE m \notin S
  <2>1. \A x \in S : x < m
    BY <1>1, <1>3
  <2>2. PICK x0 \in S : x0 \in Nat /\ x0 < m
    BY <2>1
  <2>3. m \in Nat /\ m - 1 \in Nat
    BY <1>1, <2>2
  <2>4. \A x \in S : x <= m - 1
    BY <2>1, <2>3
  <2> QED
    BY <1>1, <2>3, <2>4
<1> QED
  BY <1>2, <1>3

\* nextSeq of a bounded set of seqs is a seq above all of them.
LEMMA NextSeqAbove ==
    ASSUME NEW S \in SUBSET Nat, NEW b \in Nat, \A x \in S : x <= b
    PROVE  nextSeq(S) \in Nat /\ \A x \in S : x < nextSeq(S)
<1>0. S \cup {0} \in SUBSET Nat
  OBVIOUS
<1>1. PICK T \in SUBSET Nat : T = S \cup {0}
  BY <1>0
<1>2. \E m \in T : \A x \in T : m >= x
  <2>1. T # {} /\ \A x \in T : x <= b
    BY <1>1
  <2> QED
    BY <2>1, MaxExists
<1>3. PICK m \in Nat : m = Max(T) /\ m \in T /\ \A x \in T : m >= x
  BY <1>2 DEF Max
<1>4. nextSeq(S) = m + 1
  BY <1>1, <1>3 DEF nextSeq
<1>5. \A x \in S : x <= m
  BY <1>1, <1>3
<1> QED
  BY <1>3, <1>4, <1>5

LEMMA IdleTyped == Idle \in Request /\ Idle.pc = "idle"
BY DEF Idle, Request

-----------------------------------------------------------------------------
\* A request holds boundedly many seqs, so that the next one is a number.

Bounded ==
    /\ \E b \in Nat : \A t \in Trips : trip[t].seq <= b
    /\ \A s \in Slots : \E b \in Nat : \A x \in req[s].seqs : x <= b

\* Trips entered are finitely many, ranked by their creation.
Ranked ==
    /\ IsFiniteSet(Ever)
    /\ \A t \in Ever : trip[t].born <= Cardinality(Ever)

TypeInv == TypeOK /\ Bounded /\ Ranked

\* A step that enters no trip, and reads seqs only of trips that are there.
LEMMA TypeKept ==
    ASSUME TypeInv,
           \A t \in Trips : /\ trip'[t].seq = trip[t].seq
                            /\ trip'[t].born = trip[t].born
                            /\ trip'[t].state = "absent" <=> trip[t].state = "absent",
           \A s \in Slots : \/ req'[s].seqs \in {{}, req[s].seqs}
                            \/ \A x \in req'[s].seqs : \E t \in Trips : x = trip[t].seq
    PROVE  Bounded' /\ Ranked'
<1>1. Ever' = Ever
  BY DEF Ever
<1>2. Ranked'
  BY <1>1 DEF TypeInv, Ranked, Ever
<1>3. PICK b \in Nat : \A t \in Trips : trip[t].seq <= b
  BY DEF TypeInv, Bounded
<1>4. \A s \in Slots : \E c \in Nat : \A x \in req'[s].seqs : x <= c
  <2>1. ASSUME NEW s \in Slots
        PROVE  \E c \in Nat : \A x \in req'[s].seqs : x <= c
    <3>1. PICK c \in Nat : \A x \in req[s].seqs : x <= c
      BY DEF TypeInv, Bounded
    <3> QED
      BY <1>3, <3>1
  <2> QED
    BY <2>1
<1>5. \A t \in Trips : trip'[t].seq <= b
  BY <1>3
<1> QED
  BY <1>2, <1>4, <1>5 DEF Bounded

\* Requests a step builds.
LEMMA StartTyped ==
    ASSUME NEW pc \in {"insert", "amend", "confirm", "seqs", "patch", "drop"},
           NEW k \in TruckDays, NEW l \in Logs, NEW t \in Trips, NEW f \in Figures
    PROVE  /\ [Idle EXCEPT !.pc = pc, !.key = k, !.figure = f] \in Request
           /\ [Idle EXCEPT !.pc = pc, !.log = l, !.figure = f] \in Request
           /\ [Idle EXCEPT !.pc = pc, !.trip = t, !.figure = f] \in Request
BY DEF Idle, Request

-----------------------------------------------------------------------------
\* The steps of logs keep the types.
LEMMA LogStepTyped ==
    ASSUME TypeInv, NEW s \in Slots, LogStep(s)
    PROVE  TypeInv'
<1> USE DEF TypeInv, TypeOK
<1>1. SUFFICES /\ TypeOK'
               /\ trip' = trip
               /\ \A x \in Slots : req'[x].seqs \in {{}, req[x].seqs}
  BY TypeKept
<1>2. ASSUME NEW k \in TruckDays, NEW f \in Figures, StartLog(s, k, f)
      PROVE  TypeOK' /\ trip' = trip /\ \A x \in Slots : req'[x].seqs \in {{}, req[x].seqs}
  BY <1>2 DEF StartLog, Idle, Request
<1>3. ASSUME NEW l \in Logs, InsertLog(s, l)
      PROVE  TypeOK' /\ trip' = trip /\ \A x \in Slots : req'[x].seqs \in {{}, req[x].seqs}
  <2>1. [status |-> "draft", key |-> req[s].key, figure |-> req[s].figure] \in LogRow
    BY DEF LogRow, Request
  <2>2. req' \in [Slots -> Request] /\ \A x \in Slots : req'[x].seqs \in {{}, req[x].seqs}
    BY <1>3 DEF InsertLog, Return, Idle, Request
  <2>3. log' \in [Logs -> LogRow]
    BY <1>3, <2>1 DEF InsertLog
  <2> QED
    BY <1>3, <2>2, <2>3 DEF InsertLog
<1>4. CASE LogTaken(s)
  BY <1>4 DEF LogTaken, Request
<1>5. CASE FindLog(s)
  <2>1. PICK l \in Logs : answered' = [answered EXCEPT ![req[s].key] = @ \cup {l}]
    BY <1>5 DEF FindLog, LogsFor
  <2>2. answered' \in [TruckDays -> SUBSET Logs]
    BY <2>1
  <2> QED
    BY <1>5, <2>2 DEF FindLog, Return, Idle, Request
<1>6. ASSUME NEW l \in Logs, NEW f \in Figures, StartAmend(s, l, f)
      PROVE  TypeOK' /\ trip' = trip /\ \A x \in Slots : req'[x].seqs \in {{}, req[x].seqs}
  BY <1>6 DEF StartAmend, Idle, Request
<1>7. CASE AmendLog(s)
  <2>1. \A l \in Logs : [log[l] EXCEPT !.figure = req[s].figure] \in LogRow
    BY DEF LogRow, Request
  <2>2. log' \in [Logs -> LogRow]
    BY <1>7, <2>1 DEF AmendLog
  <2> QED
    BY <1>7, <2>2 DEF AmendLog, Return, Idle, Request
<1>8. ASSUME NEW l \in Logs, StartConfirm(s, l)
      PROVE  TypeOK' /\ trip' = trip /\ \A x \in Slots : req'[x].seqs \in {{}, req[x].seqs}
  BY <1>8 DEF StartConfirm, Idle, Request
<1>9. CASE ConfirmLog(s)
  <2>1. \A l \in Logs : /\ [log[l] EXCEPT !.status = "confirmed"] \in LogRow
                       /\ confirms[l] + 1 \in Nat
    BY DEF LogRow
  <2>2. log' \in [Logs -> LogRow] /\ confirms' \in [Logs -> Nat]
    BY <1>9, <2>1 DEF ConfirmLog
  <2> QED
    BY <1>9, <2>2 DEF ConfirmLog, Return, Idle, Request
<1> QED
  BY <1>2, <1>3, <1>4, <1>5, <1>6, <1>7, <1>8, <1>9 DEF LogStep

\* The insert of a trip: its seq is a number, its rank the new count of trips.
LEMMA InsertTripTyped ==
    ASSUME TypeInv, NEW s \in Slots, NEW t \in Trips, InsertTrip(s, t)
    PROVE  TypeInv'
<1> USE DEF TypeInv, TypeOK
<1> DEFINE n == nextSeq(req[s].seqs)
           row == [state |-> "live", log |-> req[s].log, seq |-> n,
                   born |-> Cardinality(Ever) + 1, figure |-> req[s].figure]
<1>1. n \in Nat
  <2>1. req[s].seqs \in SUBSET Nat /\ \E b \in Nat : \A x \in req[s].seqs : x <= b
    BY DEF Request, Bounded
  <2> QED
    BY <2>1, NextSeqAbove
<1>2. Cardinality(Ever) \in Nat
  BY FS_CardinalityType DEF Ranked
<1>3. row \in TripRow
  <2> HIDE DEF n
  <2> QED
    BY <1>1, <1>2 DEF TripRow, Request
<1>4. trip' = [trip EXCEPT ![t] = row] /\ req' = [req EXCEPT ![s] = Idle]
  BY DEF InsertTrip, Return
<1>5. /\ trip'[t].state = "live" /\ trip'[t].seq = n
      /\ trip'[t].born = Cardinality(Ever) + 1
      /\ \A u \in Trips \ {t} : trip'[u] = trip[u]
  BY <1>4
<1> HIDE DEF row
<1>6. TypeOK'
  BY <1>3, <1>4, IdleTyped DEF InsertTrip
<1>7. Ranked'
  <2>1. Ever' = Ever \cup {t} /\ t \notin Ever
    BY <1>5 DEF Ever, InsertTrip
  <2>2. IsFiniteSet(Ever') /\ Cardinality(Ever') = Cardinality(Ever) + 1
    BY <2>1, FS_AddElement DEF Ranked
  <2>3. \A u \in Ever \ {t} : trip'[u].born \in Nat /\ trip'[u].born <= Cardinality(Ever)
    BY <1>5 DEF Ranked, Ever, TripRow
  <2>4. \A u \in Ever' : trip'[u].born <= Cardinality(Ever')
    BY <1>2, <1>5, <2>1, <2>2, <2>3
  <2> QED
    BY <2>2, <2>4 DEF Ranked
<1>8. Bounded'
  <2>1. PICK b \in Nat : \A u \in Trips : trip[u].seq <= b
    BY DEF Bounded
  <2>2. \A u \in Trips : trip[u].seq \in Nat
    BY DEF TripRow
  <2>3. b + n \in Nat /\ \A u \in Trips : trip'[u].seq <= b + n
    <3> HIDE DEF n
    <3> QED
      BY <1>1, <1>5, <2>1, <2>2
  <2>4. \A x \in Slots : \E c \in Nat : \A y \in req'[x].seqs : y <= c
    BY <1>4 DEF Bounded, Idle
  <2> QED
    BY <2>3, <2>4 DEF Bounded
<1> QED
  BY <1>6, <1>7, <1>8

LEMMA TripStepTyped ==
    ASSUME TypeInv, NEW s \in Slots, TripStep(s)
    PROVE  TypeInv'
<1> USE DEF TypeInv, TypeOK
<1>1. ASSUME NEW l \in Logs, NEW f \in Figures, StartTrip(s, l, f) PROVE TypeInv'
  <2>1. TypeOK' /\ trip' = trip /\ \A x \in Slots : req'[x].seqs \in {{}, req[x].seqs}
    BY <1>1 DEF StartTrip, Idle, Request
  <2> QED
    BY <2>1, TypeKept
<1>2. CASE ReadSeqs(s)
  <2>1. {trip[t].seq : t \in TripsOf(req[s].log)} \in SUBSET Nat
    BY DEF TripsOf, TripRow
  <2>2. TypeOK' /\ trip' = trip
    <3>1. ASSUME NEW S \in SUBSET Nat
          PROVE  [req[s] EXCEPT !.pc = "put", !.seqs = S] \in Request
      BY DEF Request
    <3>2. req' \in [Slots -> Request]
      BY <1>2, <2>1, <3>1 DEF ReadSeqs
    <3> QED
      BY <1>2, <3>2 DEF ReadSeqs
  <2>3. \A x \in Slots : \/ req'[x].seqs \in {{}, req[x].seqs}
                         \/ \A y \in req'[x].seqs : \E t \in Trips : y = trip[t].seq
    <3>1. req'[s].seqs = {trip[t].seq : t \in TripsOf(req[s].log)}
      BY <1>2 DEF ReadSeqs, Request
    <3>2. \A x \in Slots \ {s} : req'[x] = req[x]
      BY <1>2 DEF ReadSeqs
    <3> QED
      BY <3>1, <3>2 DEF TripsOf
  <2> QED
    BY <2>2, <2>3, TypeKept
<1>3. ASSUME NEW t \in Trips, NEW f \in Figures, StartEdit(s, t, f) PROVE TypeInv'
  <2>1. TypeOK' /\ trip' = trip /\ \A x \in Slots : req'[x].seqs \in {{}, req[x].seqs}
    BY <1>3 DEF StartEdit, Idle, Request
  <2> QED
    BY <2>1, TypeKept
<1>4. ASSUME NEW t \in Trips, StartDrop(s, t) PROVE TypeInv'
  <2>1. TypeOK' /\ trip' = trip /\ \A x \in Slots : req'[x].seqs \in {{}, req[x].seqs}
    BY <1>4 DEF StartDrop, Idle, Request
  <2> QED
    BY <2>1, TypeKept
<1>5. CASE PatchTrip(s) \/ DropTrip(s)
  <2>1. /\ trip' \in [Trips -> TripRow]
        /\ \A t \in Trips : /\ trip'[t].seq = trip[t].seq
                            /\ trip'[t].born = trip[t].born
                            /\ trip'[t].state = "absent" <=> trip[t].state = "absent"
    BY <1>5 DEF PatchTrip, DropTrip, TripRow, Request, Live
  <2>2. /\ req' \in [Slots -> Request]
        /\ \A x \in Slots : req'[x].seqs \in {{}, req[x].seqs}
    BY <1>5 DEF PatchTrip, DropTrip, Return, Idle, Request
  <2>3. TypeOK'
    BY <1>5, <2>1, <2>2 DEF PatchTrip, DropTrip
  <2> QED
    BY <2>1, <2>2, <2>3, TypeKept
<1> QED
  BY <1>1, <1>2, <1>3, <1>4, <1>5, InsertTripTyped DEF TripStep

\* One step keeps the types, the bounds and the ranks.
LEMMA TypeInvStep ==
    TypeInv /\ [Next]_vars => TypeInv'
<1> SUFFICES ASSUME TypeInv, [Next]_vars PROVE TypeInv'
  OBVIOUS
<1>1. ASSUME NEW s \in Slots, Fail(s) PROVE TypeInv'
  <2>1. TypeOK' /\ trip' = trip /\ \A x \in Slots : req'[x].seqs \in {{}, req[x].seqs}
    BY <1>1 DEF Fail, Return, Idle, Request, TypeInv, TypeOK
  <2> QED
    BY <2>1, TypeKept DEF TypeInv
<1>2. CASE UNCHANGED vars
  BY <1>2 DEF vars, TypeInv, TypeOK, Bounded, Ranked, Ever
<1> QED
  BY <1>1, <1>2, LogStepTyped, TripStepTyped DEF Next

LEMMA TypeInvInit == Init => TypeInv
<1> SUFFICES ASSUME Init PROVE TypeInv
  OBVIOUS
<1>1. TypeOK
  BY DEF Init, TypeOK, NoLog, NoTrip, Idle, LogRow, TripRow, Request
<1>2. Ever = {}
  BY DEF Init, Ever, NoTrip
<1>3. Ranked
  BY <1>2, FS_EmptySet DEF Ranked
<1>4. Bounded
  BY DEF Init, Bounded, NoTrip, Idle
<1> QED
  BY <1>1, <1>3, <1>4 DEF TypeInv

LEMMA TypeInvCorrect == Spec => []TypeInv
BY TypeInvInit, TypeInvStep, PTL DEF Spec

\* Every variable holds a value of its type.  That a seq is a number rests on
\* the seqs a creation has read being bounded: nextSeq takes their maximum.
THEOREM TypeCorrect == Spec => []TypeOK
BY TypeInvCorrect, PTL DEF TypeInv

-----------------------------------------------------------------------------
\* Requests are what their kinds say, on rows that exist: no log is deleted,
\* and the row of a deleted trip keeps its log.

RowsStay ==
    /\ \A l \in Logs : Opened(l) => Opened(l)' /\ log'[l].key = log[l].key
    /\ \A t \in Ever : t \in Ever' /\ trip'[t].log = trip[t].log

DutifulOf(s) ==
    /\ req[s].pc \in {"insert", "find"} => req[s].key \in TruckDays
    /\ req[s].pc \in {"amend", "confirm", "seqs", "put"} =>
          req[s].log \in Logs /\ Opened(req[s].log)
    /\ req[s].pc \in {"patch", "drop"} => req[s].trip \in Ever
    /\ req[s].pc = "confirm" => "confirm" \in Duties[s]
    /\ req[s].pc \in {"seqs", "put"} => "record" \in Duties[s]

LEMMA RowsStayStep ==
    ASSUME TypeInv, Dutiful, [Next]_vars
    PROVE  RowsStay
<1> USE DEF TypeInv, TypeOK, RowsStay
<1>1. ASSUME log' = log, trip' = trip PROVE RowsStay
  BY <1>1 DEF Opened, Ever
<1>2. ASSUME NEW s \in Slots, NEW l \in Logs, InsertLog(s, l) PROVE RowsStay
  BY <1>2 DEF InsertLog, Opened, Ever
<1>3. ASSUME NEW s \in Slots, AmendLog(s) \/ ConfirmLog(s) PROVE RowsStay
  <2>1. /\ req[s].log \in Logs
        /\ \/ log' = [log EXCEPT ![req[s].log].figure = req[s].figure]
           \/ log' = [log EXCEPT ![req[s].log].status = "confirmed"]
        /\ trip' = trip
    BY <1>3 DEF AmendLog, ConfirmLog, Dutiful
  <2>2. \A l \in Logs : /\ log'[l].key = log[l].key
                        /\ log'[l].status \in {log[l].status, "confirmed"}
    BY <2>1 DEF LogRow
  <2> QED
    BY <2>1, <2>2 DEF Opened, Ever
<1>4. ASSUME NEW s \in Slots, NEW t \in Trips, InsertTrip(s, t) PROVE RowsStay
  BY <1>4 DEF InsertTrip, Opened, Ever
<1>5. ASSUME NEW s \in Slots, PatchTrip(s) \/ DropTrip(s) PROVE RowsStay
  <2>1. /\ log' = log
        /\ \A t \in Trips : /\ trip'[t].log = trip[t].log
                            /\ trip'[t].state = "absent" => trip[t].state = "absent"
    BY <1>5 DEF PatchTrip, DropTrip, TripRow, Live
  <2> QED
    BY <2>1 DEF Opened, Ever
<1> QED
  BY <1>1, <1>2, <1>3, <1>4, <1>5 DEF Next, vars, LogStep, TripStep, StartLog,
     LogTaken, FindLog, StartAmend, StartConfirm, StartTrip, ReadSeqs, StartEdit,
     StartDrop, Fail

\* A request that is not touched, or has ended, stays dutiful.
LEMMA DutifulKept ==
    ASSUME RowsStay, TypeInv, NEW s \in Slots, DutifulOf(s),
           req'[s] = req[s] \/ req'[s].pc = "idle"
    PROVE  DutifulOf(s)'
BY DEF DutifulOf, RowsStay

LEMMA DutifulStep == TypeInv /\ Dutiful /\ [Next]_vars => Dutiful'
<1> SUFFICES ASSUME TypeInv, Dutiful, [Next]_vars PROVE Dutiful'
  OBVIOUS
<1> USE DEF TypeInv, TypeOK
<1>1. RowsStay
  BY RowsStayStep
<1>2. \A l \in Logs : Opened(l)' => log'[l].key \in TruckDays
  <2>1. ASSUME NEW s \in Slots, NEW l \in Logs, InsertLog(s, l)
        PROVE  \A m \in Logs : Opened(m)' => log'[m].key \in TruckDays
    BY <2>1 DEF InsertLog, Opened, Dutiful
  <2>2. ASSUME NEW s \in Slots, AmendLog(s) \/ ConfirmLog(s)
        PROVE  \A m \in Logs : Opened(m)' => Opened(m)
    BY <2>2 DEF AmendLog, ConfirmLog, Opened, Dutiful
  <2>3. CASE log' = log
    BY <2>3 DEF Opened, Dutiful
  <2> QED
    BY <1>1, <2>1, <2>2, <2>3 DEF Next, vars, LogStep, TripStep, StartLog,
       LogTaken, FindLog, StartAmend, StartConfirm, StartTrip, ReadSeqs, StartEdit,
       StartDrop, PatchTrip, DropTrip, InsertTrip, Fail, RowsStay, Dutiful
<1>3. \A t \in Ever' : trip'[t].log \in Logs /\ log'[trip'[t].log].status # "absent"
  <2>0. \A t \in Ever : trip'[t].log \in Logs /\ log'[trip'[t].log].status # "absent"
    BY <1>1 DEF RowsStay, Dutiful, Opened
  <2>1. ASSUME NEW s \in Slots, NEW t \in Trips, InsertTrip(s, t)
        PROVE  \A u \in Ever' : trip'[u].log \in Logs /\ log'[trip'[u].log].status # "absent"
    <3>1. /\ trip'[t].log = req[s].log /\ log' = log
          /\ \A u \in Trips \ {t} : trip'[u] = trip[u]
      BY <2>1 DEF InsertTrip
    <3>2. req[s].log \in Logs /\ log[req[s].log].status # "absent"
      BY <2>1 DEF InsertTrip, Dutiful, Opened
    <3> QED
      BY <2>0, <3>1, <3>2 DEF Ever
  <2>2. ASSUME NEW s \in Slots, PatchTrip(s) \/ DropTrip(s)
        PROVE  Ever' \subseteq Ever
    BY <2>2 DEF PatchTrip, DropTrip, Ever, Live
  <2>3. ASSUME trip' = trip PROVE Ever' \subseteq Ever
    BY <2>3 DEF Ever
  <2>4. \/ trip' = trip
        \/ \E s \in Slots : PatchTrip(s) \/ DropTrip(s) \/ \E t \in Trips : InsertTrip(s, t)
    BY DEF Next, vars, LogStep, TripStep, StartLog, InsertLog, LogTaken, FindLog,
       StartAmend, AmendLog, StartConfirm, ConfirmLog, StartTrip, ReadSeqs,
       StartEdit, StartDrop, Fail
  <2> QED
    BY <2>0, <2>1, <2>2, <2>3, <2>4
<1>4. ASSUME NEW x \in Slots PROVE DutifulOf(x)'
  <2>0. DutifulOf(x)
    BY DEF Dutiful, DutifulOf
  <2>1. CASE req'[x] = req[x] \/ req'[x].pc = "idle"
    BY <1>1, <2>0, <2>1, DutifulKept
  <2>2. ASSUME NEW l \in Logs, NEW f \in Figures,
               StartAmend(x, l, f) \/ StartTrip(x, l, f)
        PROVE  DutifulOf(x)'
    <3>1. /\ req'[x].pc \in {"amend", "seqs"} /\ req'[x].log = l
          /\ req'[x].pc = "seqs" => "record" \in Duties[x]
      BY <2>2 DEF StartAmend, StartTrip, Serves, Idle
    <3>2. Opened(l)'
      BY <2>2 DEF StartAmend, StartTrip, Opened
    <3> QED
      BY <3>1, <3>2 DEF DutifulOf, Opened
  <2>2a. ASSUME NEW l \in Logs, StartConfirm(x, l) PROVE DutifulOf(x)'
    BY <2>2a DEF StartConfirm, Serves, Idle, DutifulOf, Opened
  <2>3. ASSUME NEW k \in TruckDays, NEW f \in Figures, StartLog(x, k, f)
        PROVE  DutifulOf(x)'
    BY <2>3 DEF StartLog, Idle, DutifulOf
  <2>4. CASE LogTaken(x)
    BY <2>0, <2>4 DEF LogTaken, DutifulOf, Request
  <2>5. CASE ReadSeqs(x)
    <3>1. req'[x].pc = "put" /\ req'[x].log = req[x].log
      BY <2>5 DEF ReadSeqs, Request
    <3> QED
      BY <1>1, <2>0, <2>5, <3>1 DEF ReadSeqs, DutifulOf, RowsStay
  <2>6. ASSUME NEW t \in Trips,
               StartDrop(x, t) \/ \E f \in Figures : StartEdit(x, t, f)
        PROVE  DutifulOf(x)'
    <3>1. req'[x].pc \in {"patch", "drop"} /\ req'[x].trip = t
      BY <2>6 DEF StartEdit, StartDrop, Idle
    <3>2. t \in Ever'
      BY <2>6 DEF StartEdit, StartDrop, Live, Ever
    <3> QED
      BY <3>1, <3>2 DEF DutifulOf
  <2>7. ASSUME NEW s \in Slots \ {x}, LogStep(s) \/ TripStep(s) \/ Fail(s)
        PROVE  req'[x] = req[x]
    BY <2>7 DEF LogStep, TripStep, StartLog, InsertLog, LogTaken, FindLog,
       StartAmend, AmendLog, StartConfirm, ConfirmLog, StartTrip, ReadSeqs,
       InsertTrip, StartEdit, PatchTrip, StartDrop, DropTrip, Fail, Return
  <2>8. ASSUME Return(x) PROVE req'[x].pc = "idle"
    BY <2>8, IdleTyped DEF Return
  <2>9. CASE LogStep(x)
    BY <2>1, <2>2, <2>2a, <2>3, <2>4, <2>8, <2>9 DEF LogStep, InsertLog, FindLog,
       AmendLog, ConfirmLog
  <2>10. CASE TripStep(x)
    BY <2>1, <2>2, <2>5, <2>6, <2>8, <2>10 DEF TripStep, InsertTrip, PatchTrip, DropTrip
  <2>11. CASE Fail(x) \/ UNCHANGED vars
    BY <2>1, <2>8, <2>11 DEF Fail, vars
  <2> QED
    BY <2>1, <2>7, <2>9, <2>10, <2>11 DEF Next
<1> QED
  BY <1>2, <1>3, <1>4 DEF Dutiful, DutifulOf, Opened

LEMMA DutifulInit == Init => Dutiful
BY DEF Init, Dutiful, Opened, Ever, NoLog, NoTrip, Idle

LEMMA DutifulCorrect == Spec => []Dutiful
BY DutifulInit, DutifulStep, TypeInvCorrect, PTL DEF Spec

-----------------------------------------------------------------------------
\* One answer per truck and date.

AnswerInv ==
    /\ \A k \in TruckDays : answered[k] \subseteq LogsFor(k)
    /\ \A k \in TruckDays : \A l, m \in LogsFor(k) : l = m
    /\ \A s \in Slots, k \in TruckDays :
          req[s].pc = "find" /\ req[s].key = k => LogsFor(k) # {}

\* Only the insert of a log changes which logs a key has.
LEMMA LogsForKept ==
    ASSUME TypeInv, Dutiful, [Next]_vars,
           ~ \E s \in Slots, l \in Logs : InsertLog(s, l)
    PROVE  \A k \in TruckDays : LogsFor(k)' = LogsFor(k)
<1> USE DEF TypeInv, TypeOK
<1>1. CASE log' = log
  BY <1>1 DEF LogsFor, Opened
<1>2. ASSUME NEW s \in Slots, AmendLog(s) \/ ConfirmLog(s)
      PROVE  \A k \in TruckDays : LogsFor(k)' = LogsFor(k)
  <2>1. /\ req[s].log \in Logs /\ Opened(req[s].log)
        /\ \/ log' = [log EXCEPT ![req[s].log].figure = req[s].figure]
           \/ log' = [log EXCEPT ![req[s].log].status = "confirmed"]
    BY <1>2 DEF AmendLog, ConfirmLog, Dutiful
  <2>2. \A l \in Logs : log'[l].key = log[l].key /\ (Opened(l)' <=> Opened(l))
    BY <2>1 DEF LogRow, Opened
  <2> QED
    BY <2>2 DEF LogsFor
<1> QED
  BY <1>1, <1>2 DEF Next, vars, LogStep, TripStep, StartLog,
     LogTaken, FindLog, StartAmend, StartConfirm, StartTrip, ReadSeqs, StartEdit,
     StartDrop, InsertTrip, PatchTrip, DropTrip, Fail

LEMMA InsertLogAnswers ==
    ASSUME TypeInv, Dutiful, AnswerInv, NEW s \in Slots, NEW l \in Logs, InsertLog(s, l)
    PROVE  AnswerInv'
<1> USE DEF TypeInv, TypeOK
<1>1. PICK k \in TruckDays : k = req[s].key
  BY DEF InsertLog, Dutiful
<1>2. /\ LogsFor(k) = {} /\ LogsFor(k)' = {l}
      /\ \A j \in TruckDays \ {k} : LogsFor(j)' = LogsFor(j)
  BY <1>1 DEF InsertLog, LogsFor, Opened
<1>3. answered' = [answered EXCEPT ![k] = @ \cup {l}]
  BY <1>1 DEF InsertLog
<1>4. \A x \in Slots : req'[x].pc = "find" => req'[x] = req[x]
  BY IdleTyped DEF InsertLog, Return
<1>5. ASSUME NEW x \in Slots, NEW j \in TruckDays, req'[x].pc = "find", req'[x].key = j
      PROVE  LogsFor(j)' # {}
  <2>1. LogsFor(j) # {}
    BY <1>4, <1>5 DEF AnswerInv
  <2> QED
    BY <1>2, <2>1
<1>6. \A j \in TruckDays : answered'[j] \subseteq LogsFor(j)'
  BY <1>2, <1>3 DEF AnswerInv
<1>7. \A j \in TruckDays : \A m, n \in LogsFor(j)' : m = n
  BY <1>2 DEF AnswerInv
<1> QED
  BY <1>5, <1>6, <1>7 DEF AnswerInv

\* All creations of the log of one truck and date are answered with one log,
\* however many race, and the look for it after a refused insert finds it
\* (operations.service.ts, createLog).
THEOREM LogsAnswered == Spec => []OneAnswer
<1>1. Init => AnswerInv
  BY DEF Init, AnswerInv, LogsFor, Opened, NoLog, Idle
<1>2. TypeInv /\ Dutiful /\ AnswerInv /\ [Next]_vars => AnswerInv'
  <2> SUFFICES ASSUME TypeInv, Dutiful, AnswerInv, [Next]_vars PROVE AnswerInv'
    OBVIOUS
  <2> USE DEF TypeInv, TypeOK
  <2>1. CASE \E s \in Slots, l \in Logs : InsertLog(s, l)
    BY <2>1, InsertLogAnswers
  <2>2. CASE ~ \E s \in Slots, l \in Logs : InsertLog(s, l)
    <3>1. \A k \in TruckDays : LogsFor(k)' = LogsFor(k)
      BY <2>2, LogsForKept
    <3>2. \A k \in TruckDays : answered'[k] \subseteq LogsFor(k)
      <4>1. ASSUME NEW s \in Slots, FindLog(s)
            PROVE  \A k \in TruckDays : answered'[k] \subseteq LogsFor(k)
        <5>1. PICK l \in LogsFor(req[s].key) :
                 answered' = [answered EXCEPT ![req[s].key] = @ \cup {l}]
          BY <4>1 DEF FindLog
        <5> QED
          BY <5>1 DEF AnswerInv
      <4>2. CASE answered' = answered
        BY <4>2 DEF AnswerInv
      <4> QED
        BY <2>2, <4>1, <4>2 DEF Next, vars, LogStep, TripStep, StartLog, LogTaken,
           StartAmend, AmendLog, StartConfirm, ConfirmLog, StartTrip, ReadSeqs,
           InsertTrip, StartEdit, PatchTrip, StartDrop, DropTrip, Fail
    <3>3. ASSUME NEW x \in Slots
          PROVE  \/ req'[x] = req[x]
                 \/ req'[x].pc # "find"
                 \/ req'[x].key = req[x].key /\ LogsFor(req[x].key) # {}
      <4>1. ASSUME NEW s \in Slots, Return(s)
            PROVE  req'[x] = req[x] \/ req'[x].pc # "find"
        BY <4>1, IdleTyped DEF Return
      <4>2. ASSUME NEW s \in Slots, LogTaken(s)
            PROVE  req'[x] = req[x] \/ (req'[x].key = req[x].key /\ LogsFor(req[x].key) # {})
        BY <4>2 DEF LogTaken, Request
      <4>3. ASSUME NEW s \in Slots, ReadSeqs(s)
            PROVE  req'[x] = req[x] \/ req'[x].pc # "find"
        BY <4>3 DEF ReadSeqs, Request
      <4>4. ASSUME NEW s \in Slots, NEW l \in Logs,
                   \/ StartConfirm(s, l)
                   \/ \E f \in Figures : StartAmend(s, l, f) \/ StartTrip(s, l, f)
            PROVE  req'[x] = req[x] \/ req'[x].pc # "find"
        BY <4>4 DEF StartAmend, StartConfirm, StartTrip, Idle
      <4>5. ASSUME NEW s \in Slots, NEW t \in Trips,
                   StartDrop(s, t) \/ \E f \in Figures : StartEdit(s, t, f)
            PROVE  req'[x] = req[x] \/ req'[x].pc # "find"
        BY <4>5 DEF StartDrop, StartEdit, Idle
      <4>6. ASSUME NEW s \in Slots, NEW k \in TruckDays, NEW f \in Figures, StartLog(s, k, f)
            PROVE  req'[x] = req[x] \/ req'[x].pc # "find"
        BY <4>6 DEF StartLog, Idle
      <4> QED
        BY <2>2, <4>1, <4>2, <4>3, <4>4, <4>5, <4>6 DEF Next, vars, LogStep, TripStep,
           FindLog, AmendLog, ConfirmLog, InsertTrip, PatchTrip, DropTrip, Fail
    <3>4. ASSUME NEW x \in Slots, NEW k \in TruckDays,
                 req'[x].pc = "find", req'[x].key = k
          PROVE  LogsFor(k) # {}
      BY <3>3, <3>4 DEF AnswerInv
    <3> QED
      BY <3>1, <3>2, <3>4 DEF AnswerInv
  <2> QED
    BY <2>1, <2>2
<1>3. Dutiful /\ AnswerInv => OneAnswer
  BY DEF Dutiful, AnswerInv, OneAnswer
<1> QED
  BY <1>1, <1>2, <1>3, TypeInvCorrect, DutifulCorrect, PTL DEF Spec

-----------------------------------------------------------------------------
\* Seqs.

SeqInv == RecorderView /\ SeqsOrderTrips

\* A step that only takes trips away keeps the order, and the view of each
\* creation that it leaves alone or ends.
LEMMA SeqsKept ==
    ASSUME TypeInv, SeqInv,
           \A t \in Trips : Live(t)' => /\ Live(t) /\ trip'[t].log = trip[t].log
                                        /\ trip'[t].seq = trip[t].seq
                                        /\ trip'[t].born = trip[t].born
    PROVE  /\ SeqsOrderTrips'
           /\ \A s \in Slots : req'[s] = req[s] \/ req'[s].pc # "put" =>
                (req'[s].pc = "put" =>
                   \A t \in Trips : Live(t)' /\ trip'[t].log = req'[s].log =>
                       trip'[t].seq \in req'[s].seqs)
<1>1. SeqsOrderTrips'
  BY DEF SeqInv, SeqsOrderTrips
<1> QED
  BY <1>1 DEF SeqInv, RecorderView, TripsOf

\* RecorderView, read trip by trip.
LEMMA ViewByTrip ==
    RecorderView <=> \A s \in Slots : req[s].pc = "put" =>
        \A t \in Trips : Live(t) /\ trip[t].log = req[s].log =>
            trip[t].seq \in req[s].seqs
BY DEF RecorderView, TripsOf

LEMMA InsertTripOrders ==
    ASSUME OneRecorder, TypeInv, Dutiful, SeqInv,
           NEW s \in Slots, NEW t \in Trips, InsertTrip(s, t)
    PROVE  SeqInv'
<1> USE DEF TypeInv, TypeOK
<1>1. \A x \in Slots : req'[x].pc # "put"
  BY IdleTyped DEF InsertTrip, Return, OneRecorder, AtMostOne, Dutiful
<1>2. RecorderView'
  BY <1>1 DEF RecorderView
<1>3. /\ trip'[t].log = req[s].log /\ trip'[t].seq = nextSeq(req[s].seqs)
      /\ trip'[t].born = Cardinality(Ever) + 1
      /\ \A u \in Trips \ {t} : trip'[u] = trip[u]
  BY DEF InsertTrip
<1>4. \A x \in req[s].seqs : x < nextSeq(req[s].seqs)
  <2>1. req[s].seqs \in SUBSET Nat /\ \E b \in Nat : \A x \in req[s].seqs : x <= b
    BY DEF Request, Bounded
  <2> QED
    BY <2>1, NextSeqAbove
<1>5. \A u \in Trips \ {t} : Live(u) /\ trip[u].log = req[s].log =>
         trip[u].seq < nextSeq(req[s].seqs)
  BY <1>4, ViewByTrip DEF SeqInv, InsertTrip
<1>6. \A u \in Trips \ {t} : Live(u) => trip[u].born < Cardinality(Ever) + 1
  <2>1. Cardinality(Ever) \in Nat
    BY FS_CardinalityType DEF Ranked
  <2> QED
    BY <2>1 DEF Ranked, Live, Ever, TripRow
<1>7. ASSUME NEW u \in Trips, NEW v \in Trips, Live(u)', Live(v)',
             trip'[u].log = trip'[v].log, trip'[u].born < trip'[v].born
      PROVE  trip'[u].seq < trip'[v].seq
  <2>1. CASE u # t /\ v # t
    BY <1>3, <1>7, <2>1 DEF SeqInv, SeqsOrderTrips, Live
  <2>2. CASE u # t /\ v = t
    BY <1>3, <1>5, <1>7, <2>2 DEF Live
  <2>3. CASE u = t /\ v # t
    <3>1. trip'[v].born < trip'[u].born
      BY <1>3, <1>6, <1>7, <2>3 DEF Live
    <3>2. trip[v].born \in Nat /\ Cardinality(Ever) \in Nat
      BY FS_CardinalityType DEF Ranked, TripRow
    <3> QED
      BY <1>3, <1>7, <2>3, <3>1, <3>2
  <2>4. CASE u = t /\ v = t
    <3>1. trip'[u].born \in Nat
      BY <1>3, <2>4, FS_CardinalityType DEF Ranked
    <3> QED
      BY <1>7, <2>4, <3>1
  <2> QED
    BY <2>1, <2>2, <2>3, <2>4
<1>8. SeqsOrderTrips'
  BY <1>7 DEF SeqsOrderTrips
<1> QED
  BY <1>2, <1>8 DEF SeqInv

\* One trip recorded at a time, seqs number the trips of a log in the order
\* of their creation, whatever is deleted (operations.service.ts, createTrip).
THEOREM SeqsInOrder ==
    ASSUME OneRecorder
    PROVE  Spec => [](SeqsOrderTrips /\ RecorderView)
<1>1. Init => SeqInv
  BY DEF Init, SeqInv, SeqsOrderTrips, RecorderView, Live, NoTrip, Idle
<1>2. TypeInv /\ Dutiful /\ SeqInv /\ [Next]_vars => SeqInv'
  <2> SUFFICES ASSUME TypeInv, Dutiful, SeqInv, [Next]_vars PROVE SeqInv'
    OBVIOUS
  <2> USE DEF TypeInv, TypeOK
  <2>1. CASE \E s \in Slots, t \in Trips : InsertTrip(s, t)
    BY <2>1, InsertTripOrders
  <2>2. ASSUME NEW s \in Slots, ReadSeqs(s) PROVE SeqInv'
    <3>1. \A t \in Trips : Live(t)' => Live(t) /\ trip'[t] = trip[t]
      BY <2>2 DEF ReadSeqs, Live
    <3>2. /\ req'[s].seqs = {trip[t].seq : t \in TripsOf(req[s].log)}
          /\ req'[s].log = req[s].log
          /\ \A x \in Slots \ {s} : req'[x] = req[x]
      BY <2>2 DEF ReadSeqs, Request
    <3>3. SeqsOrderTrips'
      BY <3>1, SeqsKept
    <3>4. ASSUME NEW x \in Slots, req'[x].pc = "put", NEW t \in Trips,
                 Live(t)', trip'[t].log = req'[x].log
          PROVE  trip'[t].seq \in req'[x].seqs
      <4>1. CASE x = s
        BY <3>1, <3>2, <3>4, <4>1 DEF TripsOf
      <4>2. CASE x # s
        BY <3>1, <3>2, <3>4, <4>2, ViewByTrip DEF SeqInv
      <4> QED
        BY <4>1, <4>2
    <3>5. RecorderView'
      BY <3>4 DEF RecorderView, TripsOf
    <3> QED
      BY <3>3, <3>5 DEF SeqInv
  <2>3. CASE ~ \E s \in Slots : ReadSeqs(s) \/ \E t \in Trips : InsertTrip(s, t)
    <3>1. \A t \in Trips : Live(t)' => /\ Live(t) /\ trip'[t].log = trip[t].log
                                      /\ trip'[t].seq = trip[t].seq
                                      /\ trip'[t].born = trip[t].born
      <4>1. ASSUME NEW s \in Slots, PatchTrip(s) \/ DropTrip(s)
            PROVE  \A t \in Trips : /\ trip'[t].state \in {trip[t].state, "deleted"}
                                    /\ trip'[t].log = trip[t].log
                                    /\ trip'[t].seq = trip[t].seq
                                    /\ trip'[t].born = trip[t].born
        BY <4>1 DEF PatchTrip, DropTrip, TripRow
      <4>2. CASE trip' = trip
        BY <4>2 DEF Live
      <4> QED
        BY <2>3, <4>1, <4>2 DEF Next, vars, LogStep, TripStep, StartLog, InsertLog,
           LogTaken, FindLog, StartAmend, AmendLog, StartConfirm, ConfirmLog,
           StartTrip, StartEdit, StartDrop, Fail, Live
    <3>2. ASSUME NEW x \in Slots PROVE req'[x] = req[x] \/ req'[x].pc # "put"
      <4>1. ASSUME NEW s \in Slots, Return(s) PROVE req'[x] = req[x] \/ req'[x].pc # "put"
        BY <4>1, IdleTyped DEF Return
      <4>2. ASSUME NEW s \in Slots, LogTaken(s) PROVE req'[x] = req[x] \/ req'[x].pc # "put"
        BY <4>2 DEF LogTaken, Request
      <4>3. ASSUME NEW s \in Slots, NEW l \in Logs,
                   \/ StartConfirm(s, l)
                   \/ \E f \in Figures : StartAmend(s, l, f) \/ StartTrip(s, l, f)
            PROVE  req'[x] = req[x] \/ req'[x].pc # "put"
        BY <4>3 DEF StartAmend, StartConfirm, StartTrip, Idle
      <4>4. ASSUME NEW s \in Slots, NEW t \in Trips,
                   StartDrop(s, t) \/ \E f \in Figures : StartEdit(s, t, f)
            PROVE  req'[x] = req[x] \/ req'[x].pc # "put"
        BY <4>4 DEF StartDrop, StartEdit, Idle
      <4>5. ASSUME NEW s \in Slots, NEW k \in TruckDays, NEW f \in Figures, StartLog(s, k, f)
            PROVE  req'[x] = req[x] \/ req'[x].pc # "put"
        BY <4>5 DEF StartLog, Idle
      <4> QED
        BY <2>3, <4>1, <4>2, <4>3, <4>4, <4>5 DEF Next, vars, LogStep, TripStep,
           InsertLog, FindLog, AmendLog, ConfirmLog, PatchTrip, DropTrip, Fail
    <3>3. SeqsOrderTrips'
      BY <3>1, SeqsKept
    <3>4. RecorderView'
      BY <3>1, <3>2, SeqsKept DEF RecorderView, TripsOf
    <3> QED
      BY <3>3, <3>4 DEF SeqInv
  <2> QED
    BY <2>1, <2>2, <2>3
<1>3. SeqInv <=> RecorderView /\ SeqsOrderTrips
  BY DEF SeqInv
<1> QED
  BY <1>1, <1>2, <1>3, TypeInvCorrect, DutifulCorrect, PTL DEF Spec

-----------------------------------------------------------------------------
\* A trip is entered once, keeps its log and seq, and deleted stays deleted,
\* whatever edits and deletions overlap: what billing and payroll take for
\* granted of the trips they read (operations.service.ts, updateTrip,
\* deleteTrip).
THEOREM TripsLive == Spec => TripLife
<1>1. TypeInv /\ Dutiful /\ [Next]_vars =>
         [\A t \in Trips :
            /\ Live(t) => trip'[t].log = trip[t].log /\ trip'[t].seq = trip[t].seq
            /\ trip[t].state = "deleted" => trip'[t] = trip[t]
            /\ trip'[t].state = "live" =>
                  trip'[t].log \in Logs /\ log[trip'[t].log].key \in TruckDays]_vars
  <2> SUFFICES ASSUME TypeInv, Dutiful, [Next]_vars, NEW t \in Trips
               PROVE  /\ Live(t) => trip'[t].log = trip[t].log /\ trip'[t].seq = trip[t].seq
                      /\ trip[t].state = "deleted" => trip'[t] = trip[t]
                      /\ trip'[t].state = "live" =>
                            trip'[t].log \in Logs /\ log[trip'[t].log].key \in TruckDays
    OBVIOUS
  <2> USE DEF TypeInv, TypeOK
  <2>1. Live(t) => trip[t].log \in Logs /\ log[trip[t].log].key \in TruckDays
    BY DEF Dutiful, Live, Ever
  <2>2. CASE trip' = trip
    BY <2>1, <2>2 DEF Live
  <2>3. ASSUME NEW s \in Slots, NEW u \in Trips, InsertTrip(s, u)
        PROVE  \/ trip'[t] = trip[t]
               \/ /\ trip[t].state = "absent"
                  /\ trip'[t].log \in Logs /\ log[trip'[t].log].key \in TruckDays
    BY <2>3 DEF InsertTrip, Dutiful
  <2>4. ASSUME NEW s \in Slots, PatchTrip(s) \/ DropTrip(s)
        PROVE  \/ trip'[t] = trip[t]
               \/ Live(t) /\ trip'[t].log = trip[t].log /\ trip'[t].seq = trip[t].seq
    BY <2>4 DEF PatchTrip, DropTrip, TripRow
  <2>5. \/ trip' = trip
        \/ \E s \in Slots : PatchTrip(s) \/ DropTrip(s) \/ \E u \in Trips : InsertTrip(s, u)
    BY DEF Next, vars, LogStep, TripStep, StartLog, InsertLog, LogTaken, FindLog,
       StartAmend, AmendLog, StartConfirm, ConfirmLog, StartTrip, ReadSeqs,
       StartEdit, StartDrop, Fail
  <2> QED
    BY <2>1, <2>2, <2>3, <2>4, <2>5 DEF Live
<1> QED
  BY <1>1, TypeInvCorrect, DutifulCorrect, PTL DEF Spec, TripLife

-----------------------------------------------------------------------------
\* Confirmation.

ConfirmInv ==
    /\ ConfirmedOnce
    /\ \A s \in Slots : req[s].pc = "confirm" => confirms[req[s].log] = 0

\* One confirmation at a time, a log is confirmed once and for good, whatever
\* amendments overlap (operations.service.ts, confirmLog, updateLog).
THEOREM OnceConfirmed ==
    ASSUME OneConfirmer
    PROVE  Spec => []ConfirmedOnce
<1>1. Init => ConfirmInv
  BY DEF Init, ConfirmInv, ConfirmedOnce, NoLog, Idle
<1>2. TypeInv /\ Dutiful /\ ConfirmInv /\ [Next]_vars => ConfirmInv'
  <2> SUFFICES ASSUME TypeInv, Dutiful, ConfirmInv, [Next]_vars PROVE ConfirmInv'
    OBVIOUS
  <2> USE DEF TypeInv, TypeOK
  <2>1. ASSUME NEW s \in Slots, ConfirmLog(s) PROVE ConfirmInv'
    <3>1. PICK l \in Logs : l = req[s].log
      BY <2>1 DEF ConfirmLog, Dutiful
    <3>2. \A x \in Slots : req'[x].pc # "confirm"
      BY <2>1, IdleTyped DEF ConfirmLog, Return, Dutiful, OneConfirmer, AtMostOne
    <3>3. confirms[l] = 0
      BY <2>1, <3>1 DEF ConfirmLog, ConfirmInv
    <3>4. /\ log'[l].status = "confirmed" /\ confirms'[l] = 1
          /\ \A m \in Logs \ {l} : log'[m] = log[m] /\ confirms'[m] = confirms[m]
      BY <2>1, <3>1, <3>3 DEF ConfirmLog, LogRow
    <3> QED
      BY <3>2, <3>4 DEF ConfirmInv, ConfirmedOnce
  <2>2. ASSUME ~ \E s \in Slots : ConfirmLog(s) PROVE ConfirmInv'
    <3>1. confirms' = confirms
      BY <2>2 DEF Next, vars, LogStep, TripStep, StartLog, InsertLog, LogTaken,
         FindLog, StartAmend, AmendLog, StartConfirm, StartTrip, ReadSeqs, InsertTrip,
         StartEdit, PatchTrip, StartDrop, DropTrip, Fail
    <3>2. ASSUME NEW l \in Logs
          PROVE  log'[l].status = "confirmed" <=> log[l].status = "confirmed"
      <4>1. ASSUME NEW s \in Slots, NEW m \in Logs, InsertLog(s, m)
            PROVE  log'[l].status = "confirmed" <=> log[l].status = "confirmed"
        BY <4>1 DEF InsertLog, Opened
      <4>2. ASSUME NEW s \in Slots, AmendLog(s)
            PROVE  log'[l].status = log[l].status
        BY <4>2 DEF AmendLog, LogRow
      <4>3. CASE log' = log
        BY <4>3
      <4> QED
        BY <2>2, <4>1, <4>2, <4>3 DEF Next, vars, LogStep, TripStep, StartLog, LogTaken,
           FindLog, StartAmend, StartConfirm, StartTrip, ReadSeqs, InsertTrip,
           StartEdit, PatchTrip, StartDrop, DropTrip, Fail
    <3>3. ASSUME NEW x \in Slots, req'[x].pc = "confirm"
          PROVE  req'[x].log \in Logs /\ confirms[req'[x].log] = 0
      <4>1. CASE req'[x] = req[x]
        BY <3>3, <4>1 DEF ConfirmInv, Dutiful
      <4>2. ASSUME NEW l \in Logs, StartConfirm(x, l)
            PROVE  req'[x].log \in Logs /\ confirms[req'[x].log] = 0
        BY <4>2 DEF StartConfirm, Idle, ConfirmInv, ConfirmedOnce
      <4>3. req'[x] = req[x] \/ \E l \in Logs : StartConfirm(x, l)
        <5>1. ASSUME NEW s \in Slots, Return(s) PROVE req'[x] = req[x]
          BY <3>3, <5>1, IdleTyped DEF Return
        <5>2. ASSUME NEW s \in Slots, LogTaken(s) \/ ReadSeqs(s) PROVE req'[x] = req[x]
          BY <3>3, <5>2 DEF LogTaken, ReadSeqs, Request
        <5>3. ASSUME NEW s \in Slots, NEW l \in Logs, NEW f \in Figures,
                     StartAmend(s, l, f) \/ StartTrip(s, l, f)
              PROVE  req'[x] = req[x]
          BY <3>3, <5>3 DEF StartAmend, StartTrip, Idle
        <5>4. ASSUME NEW s \in Slots, NEW t \in Trips,
                     StartDrop(s, t) \/ \E f \in Figures : StartEdit(s, t, f)
              PROVE  req'[x] = req[x]
          BY <3>3, <5>4 DEF StartDrop, StartEdit, Idle
        <5>5. ASSUME NEW s \in Slots, NEW k \in TruckDays, NEW f \in Figures, StartLog(s, k, f)
              PROVE  req'[x] = req[x]
          BY <3>3, <5>5 DEF StartLog, Idle
        <5>6. ASSUME NEW s \in Slots, NEW l \in Logs, StartConfirm(s, l)
              PROVE  req'[x] = req[x] \/ s = x
          BY <5>6 DEF StartConfirm
        <5> QED
          BY <2>2, <5>1, <5>2, <5>3, <5>4, <5>5, <5>6 DEF Next, vars, LogStep, TripStep,
             InsertLog, FindLog, AmendLog, InsertTrip, PatchTrip, DropTrip, Fail
      <4> QED
        BY <4>1, <4>2, <4>3
    <3> QED
      BY <3>1, <3>2, <3>3 DEF ConfirmInv, ConfirmedOnce
  <2> QED
    BY <2>1, <2>2
<1>3. ConfirmInv => ConfirmedOnce
  BY DEF ConfirmInv
<1> QED
  BY <1>1, <1>2, <1>3, TypeInvCorrect, DutifulCorrect, PTL DEF Spec

-----------------------------------------------------------------------------
\* What the reports read: rows made of figures, finitely many of them.

Figured ==
    /\ \A t \in Ever : trip[t].figure \in Figures
    /\ \A l \in Logs : Opened(l) => log[l].figure \in Figures
    /\ \A s \in Slots :
          req[s].pc \in {"insert", "amend", "seqs", "put", "patch"} =>
              req[s].figure \in Figures

CostRow == [truck : Trucks \cup {None}, date : Dates \cup {0}, amount : Amounts \cup {0}]

OpenedLogs   == {l \in Logs : Opened(l)}
EnteredCosts == {c \in Costs : Entered(c)}

Readable ==
    /\ Figured
    /\ IsFiniteSet(OpenedLogs)
    /\ cost \in [Costs -> CostRow]
    /\ IsFiniteSet(EnteredCosts)

\* A request is begun with a figure and keeps it to its end.
LEMMA FigureAsked ==
    ASSUME TypeInv, Figured, [Next]_vars, NEW s \in Slots,
           req'[s].pc \in {"insert", "amend", "seqs", "put", "patch"}
    PROVE  req'[s].figure \in Figures
<1> USE DEF TypeInv, TypeOK
<1>1. CASE req'[s] = req[s]
  BY <1>1 DEF Figured
<1>2. ASSUME NEW x \in Slots, x # s, LogStep(x) \/ TripStep(x) \/ Fail(x)
      PROVE  req'[s] = req[s]
  BY <1>2 DEF LogStep, TripStep, StartLog, InsertLog, LogTaken, FindLog, StartAmend,
     AmendLog, StartConfirm, ConfirmLog, StartTrip, ReadSeqs, InsertTrip, StartEdit,
     PatchTrip, StartDrop, DropTrip, Fail, Return
<1>3. CASE req'[s].pc = "idle"
  BY <1>3
<1>4. ASSUME \/ \E k \in TruckDays, f \in Figures : StartLog(s, k, f)
             \/ \E l \in Logs, f \in Figures : StartAmend(s, l, f) \/ StartTrip(s, l, f)
             \/ \E t \in Trips, f \in Figures : StartEdit(s, t, f)
      PROVE  req'[s].figure \in Figures
  <2>1. ASSUME NEW k \in TruckDays, NEW f \in Figures, StartLog(s, k, f)
        PROVE  req'[s].figure \in Figures
    BY <2>1 DEF StartLog, Idle
  <2>2. ASSUME NEW l \in Logs, NEW f \in Figures, StartAmend(s, l, f) \/ StartTrip(s, l, f)
        PROVE  req'[s].figure \in Figures
    BY <2>2 DEF StartAmend, StartTrip, Idle
  <2>3. ASSUME NEW t \in Trips, NEW f \in Figures, StartEdit(s, t, f)
        PROVE  req'[s].figure \in Figures
    BY <2>3 DEF StartEdit, Idle
  <2> QED
    BY <1>4, <2>1, <2>2, <2>3
<1>5. ASSUME ReadSeqs(s)
      PROVE  req[s].pc = "seqs" /\ req'[s].figure = req[s].figure
  BY <1>5 DEF ReadSeqs, Request
<1>6. ASSUME \/ LogTaken(s)
             \/ \E l \in Logs : StartConfirm(s, l)
             \/ \E t \in Trips : StartDrop(s, t)
      PROVE  FALSE
  <2>1. CASE LogTaken(s)
    BY <2>1 DEF LogTaken, Request
  <2>2. ASSUME NEW l \in Logs, StartConfirm(s, l) PROVE FALSE
    BY <2>2 DEF StartConfirm, Idle
  <2>3. ASSUME NEW t \in Trips, StartDrop(s, t) PROVE FALSE
    BY <2>3 DEF StartDrop, Idle
  <2> QED
    BY <1>6, <2>1, <2>2, <2>3
<1>7. ASSUME \/ FindLog(s) \/ AmendLog(s) \/ ConfirmLog(s) \/ PatchTrip(s) \/ DropTrip(s)
             \/ Fail(s)
             \/ \E l \in Logs : InsertLog(s, l)
             \/ \E t \in Trips : InsertTrip(s, t)
      PROVE  req'[s].pc = "idle"
  BY <1>7, IdleTyped DEF FindLog, AmendLog, ConfirmLog, PatchTrip, DropTrip, Fail,
     InsertLog, InsertTrip, Return
<1>8. CASE UNCHANGED vars
  BY <1>1, <1>8 DEF vars
<1>9. CASE \E x \in Slots : x # s /\ (LogStep(x) \/ TripStep(x) \/ Fail(x))
  BY <1>1, <1>2, <1>9
<1>10. CASE LogStep(s) \/ TripStep(s) \/ Fail(s)
  BY <1>3, <1>4, <1>5, <1>6, <1>7, <1>10 DEF LogStep, TripStep, Figured
<1> QED
  BY <1>8, <1>9, <1>10 DEF Next

\* What is written is the figure asked for; a row once there stays.
LEMMA FiguredStep ==
    ASSUME TypeInv, Dutiful, Figured, IsFiniteSet(OpenedLogs), [Next]_vars
    PROVE  Figured' /\ IsFiniteSet(OpenedLogs)'
<1> USE DEF TypeInv, TypeOK
<1>1. ASSUME log' = log
      PROVE  /\ \A l \in Logs : Opened(l)' => log'[l].figure \in Figures
             /\ IsFiniteSet(OpenedLogs)'
  BY <1>1 DEF Figured, Opened, OpenedLogs
<1>2. ASSUME trip' = trip PROVE \A t \in Ever' : trip'[t].figure \in Figures
  BY <1>2 DEF Figured, Ever
<1>3. ASSUME NEW s \in Slots, NEW l \in Logs, InsertLog(s, l)
      PROVE  /\ \A x \in Logs : Opened(x)' => log'[x].figure \in Figures
             /\ IsFiniteSet(OpenedLogs)'
  <2>1. req[s].figure \in Figures
    BY <1>3 DEF InsertLog, Figured
  <2>2. /\ log'[l].figure = req[s].figure /\ \A x \in Logs \ {l} : log'[x] = log[x]
    BY <1>3 DEF InsertLog
  <2>3. OpenedLogs' \subseteq OpenedLogs \cup {l}
    BY <2>2 DEF OpenedLogs, Opened
  <2>4. IsFiniteSet(OpenedLogs \cup {l})
    BY FS_AddElement DEF Readable
  <2>5. IsFiniteSet(OpenedLogs)'
    BY <2>3, <2>4, FS_Subset
  <2> QED
    BY <2>1, <2>2, <2>5 DEF Figured, Opened
<1>4. ASSUME NEW s \in Slots, AmendLog(s) \/ ConfirmLog(s)
      PROVE  /\ \A x \in Logs : Opened(x)' => log'[x].figure \in Figures
             /\ IsFiniteSet(OpenedLogs)'
  <2>1. /\ req[s].log \in Logs /\ Opened(req[s].log)
        /\ req[s].pc = "amend" => req[s].figure \in Figures
        /\ \/ /\ req[s].pc = "amend"
              /\ log' = [log EXCEPT ![req[s].log].figure = req[s].figure]
           \/ log' = [log EXCEPT ![req[s].log].status = "confirmed"]
    BY <1>4 DEF AmendLog, ConfirmLog, Dutiful, Figured
  <2>2. \A x \in Logs : /\ Opened(x)' => Opened(x)
                        /\ log'[x].figure = log[x].figure \/ log'[x].figure \in Figures
    BY <2>1 DEF LogRow, Opened
  <2>3. OpenedLogs' \subseteq OpenedLogs
    BY <2>2 DEF OpenedLogs
  <2>4. IsFiniteSet(OpenedLogs)'
    BY <2>3, FS_Subset
  <2> QED
    BY <2>2, <2>4 DEF Figured
<1>5. ASSUME NEW s \in Slots,
             \/ \E t \in Trips : InsertTrip(s, t)
             \/ PatchTrip(s) \/ DropTrip(s)
      PROVE  \A t \in Ever' : trip'[t].figure \in Figures
  <2>1. CASE \E t \in Trips : InsertTrip(s, t)
    BY <2>1 DEF InsertTrip, Figured, Ever
  <2>2. CASE PatchTrip(s)
    <3>1. /\ req[s].trip \in Ever /\ req[s].figure \in Figures
          /\ trip' = [trip EXCEPT ![req[s].trip].figure = req[s].figure] \/ trip' = trip
      BY <2>2 DEF PatchTrip, Dutiful, Figured
    <3>2. \A t \in Trips : /\ trip'[t].state = trip[t].state
                           /\ trip'[t].figure \in {trip[t].figure, req[s].figure}
      BY <3>1 DEF TripRow, Ever
    <3> QED
      BY <3>1, <3>2 DEF Figured, Ever
  <2>3. CASE DropTrip(s)
    <3>1. /\ req[s].trip \in Ever
          /\ trip' = [trip EXCEPT ![req[s].trip].state = "deleted"] \/ trip' = trip
      BY <2>3 DEF DropTrip, Dutiful
    <3>2. \A t \in Trips : /\ trip'[t].state = "absent" <=> trip[t].state = "absent"
                           /\ trip'[t].figure = trip[t].figure
      BY <3>1 DEF TripRow, Ever
    <3> QED
      BY <3>2 DEF Figured, Ever
  <2> QED
    BY <1>5, <2>1, <2>2, <2>3
<1>6. \/ log' = log
      \/ \E s \in Slots : AmendLog(s) \/ ConfirmLog(s) \/ \E l \in Logs : InsertLog(s, l)
  BY DEF Next, vars, LogStep, TripStep, StartLog, LogTaken, FindLog, StartAmend,
     StartConfirm, StartTrip, ReadSeqs, InsertTrip, StartEdit, PatchTrip, StartDrop,
     DropTrip, Fail
<1>7. \/ trip' = trip
      \/ \E s \in Slots : PatchTrip(s) \/ DropTrip(s) \/ \E t \in Trips : InsertTrip(s, t)
  BY DEF Next, vars, LogStep, TripStep, StartLog, InsertLog, LogTaken, FindLog,
     StartAmend, AmendLog, StartConfirm, ConfirmLog, StartTrip, ReadSeqs, StartEdit,
     StartDrop, Fail
<1>8. /\ \A l \in Logs : Opened(l)' => log'[l].figure \in Figures
      /\ IsFiniteSet(OpenedLogs)'
  BY <1>1, <1>3, <1>4, <1>6
<1>9. \A t \in Ever' : trip'[t].figure \in Figures
  BY <1>2, <1>5, <1>7
<1> QED
  BY <1>8, <1>9, FigureAsked DEF Figured

\* Costs are entered one at a time.
LEMMA CostsTyped ==
    ASSUME cost \in [Costs -> CostRow], IsFiniteSet(EnteredCosts),
           \/ UNCHANGED cost
           \/ \E c \in Costs, k \in Trucks, d \in Dates, a \in Amounts : CreateCost(c, k, d, a)
           \/ \E c \in Costs : RemoveCost(c)
    PROVE  cost' \in [Costs -> CostRow] /\ IsFiniteSet(EnteredCosts)'
<1>1. CASE UNCHANGED cost
  BY <1>1 DEF EnteredCosts, Entered
<1>2. ASSUME NEW c \in Costs, NEW k \in Trucks, NEW d \in Dates, NEW a \in Amounts,
             CreateCost(c, k, d, a)
      PROVE  cost' \in [Costs -> CostRow] /\ IsFiniteSet(EnteredCosts)'
  <2>1. cost' \in [Costs -> CostRow]
    BY <1>2 DEF CreateCost, CostRow
  <2>2. EnteredCosts' \subseteq EnteredCosts \cup {c}
    BY <1>2 DEF CreateCost, EnteredCosts, Entered
  <2>3. IsFiniteSet(EnteredCosts \cup {c})
    BY FS_AddElement
  <2> QED
    BY <2>1, <2>2, <2>3, FS_Subset
<1>3. ASSUME NEW c \in Costs, RemoveCost(c)
      PROVE  cost' \in [Costs -> CostRow] /\ IsFiniteSet(EnteredCosts)'
  <2>1. cost' \in [Costs -> CostRow]
    BY <1>3 DEF RemoveCost, CostRow, NoCost
  <2>2. EnteredCosts' \subseteq EnteredCosts
    BY <1>3 DEF RemoveCost, EnteredCosts, Entered
  <2> QED
    BY <2>1, <2>2, FS_Subset
<1> QED
  BY <1>1, <1>2, <1>3

\* Every step of the program but those on costs and trucks is one of Operations.
LEMMA ReportingStep ==
    [ReportingNext]_reportingVars =>
        /\ [Next]_vars
        /\ \/ UNCHANGED cost
           \/ \E c \in Costs, k \in Trucks, d \in Dates, a \in Amounts : CreateCost(c, k, d, a)
           \/ \E c \in Costs : RemoveCost(c)
<1> SUFFICES ASSUME [ReportingNext]_reportingVars
             PROVE  /\ [Next]_vars
                    /\ \/ UNCHANGED cost
                       \/ \E c \in Costs, k \in Trucks, d \in Dates, a \in Amounts :
                             CreateCost(c, k, d, a)
                       \/ \E c \in Costs : RemoveCost(c)
  OBVIOUS
<1>1. CASE UNCHANGED reportingVars
  BY <1>1 DEF reportingVars
<1>2. CASE \E s \in Slots : RecordStep(s)
  BY <1>2 DEF RecordStep, Next
<1>3. CASE \E c \in Costs, k \in Trucks, d \in Dates, a \in Amounts : CreateCost(c, k, d, a)
  BY <1>3 DEF CreateCost
<1>4. CASE \E c \in Costs : RemoveCost(c)
  BY <1>4 DEF RemoveCost
<1>5. CASE \E k \in Trucks, status \in {"active", "inactive"} : SetTruck(k, status)
  BY <1>5 DEF SetTruck
<1> QED
  BY <1>1, <1>2, <1>3, <1>4, <1>5 DEF ReportingNext

LEMMA ReadableCorrect == ReportingSpec => [](TypeInv /\ Dutiful /\ Readable)
<1>1. ReportingInit => TypeInv /\ Dutiful /\ Readable
  <2> SUFFICES ASSUME ReportingInit PROVE TypeInv /\ Dutiful /\ Readable
    OBVIOUS
  <2>1. Init => TypeInv /\ Dutiful
    BY TypeInvInit, DutifulInit
  <2>2. Figured
    BY DEF ReportingInit, Init, Figured, Ever, Opened, NoTrip, NoLog, Idle
  <2>3. OpenedLogs = {} /\ EnteredCosts = {}
    BY DEF ReportingInit, Init, OpenedLogs, EnteredCosts, Opened, Entered, NoLog
  <2>4. cost \in [Costs -> CostRow]
    BY DEF ReportingInit, CostRow, NoCost
  <2> QED
    BY <2>1, <2>2, <2>3, <2>4, FS_EmptySet DEF Readable, ReportingInit
<1>2. TypeInv /\ Dutiful /\ Readable /\ [ReportingNext]_reportingVars
         => (TypeInv /\ Dutiful /\ Readable)'
  BY TypeInvStep, DutifulStep, FiguredStep, CostsTyped, ReportingStep DEF Readable
<1> QED
  BY <1>1, <1>2, PTL DEF ReportingSpec

-----------------------------------------------------------------------------
\* A report is a table with one row for each key.

OneRowEach(R, id, K, row) ==
    /\ row \in [K -> R]
    /\ \A r \in R : \E k \in K : row[k] = r
    /\ \A k \in K : row[k][id] = k

\* A field says of each key the sum of f over what has that key.
SumsByKey(row, field, f, S, K, key) ==
    \A k \in K : row[k][field] = SumFunctionOnSet(f, {x \in S : key[x] = k})

\* A field that adds up a column over the rows with the key of its row adds up,
\* over the report, to the column over all rows.
LEMMA TotalGrouped ==
    ASSUME NEW S, IsFiniteSet(S), NEW f, \A x \in S : f[x] \in Int,
           NEW K, IsFiniteSet(K), NEW key, \A x \in S : key[x] \in K,
           NEW R, NEW id, NEW row, OneRowEach(R, id, K, row),
           NEW field, SumsByKey(row, field, f, S, K, key)
    PROVE  Total(R, field) = SumFunctionOnSet(f, S)
<1>1. PICK g : g = [r \in R |-> r[field]]
  OBVIOUS
<1>2. /\ row \in [K -> R]
      /\ \A r \in R : \E k \in K : row[k] = r
      /\ \A k, l \in K : row[k] = row[l] => k = l
  BY DEF OneRowEach
<1>3. \A k \in K : g[row[k]] = SumFunctionOnSet(f, {x \in S : key[x] = k})
  BY <1>1, <1>2 DEF SumsByKey
<1>4. SumFunctionOnSet(g, R) = SumFunctionOnSet(f, S)
  BY <1>2, <1>3, SumGrouped, SMTT(60)
<1>5. Total(R, field) = SumFunctionOnSet(g, R)
  BY <1>1 DEF Total, SumFunction
<1> QED
  BY <1>4, <1>5

\* What a report says about one key, if anything.
LEMMA AboutOne ==
    ASSUME NEW R, NEW id, NEW K, NEW row, OneRowEach(R, id, K, row),
           NEW field, NEW k, k \in K => row[k][field] \in Int
    PROVE  About(R, id, k, field) = IF k \in K THEN row[k][field] ELSE 0
<1>1. CASE k \in K
  <2>1. {r \in R : r[id] = k} = {row[k]}
    BY <1>1 DEF OneRowEach
  <2>2. PICK g : g = [r \in {row[k]} |-> r[field]]
    OBVIOUS
  <2>3. SumFunctionOnSet(g, {row[k]}) = g[row[k]] /\ g[row[k]] = row[k][field]
    BY <1>1, <2>2, SumOne
  <2>4. Total({row[k]}, field) = SumFunctionOnSet(g, {row[k]})
    BY <2>2 DEF Total, SumFunction
  <2> QED
    BY <1>1, <2>1, <2>3, <2>4 DEF About
<1>2. CASE k \notin K
  <2>1. {r \in R : r[id] = k} = {}
    BY <1>2 DEF OneRowEach
  <2>2. Total({}, field) = 0
    BY SumEmpty DEF Total, SumFunction
  <2> QED
    BY <1>2, <2>1, <2>2 DEF About
<1> QED
  BY <1>1, <1>2

-----------------------------------------------------------------------------
\* Sums over the tables, of rows whose columns are numbers.

Priced(rows) ==
    /\ IsFiniteSet(rows)
    /\ \A t \in rows : \A column \in {"bill", "driverPay", "helperPay"} :
          Columns(t)[column] \in Int
    /\ \A t \in rows : Columns(t).driver # None

Fuelling(logs) == IsFiniteSet(logs) /\ \A l \in logs : fuelCost(l) \in Int
Spending(costs) == IsFiniteSet(costs) /\ \A c \in costs : amountOf(c) \in Int

LEMMA BilledPart ==
    ASSUME NEW rows, Priced(rows), NEW column \in {"bill", "driverPay", "helperPay"},
           NEW f, \A t \in rows : f[t] = Columns(t)[column], NEW own \in SUBSET rows
    PROVE  Billed(own, column) = SumFunctionOnSet(f, own) /\ Billed(own, column) \in Int
<1>1. PICK g : g = [t \in own |-> Columns(t)[column]]
  OBVIOUS
<1>2. /\ DOMAIN g = own /\ \A t \in own : g[t] = f[t]
      /\ \A t \in rows : f[t] \in Int
      /\ Billed(own, column) = SumFunction(g)
  BY <1>1 DEF Billed, Priced
<1> QED
  BY <1>2, SumRestricted DEF Priced

LEMMA FuelledPart ==
    ASSUME NEW logs, Fuelling(logs), NEW f, \A l \in logs : f[l] = fuelCost(l),
           NEW own \in SUBSET logs
    PROVE  Fuelled(own) = SumFunctionOnSet(f, own) /\ Fuelled(own) \in Int
<1>1. PICK g : g = [l \in own |-> fuelCost(l)]
  OBVIOUS
<1>2. /\ DOMAIN g = own /\ \A l \in own : g[l] = f[l]
      /\ \A l \in logs : f[l] \in Int
      /\ Fuelled(own) = SumFunction(g)
  BY <1>1 DEF Fuelled, Fuelling
<1> QED
  BY <1>2, SumRestricted DEF Fuelling

LEMMA SpentPart ==
    ASSUME NEW costs, Spending(costs), NEW f, \A c \in costs : f[c] = amountOf(c),
           NEW own \in SUBSET costs
    PROVE  Spent(own) = SumFunctionOnSet(f, own) /\ Spent(own) \in Int
<1>1. PICK g : g = [c \in own |-> amountOf(c)]
  OBVIOUS
<1>2. /\ DOMAIN g = own /\ \A c \in own : g[c] = f[c]
      /\ \A c \in costs : f[c] \in Int
      /\ Spent(own) = SumFunction(g)
  BY <1>1 DEF Spent, Spending
<1> QED
  BY <1>2, SumRestricted DEF Spending

\* Rows, logs and costs in two parts.
LEMMA BilledSplit ==
    ASSUME NEW rows, Priced(rows), NEW column \in {"bill", "driverPay", "helperPay"},
           NEW T \in SUBSET rows, NEW S, NEW R, T = S \cup R, S \cap R = {}
    PROVE  /\ Billed(T, column) = Billed(S, column) + Billed(R, column)
           /\ Billed(S, column) \in Int /\ Billed(R, column) \in Int
<1>1. PICK f : f = [t \in rows |-> Columns(t)[column]]
  OBVIOUS
<1>2. \A t \in rows : f[t] = Columns(t)[column] /\ f[t] \in Int
  BY <1>1 DEF Priced
<1>3. \A own \in SUBSET rows : Billed(own, column) = SumFunctionOnSet(f, own)
                               /\ Billed(own, column) \in Int
  BY <1>2, BilledPart
<1>4. S \in SUBSET rows /\ R \in SUBSET rows
  OBVIOUS
<1>5. IsFiniteSet(S) /\ IsFiniteSet(R) /\ \A t \in S \cup R : f[t] \in Int
  BY <1>2, <1>4, FS_Subset DEF Priced
<1>6. SumFunctionOnSet(f, T) = SumFunctionOnSet(f, S) + SumFunctionOnSet(f, R)
  <2>1. SumFunctionOnSet(f, S \cup R) = SumFunctionOnSet(f, S) + SumFunctionOnSet(f, R)
    BY <1>5, SumUnion
  <2> QED
    BY <2>1
<1> QED
  BY <1>3, <1>4, <1>6

LEMMA FuelledSplit ==
    ASSUME NEW logs, Fuelling(logs), NEW T \in SUBSET logs, NEW S, NEW R, T = S \cup R, S \cap R = {}
    PROVE  /\ Fuelled(T) = Fuelled(S) + Fuelled(R)
           /\ Fuelled(S) \in Int /\ Fuelled(R) \in Int
<1>1. PICK f : f = [l \in logs |-> fuelCost(l)]
  OBVIOUS
<1>2. \A l \in logs : f[l] = fuelCost(l) /\ f[l] \in Int
  BY <1>1 DEF Fuelling
<1>3. \A own \in SUBSET logs : Fuelled(own) = SumFunctionOnSet(f, own) /\ Fuelled(own) \in Int
  BY <1>2, FuelledPart
<1>4. S \in SUBSET logs /\ R \in SUBSET logs
  OBVIOUS
<1>5. IsFiniteSet(S) /\ IsFiniteSet(R) /\ \A l \in S \cup R : f[l] \in Int
  BY <1>2, <1>4, FS_Subset DEF Fuelling
<1>6. SumFunctionOnSet(f, T) = SumFunctionOnSet(f, S) + SumFunctionOnSet(f, R)
  <2>1. SumFunctionOnSet(f, S \cup R) = SumFunctionOnSet(f, S) + SumFunctionOnSet(f, R)
    BY <1>5, SumUnion
  <2> QED
    BY <2>1
<1> QED
  BY <1>3, <1>4, <1>6

LEMMA SpentSplit ==
    ASSUME NEW costs, Spending(costs), NEW T \in SUBSET costs, NEW S, NEW R, T = S \cup R, S \cap R = {}
    PROVE  /\ Spent(T) = Spent(S) + Spent(R)
           /\ Spent(S) \in Int /\ Spent(R) \in Int
<1>1. PICK f : f = [c \in costs |-> amountOf(c)]
  OBVIOUS
<1>2. \A c \in costs : f[c] = amountOf(c) /\ f[c] \in Int
  BY <1>1 DEF Spending
<1>3. \A own \in SUBSET costs : Spent(own) = SumFunctionOnSet(f, own) /\ Spent(own) \in Int
  BY <1>2, SpentPart
<1>4. S \in SUBSET costs /\ R \in SUBSET costs
  OBVIOUS
<1>5. IsFiniteSet(S) /\ IsFiniteSet(R) /\ \A c \in S \cup R : f[c] \in Int
  BY <1>2, <1>4, FS_Subset DEF Spending
<1>6. SumFunctionOnSet(f, T) = SumFunctionOnSet(f, S) + SumFunctionOnSet(f, R)
  <2>1. SumFunctionOnSet(f, S \cup R) = SumFunctionOnSet(f, S) + SumFunctionOnSet(f, R)
    BY <1>5, SumUnion
  <2> QED
    BY <2>1
<1> QED
  BY <1>3, <1>4, <1>6

\* The same of a column, of the fuel, of the costs and of a count.
BilledByKey(row, field, column, S, K, key) ==
    \A k \in K : row[k][field] = Billed({t \in S : key[t] = k}, column)
FuelledByKey(row, field, logs, K, key) ==
    \A k \in K : row[k][field] = Fuelled({l \in logs : key[l] = k})
SpentByKey(row, field, costs, K, key) ==
    \A k \in K : row[k][field] = Spent({c \in costs : key[c] = k})
CountedByKey(row, field, S, K, key) ==
    \A k \in K : row[k][field] = Cardinality({t \in S : key[t] = k})

\* Each column adds up, over a report with a row per key, to its sum.
LEMMA BilledGrouped ==
    ASSUME NEW rows, Priced(rows), NEW column \in {"bill", "driverPay", "helperPay"},
           NEW S \in SUBSET rows,
           NEW K, IsFiniteSet(K), NEW key, \A t \in S : key[t] \in K,
           NEW R, NEW id, NEW row, OneRowEach(R, id, K, row),
           NEW field, BilledByKey(row, field, column, S, K, key)
    PROVE  Total(R, field) = Billed(S, column)
<1>1. PICK f : f = [t \in rows |-> Columns(t)[column]]
  OBVIOUS
<1>2. \A t \in rows : f[t] = Columns(t)[column] /\ f[t] \in Int
  BY <1>1 DEF Priced
<1>3. IsFiniteSet(S) /\ \A t \in S : f[t] \in Int
  BY <1>2, FS_Subset DEF Priced
<1>4. \A own \in SUBSET rows : Billed(own, column) = SumFunctionOnSet(f, own)
  BY <1>2, BilledPart
<1>5. SumsByKey(row, field, f, S, K, key)
  BY <1>4 DEF SumsByKey, BilledByKey
<1>6. Total(R, field) = SumFunctionOnSet(f, S)
  BY <1>3, <1>5, TotalGrouped, SMTT(60)
<1> QED
  BY <1>4, <1>6

LEMMA FuelledGrouped ==
    ASSUME NEW logs, Fuelling(logs),
           NEW K, IsFiniteSet(K), NEW key, \A l \in logs : key[l] \in K,
           NEW R, NEW id, NEW row, OneRowEach(R, id, K, row),
           NEW field, FuelledByKey(row, field, logs, K, key)
    PROVE  Total(R, field) = Fuelled(logs)
<1>1. PICK f : f = [l \in logs |-> fuelCost(l)]
  OBVIOUS
<1>2. \A l \in logs : f[l] = fuelCost(l) /\ f[l] \in Int
  BY <1>1 DEF Fuelling
<1>3. \A own \in SUBSET logs : Fuelled(own) = SumFunctionOnSet(f, own)
  BY <1>2, FuelledPart
<1>4. SumsByKey(row, field, f, logs, K, key)
  BY <1>3 DEF SumsByKey, FuelledByKey
<1>5. Total(R, field) = SumFunctionOnSet(f, logs)
  BY <1>2, <1>4, TotalGrouped, SMTT(60) DEF Fuelling
<1> QED
  BY <1>3, <1>5

LEMMA SpentGrouped ==
    ASSUME NEW costs, Spending(costs),
           NEW K, IsFiniteSet(K), NEW key, \A c \in costs : key[c] \in K,
           NEW R, NEW id, NEW row, OneRowEach(R, id, K, row),
           NEW field, SpentByKey(row, field, costs, K, key)
    PROVE  Total(R, field) = Spent(costs)
<1>1. PICK f : f = [c \in costs |-> amountOf(c)]
  OBVIOUS
<1>2. \A c \in costs : f[c] = amountOf(c) /\ f[c] \in Int
  BY <1>1 DEF Spending
<1>3. \A own \in SUBSET costs : Spent(own) = SumFunctionOnSet(f, own)
  BY <1>2, SpentPart
<1>4. SumsByKey(row, field, f, costs, K, key)
  BY <1>3 DEF SumsByKey, SpentByKey
<1>5. Total(R, field) = SumFunctionOnSet(f, costs)
  BY <1>2, <1>4, TotalGrouped, SMTT(60) DEF Spending
<1> QED
  BY <1>3, <1>5

\* And so do counts.
LEMMA CountGrouped ==
    ASSUME NEW rows, IsFiniteSet(rows),
           NEW K, IsFiniteSet(K), NEW key, \A t \in rows : key[t] \in K,
           NEW R, NEW id, NEW row, OneRowEach(R, id, K, row),
           NEW field, CountedByKey(row, field, rows, K, key)
    PROVE  Total(R, field) = Cardinality(rows)
<1>1. PICK f : f = [t \in rows |-> 1]
  OBVIOUS
<1>2. \A own \in SUBSET rows : SumFunctionOnSet(f, own) = Cardinality(own)
  <2>1. ASSUME NEW own \in SUBSET rows PROVE SumFunctionOnSet(f, own) = Cardinality(own)
    <3>1. IsFiniteSet(own) /\ \A t \in own : f[t] = 1
      BY <1>1, FS_Subset
    <3> QED
      BY <3>1, SumOfOnes
  <2> QED
    BY <2>1
<1>3. \A t \in rows : f[t] \in Int
  BY <1>1
<1>4. SumsByKey(row, field, f, rows, K, key)
  BY <1>2 DEF SumsByKey, CountedByKey
<1>5. Total(R, field) = SumFunctionOnSet(f, rows)
  BY <1>3, <1>4, TotalGrouped, SMTT(60)
<1> QED
  BY <1>2, <1>5

-----------------------------------------------------------------------------
\* What each report adds up to, over any rows.

\* The counts by day and by truck are of all trips.
LEMMA TripsCounted ==
    ASSUME NEW rows, IsFiniteSet(rows)
    PROVE  /\ Total(aggregateTrips(rows).perDay, "tripCount") = Cardinality(rows)
           /\ Total(aggregateTrips(rows).perTruck, "tripCount") = Cardinality(rows)
<1>1. Total(aggregateTrips(rows).perDay, "tripCount") = Cardinality(rows)
  <2>1. PICK R : R = aggregateTrips(rows).perDay
    OBVIOUS
  <2>2. PICK K : K = {DateOf(t) : t \in rows}
    OBVIOUS
  <2>3. PICK key : key = [t \in rows |-> DateOf(t)]
    OBVIOUS
  <2>4. PICK row : row = [k \in K |->
           [date |-> k, tripCount |-> Cardinality({t \in rows : DateOf(t) = k})]]
    OBVIOUS
  <2>5. OneRowEach(R, "date", K, row)
    BY <2>1, <2>2, <2>4 DEF OneRowEach, aggregateTrips
  <2>6. \A t \in rows : key[t] \in K
    BY <2>2, <2>3
  <2>7. CountedByKey(row, "tripCount", rows, K, key)
    <3>1. ASSUME NEW k \in K PROVE {t \in rows : DateOf(t) = k} = {t \in rows : key[t] = k}
      BY <2>3
    <3> QED
      BY <2>4, <3>1 DEF CountedByKey
  <2>8. IsFiniteSet(K)
    <3>1. \A y \in K : \E x \in rows : key[x] = y
      BY <2>2, <2>3
    <3> QED
      BY <3>1, ImageFinite
  <2> QED
    BY <2>1, <2>5, <2>6, <2>7, <2>8, CountGrouped
<1>2. Total(aggregateTrips(rows).perTruck, "tripCount") = Cardinality(rows)
  <2>1. PICK R : R = aggregateTrips(rows).perTruck
    OBVIOUS
  <2>2. PICK K : K = {TruckOf(t) : t \in rows}
    OBVIOUS
  <2>3. PICK key : key = [t \in rows |-> TruckOf(t)]
    OBVIOUS
  <2>4. PICK row : row = [k \in K |->
           [truckId |-> k, tripCount |-> Cardinality({t \in rows : TruckOf(t) = k})]]
    OBVIOUS
  <2>5. OneRowEach(R, "truckId", K, row)
    BY <2>1, <2>2, <2>4 DEF OneRowEach, aggregateTrips
  <2>6. \A t \in rows : key[t] \in K
    BY <2>2, <2>3
  <2>7. CountedByKey(row, "tripCount", rows, K, key)
    <3>1. ASSUME NEW k \in K PROVE {t \in rows : TruckOf(t) = k} = {t \in rows : key[t] = k}
      BY <2>3
    <3> QED
      BY <2>4, <3>1 DEF CountedByKey
  <2>8. IsFiniteSet(K)
    <3>1. \A y \in K : \E x \in rows : key[x] = y
      BY <2>2, <2>3
    <3> QED
      BY <3>1, ImageFinite
  <2> QED
    BY <2>1, <2>5, <2>6, <2>7, <2>8, CountGrouped
<1> QED
  BY <1>1, <1>2

\* The bills by client are of all trips.
LEMMA ClientsBilled ==
    ASSUME NEW rows, Priced(rows)
    PROVE  /\ Total(aggregateClientBillables(rows), "tripCount") = Cardinality(rows)
           /\ Total(aggregateClientBillables(rows), "billAmount") = Billed(rows, "bill")
<1>1. PICK R : R = aggregateClientBillables(rows)
  OBVIOUS
<1>2. PICK K : K = {Columns(t).client : t \in rows}
  OBVIOUS
<1>3. PICK key : key = [t \in rows |-> Columns(t).client]
  OBVIOUS
<1>4. PICK row : row = [k \in K |->
         [clientId |-> k, tripCount |-> Cardinality({t \in rows : Columns(t).client = k}),
          billAmount |-> Billed({t \in rows : Columns(t).client = k}, "bill")]]
  OBVIOUS
<1>5. OneRowEach(R, "clientId", K, row)
  BY <1>1, <1>2, <1>4 DEF OneRowEach, aggregateClientBillables
<1>6. \A t \in rows : key[t] \in K
  BY <1>2, <1>3
<1>7. ASSUME NEW k \in K PROVE {t \in rows : Columns(t).client = k} = {t \in rows : key[t] = k}
  BY <1>3
<1>8. CountedByKey(row, "tripCount", rows, K, key)
  BY <1>4, <1>7 DEF CountedByKey
<1>9. BilledByKey(row, "billAmount", "bill", rows, K, key)
  BY <1>4, <1>7 DEF BilledByKey
<1>10. IsFiniteSet(K)
  <2>1. \A y \in K : \E x \in rows : key[x] = y
    BY <1>2, <1>3
  <2> QED
    BY <2>1, ImageFinite DEF Priced
<1>11. Total(R, "tripCount") = Cardinality(rows)
  BY <1>5, <1>6, <1>8, <1>10, CountGrouped DEF Priced
<1>12. Total(R, "billAmount") = Billed(rows, "bill")
  BY <1>5, <1>6, <1>9, <1>10, BilledGrouped
<1> QED
  BY <1>1, <1>11, <1>12

\* The keys of the pay of workers, and its rows.
WorkersIn(rows) ==
    ({Columns(t).driver : t \in rows} \cup {Columns(t).helper : t \in rows}) \ {None}

WorkerRow(rows, w) ==
    [workerId  |-> w,
     driverPay |-> Billed({t \in rows : Columns(t).driver = w}, "driverPay"),
     helperPay |-> Billed({t \in rows : Columns(t).helper = w}, "helperPay")]

LEMMA WorkersFinite ==
    ASSUME NEW rows, IsFiniteSet(rows)
    PROVE  IsFiniteSet(WorkersIn(rows))
<1>1. PICK D, H : /\ D = {Columns(t).driver : t \in rows}
                  /\ H = {Columns(t).helper : t \in rows}
  OBVIOUS
<1>2. IsFiniteSet(D)
  <2>1. PICK f : f = [t \in rows |-> Columns(t).driver]
    OBVIOUS
  <2>2. \A y \in D : \E x \in rows : f[x] = y
    BY <1>1, <2>1
  <2> QED
    BY <2>2, ImageFinite
<1>3. IsFiniteSet(H)
  <2>1. PICK f : f = [t \in rows |-> Columns(t).helper]
    OBVIOUS
  <2>2. \A y \in H : \E x \in rows : f[x] = y
    BY <1>1, <2>1
  <2> QED
    BY <2>2, ImageFinite
<1>4. IsFiniteSet(D \cup H) /\ WorkersIn(rows) \subseteq D \cup H
  BY <1>1, <1>2, <1>3, FS_Union DEF WorkersIn
<1> QED
  BY <1>4, FS_Subset

\* Every trip pays its driver, and its helper if it names one.
LEMMA WorkersPaid ==
    ASSUME NEW rows, Priced(rows)
    PROVE  /\ Total(aggregateWorkerPay(rows), "driverPay") = Billed(rows, "driverPay")
           /\ Total(aggregateWorkerPay(rows), "helperPay") = Billed(rows, "helperPay")
                 - Billed({t \in rows : Columns(t).helper = None}, "helperPay")
<1>1. PICK R, K : R = aggregateWorkerPay(rows) /\ K = WorkersIn(rows)
  OBVIOUS
<1>2. PICK row : row = [w \in K |-> WorkerRow(rows, w)]
  OBVIOUS
<1>3. OneRowEach(R, "workerId", K, row)
  <2>1. R = {WorkerRow(rows, w) : w \in K}
    BY <1>1 DEF aggregateWorkerPay, WorkerRow, WorkersIn
  <2> QED
    BY <1>2, <2>1 DEF OneRowEach, WorkerRow
<1>4. IsFiniteSet(K)
  BY <1>1, WorkersFinite DEF Priced
<1>5. Total(R, "driverPay") = Billed(rows, "driverPay")
  <2>1. PICK key : key = [t \in rows |-> Columns(t).driver]
    OBVIOUS
  <2>2. \A t \in rows : key[t] \in K
    BY <1>1, <2>1 DEF WorkersIn, Priced
  <2>3. ASSUME NEW w \in K PROVE {t \in rows : Columns(t).driver = w} = {t \in rows : key[t] = w}
    BY <2>1
  <2>4. BilledByKey(row, "driverPay", "driverPay", rows, K, key)
    BY <1>2, <2>3 DEF BilledByKey, WorkerRow
  <2> QED
    BY <1>3, <1>4, <2>2, <2>4, BilledGrouped
<1>6. PICK named, none : /\ named = {t \in rows : Columns(t).helper # None}
                         /\ none = {t \in rows : Columns(t).helper = None}
  OBVIOUS
<1>7. Total(R, "helperPay") = Billed(named, "helperPay")
  <2>1. PICK key : key = [t \in rows |-> Columns(t).helper]
    OBVIOUS
  <2>2. \A t \in named : key[t] \in K
    BY <1>1, <1>6, <2>1 DEF WorkersIn
  <2>3. ASSUME NEW w \in K PROVE {t \in rows : Columns(t).helper = w} = {t \in named : key[t] = w}
    BY <1>1, <1>6, <2>1 DEF WorkersIn
  <2>4. BilledByKey(row, "helperPay", "helperPay", named, K, key)
    BY <1>2, <2>3 DEF BilledByKey, WorkerRow
  <2>5. named \in SUBSET rows
    BY <1>6
  <2> QED
    BY <1>3, <1>4, <2>2, <2>4, <2>5, BilledGrouped
<1>8. /\ Billed(rows, "helperPay") = Billed(named, "helperPay") + Billed(none, "helperPay")
      /\ Billed(named, "helperPay") \in Int /\ Billed(none, "helperPay") \in Int
  <2>1. named \cap none = {} /\ rows = named \cup none
    BY <1>6
  <2> QED
    BY <2>1, BilledSplit
<1>9. Total(R, "helperPay") = Billed(rows, "helperPay") - Billed(none, "helperPay")
  BY <1>7, <1>8
<1> QED
  BY <1>1, <1>5, <1>6, <1>9

\* The trucks a profit and loss has rows for.
TrucksIn(rows, fuels, costs) ==
    {TruckOf(t) : t \in rows} \cup {log[l].key[1] : l \in fuels}
       \cup {cost[c].truck : c \in costs}

LEMMA TrucksFinite ==
    ASSUME NEW rows, IsFiniteSet(rows), NEW fuels, IsFiniteSet(fuels),
           NEW costs, IsFiniteSet(costs)
    PROVE  IsFiniteSet(TrucksIn(rows, fuels, costs))
<1>1. PICK A, B, C : /\ A = {TruckOf(t) : t \in rows}
                     /\ B = {log[l].key[1] : l \in fuels}
                     /\ C = {cost[c].truck : c \in costs}
  OBVIOUS
<1>2. IsFiniteSet(A)
  <2>1. PICK f : f = [t \in rows |-> TruckOf(t)]
    OBVIOUS
  <2>2. \A y \in A : \E x \in rows : f[x] = y
    BY <1>1, <2>1
  <2> QED
    BY <2>2, ImageFinite
<1>3. IsFiniteSet(B)
  <2>1. PICK f : f = [l \in fuels |-> log[l].key[1]]
    OBVIOUS
  <2>2. \A y \in B : \E x \in fuels : f[x] = y
    BY <1>1, <2>1
  <2> QED
    BY <2>2, ImageFinite
<1>4. IsFiniteSet(C)
  <2>1. PICK f : f = [c \in costs |-> cost[c].truck]
    OBVIOUS
  <2>2. \A y \in C : \E x \in costs : f[x] = y
    BY <1>1, <2>1
  <2> QED
    BY <2>2, ImageFinite
<1>5. IsFiniteSet(A \cup B)
  BY <1>2, <1>3, FS_Union
<1>6. IsFiniteSet((A \cup B) \cup C)
  BY <1>4, <1>5, FS_Union
<1> QED
  BY <1>1, <1>6 DEF TrucksIn

\* A profit and loss has one row per truck.
LEMMA PnlRows ==
    ASSUME NEW rows, NEW fuels, NEW costs, NEW row,
           row = [k \in TrucksIn(rows, fuels, costs) |-> TruckPnl(rows, fuels, costs, k)]
    PROVE  OneRowEach(aggregateTruckPnl(rows, fuels, costs), "truckId",
                      TrucksIn(rows, fuels, costs), row)
<1>1. PICK R, K : /\ R = aggregateTruckPnl(rows, fuels, costs)
                  /\ K = TrucksIn(rows, fuels, costs)
  OBVIOUS
<1>2. R = {TruckPnl(rows, fuels, costs, k) : k \in K}
  BY <1>1 DEF aggregateTruckPnl, TrucksIn
<1>3. \A k \in K : TruckPnl(rows, fuels, costs, k).truckId = k
  BY DEF TruckPnl
<1>4. \A k \in K : row[k].truckId = k
  BY <1>1, <1>3
<1>5. row \in [K -> R] /\ \A r \in R : \E k \in K : row[k] = r
  BY <1>1, <1>2
<1>6. OneRowEach(R, "truckId", K, row)
  BY <1>4, <1>5 DEF OneRowEach
<1> QED
  BY <1>1, <1>6

\* What a truck has in the tables, and the profit it makes of it.
TruckTrips(rows, k)  == {t \in rows : TruckOf(t) = k}
TruckLogs(fuels, k)  == {l \in fuels : log[l].key[1] = k}
TruckCosts(costs, k) == {c \in costs : cost[c].truck = k}

LEMMA PnlRow ==
    ASSUME NEW rows, NEW fuels, NEW costs, NEW k, NEW r, r = TruckPnl(rows, fuels, costs, k)
    PROVE  /\ r.revenue   = Billed(TruckTrips(rows, k), "bill")
           /\ r.driverPay = Billed(TruckTrips(rows, k), "driverPay")
           /\ r.helperPay = Billed(TruckTrips(rows, k), "helperPay")
           /\ r.fuel      = Fuelled(TruckLogs(fuels, k))
           /\ r.costs     = Spent(TruckCosts(costs, k))
           /\ r.profit    = r.revenue - r.fuel - r.driverPay - r.helperPay - r.costs
BY DEF TruckPnl, TruckTrips, TruckLogs, TruckCosts

\* A field that is a difference of others adds up to the difference.
LEMMA TotalDifference ==
    ASSUME NEW R, IsFiniteSet(R),
           \A r \in R : /\ r.revenue \in Int /\ r.fuel \in Int /\ r.driverPay \in Int
                        /\ r.helperPay \in Int /\ r.costs \in Int
                        /\ r.profit = r.revenue - r.fuel - r.driverPay - r.helperPay - r.costs
    PROVE  Total(R, "profit") = Total(R, "revenue") - Total(R, "fuel") - Total(R, "driverPay")
              - Total(R, "helperPay") - Total(R, "costs")
<1>1. PICK a, b, c, d, e, p : /\ a = [r \in R |-> r.revenue] /\ b = [r \in R |-> r.fuel]
                              /\ c = [r \in R |-> r.driverPay] /\ d = [r \in R |-> r.helperPay]
                              /\ e = [r \in R |-> r.costs] /\ p = [r \in R |-> r.profit]
  OBVIOUS
<1>2. PICK x, y, z : /\ x = [r \in R |-> a[r] - b[r]]
                     /\ y = [r \in R |-> x[r] - c[r]]
                     /\ z = [r \in R |-> y[r] - d[r]]
  OBVIOUS
<1>3. \A r \in R : /\ a[r] \in Int /\ b[r] \in Int /\ c[r] \in Int /\ d[r] \in Int /\ e[r] \in Int
                   /\ x[r] \in Int /\ y[r] \in Int /\ z[r] \in Int
                   /\ x[r] = a[r] - b[r] /\ y[r] = x[r] - c[r] /\ z[r] = y[r] - d[r]
                   /\ p[r] = z[r] - e[r]
  BY <1>1, <1>2
<1>4. SumFunctionOnSet(x, R) = SumFunctionOnSet(a, R) - SumFunctionOnSet(b, R)
  BY <1>3, SumMinus
<1>5. SumFunctionOnSet(y, R) = SumFunctionOnSet(x, R) - SumFunctionOnSet(c, R)
  BY <1>3, SumMinus
<1>6. SumFunctionOnSet(z, R) = SumFunctionOnSet(y, R) - SumFunctionOnSet(d, R)
  BY <1>3, SumMinus
<1>7. SumFunctionOnSet(p, R) = SumFunctionOnSet(z, R) - SumFunctionOnSet(e, R)
  BY <1>3, SumMinus
<1>8. /\ Total(R, "revenue") = SumFunctionOnSet(a, R) /\ Total(R, "fuel") = SumFunctionOnSet(b, R)
      /\ Total(R, "driverPay") = SumFunctionOnSet(c, R)
      /\ Total(R, "helperPay") = SumFunctionOnSet(d, R)
      /\ Total(R, "costs") = SumFunctionOnSet(e, R) /\ Total(R, "profit") = SumFunctionOnSet(p, R)
  BY <1>1 DEF Total, SumFunction
<1> QED
  BY <1>4, <1>5, <1>6, <1>7, <1>8

\* Sums over parts of the tables are numbers.
LEMMA BilledInt ==
    ASSUME NEW rows, Priced(rows), NEW column \in {"bill", "driverPay", "helperPay"},
           NEW own \in SUBSET rows
    PROVE  Billed(own, column) \in Int
<1>1. PICK f : f = [t \in rows |-> Columns(t)[column]]
  OBVIOUS
<1> QED
  BY <1>1, BilledPart

LEMMA FuelledInt ==
    ASSUME NEW logs, Fuelling(logs), NEW own \in SUBSET logs
    PROVE  Fuelled(own) \in Int
<1>1. PICK f : f = [l \in logs |-> fuelCost(l)]
  OBVIOUS
<1> QED
  BY <1>1, FuelledPart

LEMMA SpentInt ==
    ASSUME NEW costs, Spending(costs), NEW own \in SUBSET costs
    PROVE  Spent(own) \in Int
<1>1. PICK f : f = [c \in costs |-> amountOf(c)]
  OBVIOUS
<1> QED
  BY <1>1, SpentPart

\* The truck rows add up to all trips, logs and costs.
LEMMA TrucksEarn ==
    ASSUME NEW rows, Priced(rows), NEW fuels, Fuelling(fuels), NEW costs, Spending(costs)
    PROVE  LET pnl == aggregateTruckPnl(rows, fuels, costs)
           IN  /\ Total(pnl, "revenue") = Billed(rows, "bill")
               /\ Total(pnl, "driverPay") = Billed(rows, "driverPay")
               /\ Total(pnl, "helperPay") = Billed(rows, "helperPay")
               /\ Total(pnl, "profit") =
                     Billed(rows, "bill") - Billed(rows, "driverPay")
                        - Billed(rows, "helperPay") - Fuelled(fuels) - Spent(costs)
<1>1. PICK R, K : /\ R = aggregateTruckPnl(rows, fuels, costs)
                  /\ K = TrucksIn(rows, fuels, costs)
  OBVIOUS
<1>2. PICK row : row = [k \in K |-> TruckPnl(rows, fuels, costs, k)]
  OBVIOUS
<1>3. OneRowEach(R, "truckId", K, row)
  BY <1>1, <1>2, PnlRows
<1>4. IsFiniteSet(K)
  BY <1>1, TrucksFinite DEF Priced, Fuelling, Spending
<1>5. PICK key : key = [t \in rows |-> TruckOf(t)]
  OBVIOUS
<1>6. \A t \in rows : key[t] \in K
  BY <1>1, <1>5 DEF TrucksIn
<1>7. PICK byLog : byLog = [l \in fuels |-> log[l].key[1]]
  OBVIOUS
<1>8. \A l \in fuels : byLog[l] \in K
  BY <1>1, <1>7 DEF TrucksIn
<1>9. PICK byCost : byCost = [c \in costs |-> cost[c].truck]
  OBVIOUS
<1>10. \A c \in costs : byCost[c] \in K
  BY <1>1, <1>9 DEF TrucksIn
<1>11. /\ BilledByKey(row, "revenue", "bill", rows, K, key)
       /\ BilledByKey(row, "driverPay", "driverPay", rows, K, key)
       /\ BilledByKey(row, "helperPay", "helperPay", rows, K, key)
       /\ FuelledByKey(row, "fuel", fuels, K, byLog)
       /\ SpentByKey(row, "costs", costs, K, byCost)
  <2>1. ASSUME NEW k \in K
        PROVE  /\ row[k].revenue   = Billed({t \in rows : key[t] = k}, "bill")
               /\ row[k].driverPay = Billed({t \in rows : key[t] = k}, "driverPay")
               /\ row[k].helperPay = Billed({t \in rows : key[t] = k}, "helperPay")
               /\ row[k].fuel      = Fuelled({l \in fuels : byLog[l] = k})
               /\ row[k].costs     = Spent({c \in costs : byCost[c] = k})
    <3>1. /\ TruckTrips(rows, k) = {t \in rows : key[t] = k}
          /\ TruckLogs(fuels, k) = {l \in fuels : byLog[l] = k}
          /\ TruckCosts(costs, k) = {c \in costs : byCost[c] = k}
      BY <1>5, <1>7, <1>9 DEF TruckTrips, TruckLogs, TruckCosts
    <3>2. /\ row[k].revenue   = Billed(TruckTrips(rows, k), "bill")
          /\ row[k].driverPay = Billed(TruckTrips(rows, k), "driverPay")
          /\ row[k].helperPay = Billed(TruckTrips(rows, k), "helperPay")
          /\ row[k].fuel      = Fuelled(TruckLogs(fuels, k))
          /\ row[k].costs     = Spent(TruckCosts(costs, k))
      BY <1>2, PnlRow
    <3> QED
      BY <3>1, <3>2
  <2> QED
    BY <2>1 DEF BilledByKey, FuelledByKey, SpentByKey
<1>12. Total(R, "revenue") = Billed(rows, "bill")
  BY <1>3, <1>4, <1>6, <1>11, BilledGrouped
<1>13. Total(R, "driverPay") = Billed(rows, "driverPay")
  BY <1>3, <1>4, <1>6, <1>11, BilledGrouped
<1>14. Total(R, "helperPay") = Billed(rows, "helperPay")
  BY <1>3, <1>4, <1>6, <1>11, BilledGrouped
<1>15. Total(R, "fuel") = Fuelled(fuels)
  BY <1>3, <1>4, <1>8, <1>11, FuelledGrouped
<1>16. Total(R, "costs") = Spent(costs)
  BY <1>3, <1>4, <1>10, <1>11, SpentGrouped
<1>17. /\ \A column \in {"bill", "driverPay", "helperPay"} : \A own \in SUBSET rows :
             Billed(own, column) \in Int
       /\ \A own \in SUBSET fuels : Fuelled(own) \in Int
       /\ \A own \in SUBSET costs : Spent(own) \in Int
  BY BilledInt, FuelledInt, SpentInt
<1>18. Total(R, "profit") = Total(R, "revenue") - Total(R, "fuel") - Total(R, "driverPay")
          - Total(R, "helperPay") - Total(R, "costs")
  <2>1. \A r \in R : /\ r.revenue \in Int /\ r.fuel \in Int /\ r.driverPay \in Int
                     /\ r.helperPay \in Int /\ r.costs \in Int
                     /\ r.profit = r.revenue - r.fuel - r.driverPay - r.helperPay - r.costs
    <3>1. ASSUME NEW r \in R
          PROVE  /\ r.revenue \in Int /\ r.fuel \in Int /\ r.driverPay \in Int
                 /\ r.helperPay \in Int /\ r.costs \in Int
                 /\ r.profit = r.revenue - r.fuel - r.driverPay - r.helperPay - r.costs
      <4>1. PICK k \in K : r = TruckPnl(rows, fuels, costs, k)
        BY <1>2, <1>3 DEF OneRowEach
      <4>2. /\ TruckTrips(rows, k) \in SUBSET rows
            /\ TruckLogs(fuels, k) \in SUBSET fuels
            /\ TruckCosts(costs, k) \in SUBSET costs
        BY DEF TruckTrips, TruckLogs, TruckCosts
      <4>3. /\ Billed(TruckTrips(rows, k), "bill") \in Int
            /\ Billed(TruckTrips(rows, k), "driverPay") \in Int
            /\ Billed(TruckTrips(rows, k), "helperPay") \in Int
            /\ Fuelled(TruckLogs(fuels, k)) \in Int
            /\ Spent(TruckCosts(costs, k)) \in Int
        BY <1>17, <4>2
      <4> QED
        BY <4>1, <4>3, PnlRow
    <3> QED
      BY <3>1
  <2>2. IsFiniteSet(R)
    BY <1>3, <1>4, ImageFinite DEF OneRowEach
  <2> QED
    BY <2>1, <2>2, TotalDifference
<1>19. Total(R, "profit") = Billed(rows, "bill") - Billed(rows, "driverPay")
          - Billed(rows, "helperPay") - Fuelled(fuels) - Spent(costs)
  <2>1. /\ \A column \in {"bill", "driverPay", "helperPay"} : Billed(rows, column) \in Int
        /\ Fuelled(fuels) \in Int /\ Spent(costs) \in Int
    BY <1>17
  <2> QED
    BY <1>12, <1>13, <1>14, <1>15, <1>16, <1>18, <2>1
<1> QED
  BY <1>1, <1>12, <1>13, <1>14, <1>19

-----------------------------------------------------------------------------
\* The reports agree.

\* What a report reads is made of numbers, and finitely many rows.
LEMMA TablesTyped ==
    ASSUME TypeInv, Dutiful, Readable, NEW w
    PROVE  /\ Priced(fetchTripRows(w)) /\ Fuelling(fetchFuelRows(w))
           /\ Spending(fetchCostRows(w)) /\ IsFiniteSet(fetchOperationalRows(w))
<1>1. Priced(fetchTripRows(w))
  <2>1. IsFiniteSet(fetchTripRows(w))
    <3>1. fetchTripRows(w) \subseteq Ever
      BY DEF fetchTripRows, Ever, Live
    <3> QED
      BY <3>1, FS_Subset DEF TypeInv, Ranked
  <2>2. \A t \in fetchTripRows(w) : trip[t].figure \in Figures
    BY DEF fetchTripRows, Ever, Live, Readable, Figured
  <2>3. \A t \in fetchTripRows(w) : /\ Columns(t).driver # None
                                    /\ \A column \in {"bill", "driverPay", "helperPay"} :
                                          Columns(t)[column] \in Int
    BY <2>2, TripOfAssumption DEF Columns
  <2> QED
    BY <2>1, <2>3 DEF Priced
<1>2. Fuelling(fetchFuelRows(w)) /\ IsFiniteSet(fetchOperationalRows(w))
  <2>1. /\ fetchFuelRows(w) \subseteq OpenedLogs
        /\ fetchOperationalRows(w) \subseteq OpenedLogs
    BY DEF fetchFuelRows, fetchOperationalRows, OpenedLogs
  <2>2. IsFiniteSet(fetchFuelRows(w)) /\ IsFiniteSet(fetchOperationalRows(w))
    BY <2>1, FS_Subset DEF Readable
  <2>3. \A l \in fetchFuelRows(w) : log[l].figure \in Figures /\ LogOf[log[l].figure].fuel # None
    BY DEF fetchFuelRows, Readable, Figured
  <2>4. \A l \in fetchFuelRows(w) : fuelCost(l) \in Int
    BY <2>3, LogOfAssumption DEF fuelCost
  <2> QED
    BY <2>2, <2>4 DEF Fuelling
<1>3. Spending(fetchCostRows(w))
  <2>1. fetchCostRows(w) \subseteq EnteredCosts
    BY DEF fetchCostRows, EnteredCosts
  <2>2. IsFiniteSet(fetchCostRows(w))
    BY <2>1, FS_Subset DEF Readable
  <2>3. \A c \in fetchCostRows(w) : cost[c].amount \in Amounts \cup {0}
    BY DEF fetchCostRows, Readable, CostRow
  <2>4. \A a \in Amounts \cup {0} : a \in Int
    BY AmountsAssumption
  <2> QED
    BY <2>2, <2>3, <2>4 DEF Spending, amountOf
<1> QED
  BY <1>1, <1>2, <1>3

LEMMA AgreeIn == TypeInv /\ Dutiful /\ Readable => ReportsAgree
<1> SUFFICES ASSUME TypeInv, Dutiful, Readable, NEW w \in Windows
             PROVE
    /\ Total(trips(w).perDay, "tripCount") = trips(w).totalTrips
    /\ Total(trips(w).perTruck, "tripCount") = trips(w).totalTrips
    /\ Total(clientBillables(w), "tripCount") = trips(w).totalTrips
    /\ Total(clientBillables(w), "billAmount") = Total(truckPnl(w), "revenue")
    /\ Total(workerPay(w), "driverPay") = Total(truckPnl(w), "driverPay")
    /\ Total(workerPay(w), "helperPay") = Total(truckPnl(w), "helperPay")
          - Billed({t \in fetchTripRows(w) : Columns(t).helper = None}, "helperPay")
    /\ Total(truckPnl(w), "profit") =
          Billed(fetchTripRows(w), "bill") - Billed(fetchTripRows(w), "driverPay")
             - Billed(fetchTripRows(w), "helperPay")
             - Fuelled(fetchFuelRows(w)) - Spent(fetchCostRows(w))
  BY Zenon DEF ReportsAgree
<1>1. PICK rows, fuels, costs : /\ rows = fetchTripRows(w)
                                /\ fuels = fetchFuelRows(w)
                                /\ costs = fetchCostRows(w)
  OBVIOUS
<1>2. Priced(rows) /\ Fuelling(fuels) /\ Spending(costs)
  BY <1>1, TablesTyped
<1>3. /\ trips(w).totalTrips = Cardinality(rows)
      /\ trips(w).perDay = aggregateTrips(rows).perDay
      /\ trips(w).perTruck = aggregateTrips(rows).perTruck
  BY <1>1 DEF trips
<1>4. /\ clientBillables(w) = aggregateClientBillables(rows)
      /\ workerPay(w) = aggregateWorkerPay(rows)
      /\ truckPnl(w) = aggregateTruckPnl(rows, fuels, costs)
  BY <1>1 DEF clientBillables, workerPay, truckPnl
<1>5. /\ Total(trips(w).perDay, "tripCount") = trips(w).totalTrips
      /\ Total(trips(w).perTruck, "tripCount") = trips(w).totalTrips
  BY <1>2, <1>3, TripsCounted DEF Priced
<1>6. /\ Total(clientBillables(w), "tripCount") = Cardinality(rows)
      /\ Total(clientBillables(w), "billAmount") = Billed(rows, "bill")
  BY <1>2, <1>4, ClientsBilled
<1>7. /\ Total(workerPay(w), "driverPay") = Billed(rows, "driverPay")
      /\ Total(workerPay(w), "helperPay") = Billed(rows, "helperPay")
            - Billed({t \in rows : Columns(t).helper = None}, "helperPay")
  BY <1>2, <1>4, WorkersPaid, Zenon
<1>8. /\ Total(truckPnl(w), "revenue") = Billed(rows, "bill")
      /\ Total(truckPnl(w), "driverPay") = Billed(rows, "driverPay")
      /\ Total(truckPnl(w), "helperPay") = Billed(rows, "helperPay")
      /\ Total(truckPnl(w), "profit") =
            Billed(rows, "bill") - Billed(rows, "driverPay")
               - Billed(rows, "helperPay") - Fuelled(fuels) - Spent(costs)
  BY <1>2, <1>4, TrucksEarn
<1>9. Total(workerPay(w), "helperPay") = Total(truckPnl(w), "helperPay")
         - Billed({t \in fetchTripRows(w) : Columns(t).helper = None}, "helperPay")
  <2>1. {t \in rows : Columns(t).helper = None}
            = {t \in fetchTripRows(w) : Columns(t).helper = None}
    BY <1>1
  <2> QED
    BY <1>7, <1>8, <2>1
<1> QED
  BY <1>1, <1>3, <1>5, <1>6, <1>7, <1>8, <1>9

\* The reports on one window of dates tell one story in every reachable state,
\* for any figures, rows and windows: they count the same trips, bill and pay
\* the same money, and profit is what is earned less what is spent
\* (reporting.aggregate.ts, reporting.service.ts).
THEOREM ReportsTellOneStory == ReportingSpec => []ReportsAgree
BY ReadableCorrect, AgreeIn, PTL

-----------------------------------------------------------------------------
\* Windows add up.

\* Every trip and log has its date.
LEMMA DatesTyped ==
    ASSUME Dutiful
    PROVE  /\ \A l \in Logs : Opened(l) => log[l].key[2] \in Int
           /\ \A t \in Trips : Live(t) => DateOf(t) \in Int
<1>1. \A k \in TruckDays : k[2] \in Int
  BY DatesAssumption
<1>2. \A l \in Logs : Opened(l) => log[l].key[2] \in Int
  BY <1>1 DEF Dutiful
<1>3. \A t \in Trips : Live(t) => trip[t].log \in Logs /\ Opened(trip[t].log)
  BY DEF Dutiful, Ever, Live
<1> QED
  BY <1>2, <1>3 DEF DateOf

\* Dates are on one side of any cut of a window.
LEMMA WindowCut ==
    ASSUME TypeInv, Dutiful, Readable, NEW w \in Windows, NEW d \in w[1] .. w[2] - 1,
           NEW start, start = <<w[1], d>>, NEW rest, rest = <<d + 1, w[2]>>
    PROVE  /\ fetchTripRows(w) = fetchTripRows(start) \cup fetchTripRows(rest)
           /\ fetchTripRows(start) \cap fetchTripRows(rest) = {}
           /\ fetchFuelRows(w) = fetchFuelRows(start) \cup fetchFuelRows(rest)
           /\ fetchFuelRows(start) \cap fetchFuelRows(rest) = {}
           /\ fetchCostRows(w) = fetchCostRows(start) \cup fetchCostRows(rest)
           /\ fetchCostRows(start) \cap fetchCostRows(rest) = {}
<1>1. w[1] \in Int /\ w[2] \in Int /\ d \in Int /\ w[1] <= d /\ d <= w[2] - 1
  <2>1. w[1] \in Dates /\ w[2] \in Dates
    BY DEF Windows
  <2>2. w[1] \in Int /\ w[2] \in Int
    BY <2>1, DatesAssumption
  <2> QED
    BY <2>2
<1>2. \A x \in Int : /\ Within(x, w) <=> Within(x, start) \/ Within(x, rest)
                     /\ ~(Within(x, start) /\ Within(x, rest))
  <2>1. start[1] = w[1] /\ start[2] = d /\ rest[1] = d + 1 /\ rest[2] = w[2]
    OBVIOUS
  <2> QED
    BY <1>1, <2>1 DEF Within
<1>3. \A t \in Trips : Live(t) => DateOf(t) \in Int
  BY DatesTyped
<1>4. \A l \in Logs : Opened(l) => log[l].key[2] \in Int
  BY DatesTyped
<1>5. \A c \in Costs : cost[c].date \in Int
  <2>1. \A c \in Costs : cost[c].date \in Dates \cup {0}
    BY DEF Readable, CostRow
  <2>2. \A x \in Dates \cup {0} : x \in Int
    BY DatesAssumption
  <2> QED
    BY <2>1, <2>2
<1>6. /\ fetchTripRows(w) = fetchTripRows(start) \cup fetchTripRows(rest)
      /\ fetchTripRows(start) \cap fetchTripRows(rest) = {}
  BY <1>2, <1>3 DEF fetchTripRows
<1>7. /\ fetchFuelRows(w) = fetchFuelRows(start) \cup fetchFuelRows(rest)
      /\ fetchFuelRows(start) \cap fetchFuelRows(rest) = {}
  BY <1>2, <1>4 DEF fetchFuelRows
<1>8. /\ fetchCostRows(w) = fetchCostRows(start) \cup fetchCostRows(rest)
      /\ fetchCostRows(start) \cap fetchCostRows(rest) = {}
  BY <1>2, <1>5 DEF fetchCostRows
<1> QED
  BY <1>6, <1>7, <1>8

\* Sums over nothing.
LEMMA NothingSums ==
    /\ \A column : Billed({}, column) = 0
    /\ Fuelled({}) = 0
    /\ Spent({}) = 0
<1>1. ASSUME NEW f, DOMAIN f = {} PROVE SumFunction(f) = 0
  BY <1>1, SumEmpty DEF SumFunction
<1>2. ASSUME NEW column PROVE Billed({}, column) = 0
  <2>1. PICK f : f = [t \in {} |-> Columns(t)[column]]
    OBVIOUS
  <2> QED
    BY <1>1, <2>1 DEF Billed
<1>3. Fuelled({}) = 0
  <2>1. PICK f : f = [l \in {} |-> fuelCost(l)]
    OBVIOUS
  <2> QED
    BY <1>1, <2>1 DEF Fuelled
<1>4. Spent({}) = 0
  <2>1. PICK f : f = [c \in {} |-> amountOf(c)]
    OBVIOUS
  <2> QED
    BY <1>1, <2>1 DEF Spent
<1> QED
  BY <1>2, <1>3, <1>4

\* What the profit and loss says of any truck, one it has no row for included.
Profit(rows, fuels, costs, k) ==
    Billed(TruckTrips(rows, k), "bill") - Fuelled(TruckLogs(fuels, k))
       - Billed(TruckTrips(rows, k), "driverPay") - Billed(TruckTrips(rows, k), "helperPay")
       - Spent(TruckCosts(costs, k))

LEMMA TruckSums ==
    ASSUME NEW rows, Priced(rows), NEW fuels, Fuelling(fuels), NEW costs, Spending(costs), NEW k
    PROVE  /\ Billed(TruckTrips(rows, k), "bill") \in Int
           /\ Billed(TruckTrips(rows, k), "driverPay") \in Int
           /\ Billed(TruckTrips(rows, k), "helperPay") \in Int
           /\ Fuelled(TruckLogs(fuels, k)) \in Int
           /\ Spent(TruckCosts(costs, k)) \in Int
<1>1. /\ TruckTrips(rows, k) \in SUBSET rows
      /\ TruckLogs(fuels, k) \in SUBSET fuels
      /\ TruckCosts(costs, k) \in SUBSET costs
  BY DEF TruckTrips, TruckLogs, TruckCosts
<1> QED
  BY <1>1, BilledInt, FuelledInt, SpentInt

LEMMA ProfitAbout ==
    ASSUME NEW rows, Priced(rows), NEW fuels, Fuelling(fuels), NEW costs, Spending(costs), NEW k
    PROVE  About(aggregateTruckPnl(rows, fuels, costs), "truckId", k, "profit")
              = Profit(rows, fuels, costs, k)
<1>1. PICK R, K : /\ R = aggregateTruckPnl(rows, fuels, costs)
                  /\ K = TrucksIn(rows, fuels, costs)
  OBVIOUS
<1>2. PICK row : row = [x \in K |-> TruckPnl(rows, fuels, costs, x)]
  OBVIOUS
<1>3. OneRowEach(R, "truckId", K, row)
  BY <1>1, <1>2, PnlRows
<1>4. Profit(rows, fuels, costs, k) \in Int
  BY TruckSums DEF Profit
<1>5. k \in K => row[k].profit = Profit(rows, fuels, costs, k)
  BY <1>2, PnlRow DEF Profit
<1>6. About(R, "truckId", k, "profit") = IF k \in K THEN row[k].profit ELSE 0
  BY <1>3, <1>4, <1>5, AboutOne
<1>7. k \notin K => Profit(rows, fuels, costs, k) = 0
  <2>1. ASSUME k \notin K
        PROVE  TruckTrips(rows, k) = {} /\ TruckLogs(fuels, k) = {} /\ TruckCosts(costs, k) = {}
    BY <1>1, <2>1 DEF TrucksIn, TruckTrips, TruckLogs, TruckCosts
  <2> QED
    BY <2>1, NothingSums DEF Profit
<1> QED
  BY <1>1, <1>5, <1>6, <1>7

\* What the pay says of any worker.
DrivenBy(rows, w) == {t \in rows : Columns(t).driver = w}
HelpedBy(rows, w) == {t \in rows : Columns(t).helper = w}

LEMMA PayAbout ==
    ASSUME NEW rows, Priced(rows), NEW w, w # None
    PROVE  /\ About(aggregateWorkerPay(rows), "workerId", w, "driverPay")
                 = Billed(DrivenBy(rows, w), "driverPay")
           /\ About(aggregateWorkerPay(rows), "workerId", w, "helperPay")
                 = Billed(HelpedBy(rows, w), "helperPay")
<1>1. PICK R, K : R = aggregateWorkerPay(rows) /\ K = WorkersIn(rows)
  OBVIOUS
<1>2. PICK row : row = [x \in K |-> WorkerRow(rows, x)]
  OBVIOUS
<1>3. OneRowEach(R, "workerId", K, row)
  <2>1. R = {WorkerRow(rows, x) : x \in K}
    BY <1>1 DEF aggregateWorkerPay, WorkerRow, WorkersIn
  <2> QED
    BY <1>2, <2>1 DEF OneRowEach, WorkerRow
<1>4. DrivenBy(rows, w) \in SUBSET rows /\ HelpedBy(rows, w) \in SUBSET rows
  BY DEF DrivenBy, HelpedBy
<1>5. Billed(DrivenBy(rows, w), "driverPay") \in Int /\ Billed(HelpedBy(rows, w), "helperPay") \in Int
  BY <1>4, BilledInt
<1>6. w \in K => /\ row[w].driverPay = Billed(DrivenBy(rows, w), "driverPay")
                 /\ row[w].helperPay = Billed(HelpedBy(rows, w), "helperPay")
  BY <1>2 DEF WorkerRow, DrivenBy, HelpedBy
<1>7. /\ About(R, "workerId", w, "driverPay") = IF w \in K THEN row[w].driverPay ELSE 0
      /\ About(R, "workerId", w, "helperPay") = IF w \in K THEN row[w].helperPay ELSE 0
  BY <1>3, <1>5, <1>6, AboutOne
<1>8. w \notin K => /\ Billed(DrivenBy(rows, w), "driverPay") = 0
                    /\ Billed(HelpedBy(rows, w), "helperPay") = 0
  <2>1. ASSUME w \notin K PROVE DrivenBy(rows, w) = {} /\ HelpedBy(rows, w) = {}
    BY <1>1, <2>1 DEF WorkersIn, DrivenBy, HelpedBy
  <2> QED
    BY <2>1, NothingSums
<1> QED
  BY <1>1, <1>6, <1>7, <1>8

\* What a truck has, over the union of disjoint rows.
LEMMA TripsAdd ==
    ASSUME NEW rows, Priced(rows), NEW column \in {"bill", "driverPay", "helperPay"},
           NEW r1, NEW r2, rows = r1 \cup r2, r1 \cap r2 = {}, NEW k
    PROVE  Billed(TruckTrips(rows, k), column)
              = Billed(TruckTrips(r1, k), column) + Billed(TruckTrips(r2, k), column)
<1>1. PICK T, T1, T2 : /\ T = TruckTrips(rows, k)
                       /\ T1 = TruckTrips(r1, k) /\ T2 = TruckTrips(r2, k)
  OBVIOUS
<1>2. T \in SUBSET rows /\ T = T1 \cup T2 /\ T1 \cap T2 = {}
  BY <1>1 DEF TruckTrips
<1>3. Billed(T, column) = Billed(T1, column) + Billed(T2, column)
  <2>1. CASE column = "bill"
    BY <1>2, <2>1, BilledSplit
  <2>2. CASE column = "driverPay"
    BY <1>2, <2>2, BilledSplit
  <2>3. CASE column = "helperPay"
    BY <1>2, <2>3, BilledSplit
  <2> QED
    BY <2>1, <2>2, <2>3
<1> QED
  BY <1>1, <1>3

LEMMA LogsAdd ==
    ASSUME NEW fuels, Fuelling(fuels),
           NEW f1, NEW f2, fuels = f1 \cup f2, f1 \cap f2 = {}, NEW k
    PROVE  Fuelled(TruckLogs(fuels, k)) = Fuelled(TruckLogs(f1, k)) + Fuelled(TruckLogs(f2, k))
<1>1. PICK L, L1, L2 : /\ L = TruckLogs(fuels, k)
                       /\ L1 = TruckLogs(f1, k) /\ L2 = TruckLogs(f2, k)
  OBVIOUS
<1>2. L \in SUBSET fuels /\ L = L1 \cup L2 /\ L1 \cap L2 = {}
  BY <1>1 DEF TruckLogs
<1>3. Fuelled(L) = Fuelled(L1) + Fuelled(L2)
  BY <1>2, FuelledSplit
<1> QED
  BY <1>1, <1>3

LEMMA CostsAdd ==
    ASSUME NEW costs, Spending(costs),
           NEW c1, NEW c2, costs = c1 \cup c2, c1 \cap c2 = {}, NEW k
    PROVE  Spent(TruckCosts(costs, k)) = Spent(TruckCosts(c1, k)) + Spent(TruckCosts(c2, k))
<1>1. PICK C, C1, C2 : /\ C = TruckCosts(costs, k)
                       /\ C1 = TruckCosts(c1, k) /\ C2 = TruckCosts(c2, k)
  OBVIOUS
<1>2. C \in SUBSET costs /\ C = C1 \cup C2 /\ C1 \cap C2 = {}
  BY <1>1 DEF TruckCosts
<1>3. Spent(C) = Spent(C1) + Spent(C2)
  BY <1>2, SpentSplit
<1> QED
  BY <1>1, <1>3

\* So do its profits.
LEMMA ProfitAdds ==
    ASSUME NEW rows, Priced(rows), NEW fuels, Fuelling(fuels), NEW costs, Spending(costs),
           NEW r1, Priced(r1), NEW f1, Fuelling(f1), NEW c1, Spending(c1),
           NEW r2, Priced(r2), NEW f2, Fuelling(f2), NEW c2, Spending(c2),
           rows = r1 \cup r2, r1 \cap r2 = {}, fuels = f1 \cup f2, f1 \cap f2 = {},
           costs = c1 \cup c2, c1 \cap c2 = {}, NEW k
    PROVE  Profit(rows, fuels, costs, k) = Profit(r1, f1, c1, k) + Profit(r2, f2, c2, k)
<1>1. \A column \in {"bill", "driverPay", "helperPay"} :
         Billed(TruckTrips(rows, k), column)
            = Billed(TruckTrips(r1, k), column) + Billed(TruckTrips(r2, k), column)
  BY TripsAdd
<1>2. Fuelled(TruckLogs(fuels, k)) = Fuelled(TruckLogs(f1, k)) + Fuelled(TruckLogs(f2, k))
  BY LogsAdd
<1>3. Spent(TruckCosts(costs, k)) = Spent(TruckCosts(c1, k)) + Spent(TruckCosts(c2, k))
  BY CostsAdd
<1>4. /\ \A column \in {"bill", "driverPay", "helperPay"} :
            Billed(TruckTrips(r1, k), column) \in Int /\ Billed(TruckTrips(r2, k), column) \in Int
      /\ Fuelled(TruckLogs(f1, k)) \in Int /\ Fuelled(TruckLogs(f2, k)) \in Int
      /\ Spent(TruckCosts(c1, k)) \in Int /\ Spent(TruckCosts(c2, k)) \in Int
  BY TruckSums
<1> QED
  BY <1>1, <1>2, <1>3, <1>4 DEF Profit

\* And the pay of a worker.
LEMMA PayAdds ==
    ASSUME NEW rows, Priced(rows), NEW r1, NEW r2, rows = r1 \cup r2, r1 \cap r2 = {}, NEW w
    PROVE  /\ Billed(DrivenBy(rows, w), "driverPay")
                 = Billed(DrivenBy(r1, w), "driverPay") + Billed(DrivenBy(r2, w), "driverPay")
           /\ Billed(HelpedBy(rows, w), "helperPay")
                 = Billed(HelpedBy(r1, w), "helperPay") + Billed(HelpedBy(r2, w), "helperPay")
<1>1. PICK D, D1, D2 : D = DrivenBy(rows, w) /\ D1 = DrivenBy(r1, w) /\ D2 = DrivenBy(r2, w)
  OBVIOUS
<1>2. D \in SUBSET rows /\ D = D1 \cup D2 /\ D1 \cap D2 = {}
  BY <1>1 DEF DrivenBy
<1>3. Billed(D, "driverPay") = Billed(D1, "driverPay") + Billed(D2, "driverPay")
  BY <1>2, BilledSplit
<1>4. PICK H, H1, H2 : H = HelpedBy(rows, w) /\ H1 = HelpedBy(r1, w) /\ H2 = HelpedBy(r2, w)
  OBVIOUS
<1>5. H \in SUBSET rows /\ H = H1 \cup H2 /\ H1 \cap H2 = {}
  BY <1>4 DEF HelpedBy
<1>6. Billed(H, "helperPay") = Billed(H1, "helperPay") + Billed(H2, "helperPay")
  BY <1>5, BilledSplit
<1> QED
  BY <1>1, <1>3, <1>4, <1>6

LEMMA MeetAt ==
    ASSUME TypeInv, Dutiful, Readable, NEW w \in Windows, NEW d \in w[1] .. w[2] - 1,
           NEW start, start = <<w[1], d>>, NEW rest, rest = <<d + 1, w[2]>>
    PROVE  /\ Adds(truckPnl(w), truckPnl(start), truckPnl(rest), "truckId", "profit")
           /\ \A field \in {"driverPay", "helperPay"} :
                 Adds(workerPay(w), workerPay(start), workerPay(rest), "workerId", field)
<1>1. PICK rows, r1, r2, fuels, f1, f2, costs, c1, c2 :
         /\ rows = fetchTripRows(w) /\ r1 = fetchTripRows(start) /\ r2 = fetchTripRows(rest)
         /\ fuels = fetchFuelRows(w) /\ f1 = fetchFuelRows(start) /\ f2 = fetchFuelRows(rest)
         /\ costs = fetchCostRows(w) /\ c1 = fetchCostRows(start) /\ c2 = fetchCostRows(rest)
  OBVIOUS
<1>2. /\ Priced(rows) /\ Priced(r1) /\ Priced(r2)
      /\ Fuelling(fuels) /\ Fuelling(f1) /\ Fuelling(f2)
      /\ Spending(costs) /\ Spending(c1) /\ Spending(c2)
  BY <1>1, TablesTyped
<1>3. /\ rows = r1 \cup r2 /\ r1 \cap r2 = {}
      /\ fuels = f1 \cup f2 /\ f1 \cap f2 = {}
      /\ costs = c1 \cup c2 /\ c1 \cap c2 = {}
  BY <1>1, WindowCut
<1>4. /\ truckPnl(w) = aggregateTruckPnl(rows, fuels, costs)
      /\ truckPnl(start) = aggregateTruckPnl(r1, f1, c1)
      /\ truckPnl(rest) = aggregateTruckPnl(r2, f2, c2)
      /\ workerPay(w) = aggregateWorkerPay(rows)
      /\ workerPay(start) = aggregateWorkerPay(r1)
      /\ workerPay(rest) = aggregateWorkerPay(r2)
  BY <1>1 DEF truckPnl, workerPay
<1>5. Adds(truckPnl(w), truckPnl(start), truckPnl(rest), "truckId", "profit")
  <2>1. ASSUME NEW k
        PROVE  About(truckPnl(w), "truckId", k, "profit")
                  = About(truckPnl(start), "truckId", k, "profit")
                       + About(truckPnl(rest), "truckId", k, "profit")
    <3>1. /\ About(truckPnl(w), "truckId", k, "profit") = Profit(rows, fuels, costs, k)
          /\ About(truckPnl(start), "truckId", k, "profit") = Profit(r1, f1, c1, k)
          /\ About(truckPnl(rest), "truckId", k, "profit") = Profit(r2, f2, c2, k)
      BY <1>2, <1>4, ProfitAbout
    <3>2. Profit(rows, fuels, costs, k) = Profit(r1, f1, c1, k) + Profit(r2, f2, c2, k)
      BY <1>2, <1>3, ProfitAdds
    <3> QED
      BY <3>1, <3>2
  <2> QED
    BY <2>1 DEF Adds
<1>6. ASSUME NEW field \in {"driverPay", "helperPay"}
      PROVE  Adds(workerPay(w), workerPay(start), workerPay(rest), "workerId", field)
  <2>1. ASSUME NEW k, k # None
        PROVE  About(workerPay(w), "workerId", k, field)
                  = About(workerPay(start), "workerId", k, field)
                       + About(workerPay(rest), "workerId", k, field)
    <3>1. CASE field = "driverPay"
      BY <1>2, <1>3, <1>4, <2>1, <3>1, PayAbout, PayAdds
    <3>2. CASE field = "helperPay"
      BY <1>2, <1>3, <1>4, <2>1, <3>2, PayAbout, PayAdds
    <3> QED
      BY <3>1, <3>2
  <2>2. ASSUME NEW r \in workerPay(w) \cup workerPay(start) \cup workerPay(rest)
        PROVE  r.workerId # None
    <3>1. PICK q : r \in aggregateWorkerPay(q)
      BY <1>4
    <3>2. PICK x \in WorkersIn(q) : r = WorkerRow(q, x)
      BY <3>1 DEF aggregateWorkerPay, WorkersIn, WorkerRow
    <3> QED
      BY <3>2 DEF WorkersIn, WorkerRow
  <2>3. None \notin {r["workerId"] : r \in workerPay(w) \cup workerPay(start) \cup workerPay(rest)}
    BY <2>2
  <2> QED
    BY <2>1, <2>3 DEF Adds
<1> QED
  BY <1>5, <1>6

LEMMA MeetIn == TypeInv /\ Dutiful /\ Readable => MeetingWindowsAdd
<1> SUFFICES ASSUME TypeInv, Dutiful, Readable, NEW w \in Windows, NEW d \in w[1] .. w[2] - 1
             PROVE
    /\ Adds(truckPnl(w), truckPnl(<<w[1], d>>), truckPnl(<<d + 1, w[2]>>), "truckId", "profit")
    /\ \A field \in {"driverPay", "helperPay"} :
          Adds(workerPay(w), workerPay(<<w[1], d>>), workerPay(<<d + 1, w[2]>>), "workerId", field)
  BY Zenon DEF MeetingWindowsAdd
<1> QED
  BY MeetAt

-----------------------------------------------------------------------------
\* Days add up.

\* The logs of a report on the state of work, by their status.
LEMMA BucketsAdd ==
    ASSUME TypeInv, Dutiful, Readable, NEW w \in Windows, NEW status \in OperStatus
    PROVE  SumFunction([r \in operational(w).perDay |-> r.bucket[status]])
              = operational(w).totals[status]
<1>1. PICK rows, days, R : /\ rows = fetchOperationalRows(w) /\ days = enumerateDays(w)
                           /\ R = operational(w).perDay
  OBVIOUS
<1>2. PICK row : row = [d \in days |-> [date |-> d, bucket |-> Bucket({l \in rows : log[l].key[2] = d})]]
  OBVIOUS
<1>3. PICK S : S = {l \in rows : LogOf[log[l].figure].oper = status}
  OBVIOUS
<1>4. PICK key, one : key = [l \in rows |-> log[l].key[2]] /\ one = [l \in rows |-> 1]
  OBVIOUS
<1>5. PICK g : g = [r \in R |-> r.bucket[status]]
  OBVIOUS
<1>6. IsFiniteSet(S) /\ \A own \in SUBSET S : SumFunctionOnSet(one, own) = Cardinality(own)
  <2>1. IsFiniteSet(rows) /\ S \in SUBSET rows
    BY <1>1, <1>3, TablesTyped
  <2>2. ASSUME NEW own \in SUBSET rows PROVE SumFunctionOnSet(one, own) = Cardinality(own)
    <3>1. IsFiniteSet(own) /\ \A l \in own : one[l] = 1
      BY <1>4, <2>1, FS_Subset
    <3> QED
      BY <3>1, SumOfOnes
  <2> QED
    BY <2>1, <2>2, FS_Subset
<1>7. w[1] \in Int /\ w[2] \in Int /\ days = w[1] .. w[2]
  <2>1. w[1] \in Dates /\ w[2] \in Dates
    BY DEF Windows
  <2>2. w[1] \in Int /\ w[2] \in Int
    BY <2>1, DatesAssumption
  <2> QED
    BY <1>1, <2>2 DEF enumerateDays
<1>8. IsFiniteSet(days)
  BY <1>7, FS_Interval
<1>9. \A l \in S : key[l] \in days /\ one[l] \in Int
  <2>1. \A l \in rows : Opened(l) /\ l \in Logs /\ Within(log[l].key[2], w)
    BY <1>1 DEF fetchOperationalRows
  <2>2. \A l \in rows : log[l].key[2] \in days
    BY <1>7, <2>1, DatesTyped DEF Within
  <2> QED
    BY <1>3, <1>4, <2>2
<1>10. operational(w).totals = Bucket(rows) /\ R = {row[d] : d \in days}
  BY <1>1, <1>2 DEF operational, aggregateOperational
<1>11. /\ row \in [days -> R] /\ \A r \in R : \E d \in days : row[d] = r
       /\ \A c, d \in days : row[c] = row[d] => c = d
  BY <1>2, <1>10
<1>12. ASSUME NEW d \in days
       PROVE  g[row[d]] = SumFunctionOnSet(one, {l \in S : key[l] = d})
  <2>1. PICK own : own = {l \in S : key[l] = d}
    OBVIOUS
  <2>2. own = {l \in {m \in rows : log[m].key[2] = d} : LogOf[log[l].figure].oper = status}
    BY <1>3, <1>4, <2>1
  <2>3. row[d].bucket[status] = Cardinality(own)
    BY <1>2, <2>2 DEF Bucket
  <2>4. g[row[d]] = Cardinality(own)
    BY <1>5, <1>11, <2>3
  <2>5. SumFunctionOnSet(one, own) = Cardinality(own)
    BY <1>6, <2>1
  <2> QED
    BY <2>1, <2>4, <2>5
<1>13. SumFunctionOnSet(g, R) = SumFunctionOnSet(one, S)
  BY <1>6, <1>8, <1>9, <1>11, <1>12, SumGrouped, SMTT(60)
<1>14. SumFunctionOnSet(one, S) = Cardinality(S)
  BY <1>6
<1>15. Bucket(rows)[status] = Cardinality(S)
  BY <1>3 DEF Bucket
<1>16. SumFunction(g) = SumFunctionOnSet(g, R)
  BY <1>5 DEF SumFunction
<1> QED
  BY <1>1, <1>5, <1>10, <1>13, <1>14, <1>15, <1>16

\* A day of a report is the report on that day.
LEMMA OneDay ==
    ASSUME TypeInv, Dutiful, Readable, NEW w \in Windows, NEW d \in enumerateDays(w)
    PROVE  /\ {l \in fetchOperationalRows(w) : log[l].key[2] = d} = fetchOperationalRows(<<d, d>>)
           /\ {t \in fetchTripRows(w) : DateOf(t) = d} = fetchTripRows(<<d, d>>)
<1>1. /\ w[1] \in Int /\ w[2] \in Int /\ d \in Int /\ w[1] <= d /\ d <= w[2]
  <2>1. w[1] \in Dates /\ w[2] \in Dates
    BY DEF Windows
  <2>2. w[1] \in Int /\ w[2] \in Int
    BY <2>1, DatesAssumption
  <2> QED
    BY <2>2 DEF enumerateDays
<1>2. \A x \in Int : Within(x, <<d, d>>) <=> Within(x, w) /\ x = d
  BY <1>1 DEF Within
<1>3. fetchTripRows(<<d, d>>) = {t \in fetchTripRows(w) : DateOf(t) = d}
  BY <1>2, DatesTyped DEF fetchTripRows
<1>4. fetchOperationalRows(<<d, d>>) = {l \in fetchOperationalRows(w) : log[l].key[2] = d}
  BY <1>2, DatesTyped DEF fetchOperationalRows
<1> QED
  BY <1>3, <1>4

\* As many trucks are on the road as there are rows per truck.
LEMMA TrucksCounted ==
    ASSUME NEW rows, IsFiniteSet(rows)
    PROVE  Cardinality(aggregateTrips(rows).perTruck) = Cardinality({TruckOf(t) : t \in rows})
<1>1. PICK K, R : K = {TruckOf(t) : t \in rows} /\ R = aggregateTrips(rows).perTruck
  OBVIOUS
<1>2. PICK row : row = [k \in K |->
         [truckId |-> k, tripCount |-> Cardinality({t \in rows : TruckOf(t) = k})]]
  OBVIOUS
<1>3. /\ row \in [K -> R] /\ \A r \in R : \E k \in K : row[k] = r
      /\ \A k, l \in K : row[k] = row[l] => k = l
  BY <1>1, <1>2 DEF aggregateTrips
<1>4. IsFiniteSet(K)
  <2>1. PICK key : key = [t \in rows |-> TruckOf(t)]
    OBVIOUS
  <2>2. \A y \in K : \E x \in rows : key[x] = y
    BY <1>1, <2>1
  <2> QED
    BY <2>2, ImageFinite
<1>5. row \in Bijection(K, R)
  BY <1>3 DEF Bijection, Injection, Surjection, IsInjective
<1>6. Cardinality(K) = Cardinality(R)
  BY <1>4, <1>5, FS_Bijection DEF ExistsBijection
<1> QED
  BY <1>1, <1>6

LEMMA DaysIn == TypeInv /\ Dutiful /\ Readable => DaysAdd
<1> SUFFICES ASSUME TypeInv, Dutiful, Readable, NEW w \in Windows
             PROVE
    /\ \A status \in OperStatus :
          SumFunction([r \in operational(w).perDay |-> r.bucket[status]])
             = operational(w).totals[status]
    /\ \A r \in operational(w).perDay : r.bucket = operational(<<r.date, r.date>>).totals
    /\ \A r \in utilization(w) :
          r.trucksWithTrips = Cardinality(trips(<<r.date, r.date>>).perTruck)
  BY Zenon DEF DaysAdd
<1>1. ASSUME NEW r \in operational(w).perDay
      PROVE  r.bucket = operational(<<r.date, r.date>>).totals
  <2>1. PICK d \in enumerateDays(w) :
           r = [date |-> d, bucket |-> Bucket({l \in fetchOperationalRows(w) : log[l].key[2] = d})]
    BY DEF operational, aggregateOperational
  <2>2. operational(<<d, d>>).totals = Bucket(fetchOperationalRows(<<d, d>>))
    BY DEF operational, aggregateOperational
  <2>3. r.bucket = Bucket(fetchOperationalRows(<<d, d>>)) /\ r.date = d
    BY <2>1, OneDay
  <2> QED
    BY <2>2, <2>3
<1>2. ASSUME NEW r \in utilization(w)
      PROVE  r.trucksWithTrips = Cardinality(trips(<<r.date, r.date>>).perTruck)
  <2>1. PICK d \in enumerateDays(w) :
           /\ r.date = d
           /\ r.trucksWithTrips =
                 Cardinality({TruckOf(t) : t \in {q \in fetchTripRows(w) : DateOf(q) = d}})
    <3>1. PICK d \in enumerateDays(w) :
             r = [date |-> d,
                  activeTrucks |-> Cardinality({k \in Trucks : truck[k] = "active"}),
                  trucksWithTrips |->
                     Cardinality({TruckOf(t) : t \in {q \in fetchTripRows(w) : DateOf(q) = d}})]
      BY Zenon DEF utilization, aggregateUtilization
    <3> QED
      BY <3>1
  <2>2. PICK rows : rows = fetchTripRows(<<d, d>>)
    OBVIOUS
  <2>3. r.trucksWithTrips = Cardinality({TruckOf(t) : t \in rows})
    BY <2>1, <2>2, OneDay
  <2>4. trips(<<d, d>>).perTruck = aggregateTrips(rows).perTruck
    BY <2>2 DEF trips
  <2>5. IsFiniteSet(rows)
    BY <2>2, TablesTyped DEF Priced
  <2> QED
    BY <2>1, <2>3, <2>4, <2>5, TrucksCounted
<1> QED
  BY <1>1, <1>2, BucketsAdd

\* However a window of dates is cut its reports are the sums of those on its
\* parts, in every reachable state: no day is lost or counted twice
\* (resolveRange, enumerateDays, the date filters of reporting.service.ts).
THEOREM WindowsAddUp == ReportingSpec => []WindowsAdd
<1>1. TypeInv /\ Dutiful /\ Readable => WindowsAdd
  BY MeetIn, DaysIn DEF WindowsAdd
<1> QED
  BY <1>1, ReadableCorrect, PTL
=============================================================================
