---------------------------- MODULE Operations ----------------------------
(***************************************************************************)
(* The operations module (operations.service.ts): daily logs and the trips *)
(* under them, statement by statement.  A slot is one HTTP request in      *)
(* flight, Duties[s] the kinds it serves.  Clients, workers and trucks are *)
(* never deleted, so the checks that they exist cannot go stale and are    *)
(* left out, and so is trip.created, which nothing listens to.             *)
(***************************************************************************)
EXTENDS Integers, FiniteSets, FiniteSetsExt

CONSTANTS Slots, Duties, Logs, Trips,
          TruckDays,   \* pairs of a truck and a date: what a log is unique for
          Figures,     \* what a patch of a log or of a trip may write
          None         \* not a value of any other set

Kinds == {"open", "amend", "confirm", "record", "edit", "drop"}

ASSUME DutiesAssumption == Duties \in [Slots -> SUBSET Kinds]
ASSUME NoneAssumption == None \notin Logs \cup Trips \cup TruckDays \cup Figures

VARIABLES log,       \* table DailyTruckLog
          trip,      \* table Trip; a deleted row keeps its fields as history
          req,       \* the request each slot serves
          answered,  \* the logs POST /daily-logs has answered with, per key
          confirms   \* how often a log has been confirmed

vars == <<log, trip, req, answered, confirms>>

-----------------------------------------------------------------------------
LogRow  == [status : {"absent", "draft", "confirmed"},
            key : TruckDays \cup {None}, figure : Figures \cup {None}]
TripRow == [state : {"absent", "live", "deleted"}, log : Logs \cup {None},
            seq : Nat, born : Nat, figure : Figures \cup {None}]

NoLog  == [status |-> "absent", key |-> None, figure |-> None]
NoTrip == [state |-> "absent", log |-> None, seq |-> 0, born |-> 0, figure |-> None]

Request == [pc : {"idle", "insert", "find", "amend", "confirm", "seqs", "put",
                  "patch", "drop"},
            key : TruckDays \cup {None}, log : Logs \cup {None},
            trip : Trips \cup {None}, figure : Figures \cup {None},
            seqs : SUBSET Nat]

Idle == [pc |-> "idle", key |-> None, log |-> None, trip |-> None,
         figure |-> None, seqs |-> {}]

Opened(l)  == log[l].status # "absent"
Live(t)    == trip[t].state = "live"
LogsFor(k) == {l \in Logs : Opened(l) /\ log[l].key = k}
TripsOf(l) == {t \in Trips : Live(t) /\ trip[t].log = l}
Ever       == {t \in Trips : trip[t].state # "absent"}

Serves(s, duty) == duty \in Duties[s] /\ req[s].pc = "idle"
Return(s) == req' = [req EXCEPT ![s] = Idle]

Init ==
    /\ log = [l \in Logs |-> NoLog]
    /\ trip = [t \in Trips |-> NoTrip]
    /\ req = [s \in Slots |-> Idle]
    /\ answered = [k \in TruckDays |-> {}]
    /\ confirms = [l \in Logs |-> 0]

-----------------------------------------------------------------------------
\* POST /daily-logs: insert, or on the unique index of truck and date answer
\* with the row that is there.

StartLog(s, k, f) ==
    /\ Serves(s, "open")
    /\ req' = [req EXCEPT ![s] = [Idle EXCEPT !.pc = "insert", !.key = k, !.figure = f]]
    /\ UNCHANGED <<log, trip, answered, confirms>>

\* Mutant of InsertLog: no index keeps a truck and date to one log.
InsertAnyLog(s, l) ==
    /\ req[s].pc = "insert"
    /\ ~Opened(l)
    /\ log' = [log EXCEPT ![l] = [status |-> "draft", key |-> req[s].key,
                                  figure |-> req[s].figure]]
    /\ answered' = [answered EXCEPT ![req[s].key] = @ \cup {l}]
    /\ Return(s)
    /\ UNCHANGED <<trip, confirms>>

InsertLog(s, l) ==
    /\ req[s].pc = "insert"
    /\ ~Opened(l)
    /\ LogsFor(req[s].key) = {}
    /\ log' = [log EXCEPT ![l] = [status |-> "draft", key |-> req[s].key,
                                  figure |-> req[s].figure]]
    /\ answered' = [answered EXCEPT ![req[s].key] = @ \cup {l}]
    /\ Return(s)
    /\ UNCHANGED <<trip, confirms>>

LogTaken(s) ==                                     \* P2002
    /\ req[s].pc = "insert"
    /\ LogsFor(req[s].key) # {}
    /\ req' = [req EXCEPT ![s].pc = "find"]
    /\ UNCHANGED <<log, trip, answered, confirms>>

\* Mutant of FindLog: only drafts are looked for.
FindDraft(s) == LET drafts == {l \in LogsFor(req[s].key) : log[l].status = "draft"} IN
    /\ req[s].pc = "find"
    /\ \E l \in IF drafts = {} THEN {None} ELSE drafts :
          answered' = [answered EXCEPT ![req[s].key] = @ \cup {l}]
    /\ Return(s)
    /\ UNCHANGED <<log, trip, confirms>>

FindLog(s) ==
    /\ req[s].pc = "find"
    /\ \E l \in LogsFor(req[s].key) :
          answered' = [answered EXCEPT ![req[s].key] = @ \cup {l}]
    /\ Return(s)
    /\ UNCHANGED <<log, trip, confirms>>

-----------------------------------------------------------------------------
\* PATCH /daily-logs/:id and PATCH /daily-logs/:id/confirm.

StartAmend(s, l, f) ==
    /\ Serves(s, "amend")
    /\ Opened(l)
    /\ req' = [req EXCEPT ![s] = [Idle EXCEPT !.pc = "amend", !.log = l, !.figure = f]]
    /\ UNCHANGED <<log, trip, answered, confirms>>

\* Mutant of AmendLog: the row is written back as a draft.
AmendDraft(s) ==
    /\ req[s].pc = "amend"
    /\ log' = [log EXCEPT ![req[s].log] = [@ EXCEPT !.figure = req[s].figure,
                                                    !.status = "draft"]]
    /\ Return(s)
    /\ UNCHANGED <<trip, answered, confirms>>

\* Only the columns the patch names are written, never the status.
AmendLog(s) ==
    /\ req[s].pc = "amend"
    /\ log' = [log EXCEPT ![req[s].log].figure = req[s].figure]
    /\ Return(s)
    /\ UNCHANGED <<trip, answered, confirms>>

StartConfirm(s, l) ==
    /\ Serves(s, "confirm")
    /\ log[l].status = "draft"
    /\ req' = [req EXCEPT ![s] = [Idle EXCEPT !.pc = "confirm", !.log = l]]
    /\ UNCHANGED <<log, trip, answered, confirms>>

ConfirmLog(s) ==
    /\ req[s].pc = "confirm"
    /\ log' = [log EXCEPT ![req[s].log].status = "confirmed"]
    /\ confirms' = [confirms EXCEPT ![req[s].log] = @ + 1]
    /\ Return(s)
    /\ UNCHANGED <<trip, answered>>

-----------------------------------------------------------------------------
\* POST /daily-logs/:id/trips: the log, the seqs of its trips, the insert.

StartTrip(s, l, f) ==
    /\ Serves(s, "record")
    /\ Opened(l)
    /\ req' = [req EXCEPT ![s] = [Idle EXCEPT !.pc = "seqs", !.log = l, !.figure = f]]
    /\ UNCHANGED <<log, trip, answered, confirms>>

ReadSeqs(s) ==
    /\ req[s].pc = "seqs"
    /\ req' = [req EXCEPT ![s].pc = "put",
                          ![s].seqs = {trip[t].seq : t \in TripsOf(req[s].log)}]
    /\ UNCHANGED <<log, trip, answered, confirms>>

\* Mutant of nextSeq: the count of the trips, plus one.
CountSeq(seqs) == Cardinality(seqs) + 1

nextSeq(seqs) == Max(seqs \cup {0}) + 1

InsertTrip(s, t) ==
    /\ req[s].pc = "put"
    /\ trip[t].state = "absent"
    /\ trip' = [trip EXCEPT ![t] =
          [state |-> "live", log |-> req[s].log, seq |-> nextSeq(req[s].seqs),
           born |-> Cardinality(Ever) + 1, figure |-> req[s].figure]]
    /\ Return(s)
    /\ UNCHANGED <<log, answered, confirms>>

-----------------------------------------------------------------------------
\* PATCH /trips/:id and DELETE /trips/:id: look, then write by id.

StartEdit(s, t, f) ==
    /\ Serves(s, "edit")
    /\ Live(t)
    /\ req' = [req EXCEPT ![s] = [Idle EXCEPT !.pc = "patch", !.trip = t, !.figure = f]]
    /\ UNCHANGED <<log, trip, answered, confirms>>

\* Mutant of PatchTrip: an upsert, which brings a deleted trip back.
UpsertTrip(s) ==
    /\ req[s].pc = "patch"
    /\ trip' = [trip EXCEPT ![req[s].trip] = [@ EXCEPT !.figure = req[s].figure,
                                                       !.state = "live"]]
    /\ Return(s)
    /\ UNCHANGED <<log, answered, confirms>>

PatchTrip(s) == LET t == req[s].trip IN
    /\ req[s].pc = "patch"
    /\ trip' = IF Live(t) THEN [trip EXCEPT ![t].figure = req[s].figure]
                          ELSE trip                \* P2025
    /\ Return(s)
    /\ UNCHANGED <<log, answered, confirms>>

StartDrop(s, t) ==
    /\ Serves(s, "drop")
    /\ Live(t)
    /\ req' = [req EXCEPT ![s] = [Idle EXCEPT !.pc = "drop", !.trip = t]]
    /\ UNCHANGED <<log, trip, answered, confirms>>

DropTrip(s) == LET t == req[s].trip IN
    /\ req[s].pc = "drop"
    /\ trip' = IF Live(t) THEN [trip EXCEPT ![t].state = "deleted"]
                          ELSE trip                \* P2025
    /\ Return(s)
    /\ UNCHANGED <<log, answered, confirms>>

\* A statement throws, a transaction times out or the process dies.
Fail(s) ==
    /\ req[s].pc # "idle"
    /\ Return(s)
    /\ UNCHANGED <<log, trip, answered, confirms>>

-----------------------------------------------------------------------------
LogStep(s) ==
    \/ \E k \in TruckDays, f \in Figures : StartLog(s, k, f)
    \/ \E l \in Logs : InsertLog(s, l)
    \/ LogTaken(s) \/ FindLog(s)
    \/ \E l \in Logs, f \in Figures : StartAmend(s, l, f)
    \/ AmendLog(s)
    \/ \E l \in Logs : StartConfirm(s, l)
    \/ ConfirmLog(s)

TripStep(s) ==
    \/ \E l \in Logs, f \in Figures : StartTrip(s, l, f)
    \/ ReadSeqs(s)
    \/ \E t \in Trips : InsertTrip(s, t)
    \/ \E t \in Trips, f \in Figures : StartEdit(s, t, f)
    \/ PatchTrip(s)
    \/ \E t \in Trips : StartDrop(s, t)
    \/ DropTrip(s)

Next == \E s \in Slots : LogStep(s) \/ TripStep(s) \/ Fail(s)

Spec == Init /\ [][Next]_vars

-----------------------------------------------------------------------------
\* Which requests may be concurrent: the conditions the results below need.

AtMostOne(duties) == \A s, t \in Slots :
    s # t => Duties[s] \cap duties = {} \/ Duties[t] \cap duties = {}

OneRecorder  == AtMostOne({"record"})
OneConfirmer == AtMostOne({"confirm"})

-----------------------------------------------------------------------------
\* Every variable holds a value of its type.
TypeOK ==
    /\ log \in [Logs -> LogRow]
    /\ trip \in [Trips -> TripRow]
    /\ req \in [Slots -> Request]
    /\ answered \in [TruckDays -> SUBSET Logs]
    /\ confirms \in [Logs -> Nat]

\* "A racing/duplicate create returns the existing log": all answers for a
\* truck and date are the one log there is, and the look for it after a
\* refused insert finds it.
OneAnswer ==
    /\ \A k \in TruckDays : \A l, m \in answered[k] \cup LogsFor(k) : l = m
    /\ \A s \in Slots : req[s].pc = "find" => LogsFor(req[s].key) # {}

\* One confirmation at a time: a log is confirmed once, and stays confirmed
\* whatever amendments overtake it.
ConfirmedOnce == \A l \in Logs :
    confirms[l] = IF log[l].status = "confirmed" THEN 1 ELSE 0

\* One recorder at a time: the seqs of a log number its trips in the order of
\* their creation, whatever is deleted meanwhile.
SeqsOrderTrips == \A t, u \in Trips :
    Live(t) /\ Live(u) /\ trip[t].log = trip[u].log /\ trip[t].born < trip[u].born
        => trip[t].seq < trip[u].seq

\* What keeps them in order: a creation holds every seq that is in use.
RecorderView == \A s \in Slots :
    req[s].pc = "put" =>
        {trip[t].seq : t \in TripsOf(req[s].log)} \subseteq req[s].seqs

\* A slot serves the kind of request its duties name, on rows that exist; a
\* trip that exists is under a log, a log that exists has its key.
Dutiful ==
    /\ \A l \in Logs : Opened(l) => log[l].key \in TruckDays
    /\ \A t \in Ever : trip[t].log \in Logs /\ Opened(trip[t].log)
    /\ \A s \in Slots :
        /\ req[s].pc \in {"insert", "find"} => req[s].key \in TruckDays
        /\ req[s].pc \in {"amend", "confirm", "seqs", "put"} =>
              req[s].log \in Logs /\ Opened(req[s].log)
        /\ req[s].pc \in {"patch", "drop"} => req[s].trip \in Ever
        /\ req[s].pc = "confirm" => "confirm" \in Duties[s]
        /\ req[s].pc \in {"seqs", "put"} => "record" \in Duties[s]

\* What billing and payroll rely on: a trip is entered once, under a log that
\* exists; its log, and with it its date, never changes; deleted it never
\* returns, not even by an edit that was under way.
TripLife == [][\A t \in Trips :
    /\ Live(t) => trip'[t].log = trip[t].log /\ trip'[t].seq = trip[t].seq
    /\ trip[t].state = "deleted" => trip'[t] = trip[t]
    /\ trip'[t].state = "live" =>
          trip'[t].log \in Logs /\ log[trip'[t].log].key \in TruckDays]_vars

\* "To avoid two concurrent creates landing on the same number."
SeqsDistinct == \A t, u \in Trips :
    Live(t) /\ Live(u) /\ t # u /\ trip[t].log = trip[u].log
        => trip[t].seq # trip[u].seq

\* "Gaps left by deleted trips are intentionally NOT reused."
SeqsNotReused == \A t, u \in Ever :
    t # u /\ trip[t].log = trip[u].log => trip[t].seq # trip[u].seq
=============================================================================
