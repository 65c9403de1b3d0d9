------------------------------ MODULE Directory ------------------------------
(***************************************************************************)
(* Master data: clients, trucks and workers (clients.service.ts,           *)
(* fleet.service.ts, workforce.service.ts).  The three services are alike: *)
(* a row is inserted, its columns are changed as far as the request gives  *)
(* them, it is deactivated and never deleted.  Of the columns, the status  *)
(* and the one that is unique are kept: the code of a client or a truck,   *)
(* the user a worker is linked to.  A handler is one request in flight,    *)
(* Serving[s] the tables whose requests it serves.                         *)
(***************************************************************************)
EXTENDS Users

CONSTANTS Handlers, Serving, ClientIds, TruckIds, WorkerIds,
          Imported,   \* rows that are there before the first request
          Codes       \* of clients and trucks

ASSUME ServingAssumption ==
    Serving \in [Handlers -> SUBSET {"clients", "trucks", "workers"}]
ASSUME IdsAssumption ==
    ClientIds \cap TruckIds = {} /\ (ClientIds \cup TruckIds) \cap WorkerIds = {}
ASSUME CodesAssumption == None \notin Codes

VARIABLES row,    \* tables Client, Truck and Worker
          edit    \* the request each handler serves

directoryVars == <<row, edit>>

-----------------------------------------------------------------------------
Ids  == ClientIds \cup TruckIds \cup WorkerIds
Keys == Codes \cup UserIds

KeysOf == [clients |-> Codes, trucks |-> Codes, workers |-> UserIds]
RowsOf == [clients |-> ClientIds, trucks |-> TruckIds, workers |-> WorkerIds]

\* "off" is disabled of a client or a worker, inactive of a truck.
MasterRow == [status : {"absent", "active", "off"}, key : Keys \cup {None}]
NoMaster == [status |-> "absent", key |-> None]
Listed(i) == row[i].status # "absent"

\* The columns a request gives; None is a column it leaves out.
Columns == [status : {"active", "off", None}, key : Keys \cup {None}]
Off == [status |-> "off", key |-> None]

Paths == UNION {{<<base>>, <<base, ":id">>, <<base, ":id", "deactivate">>} :
                   base \in DOMAIN RowsOf}

\* Once done, a request holds the row as its statement left it.
Edit == [pc : {"idle", "insert", "write", "done"},
         method : {"POST", "PATCH", None},
         path : Paths \cup {<<>>},
         id : Ids \cup {None}, cols : Columns \cup {NoMaster}]

NoEdit == [pc |-> "idle", method |-> None, path |-> <<>>, id |-> None, cols |-> NoMaster]

Begin(s, r) ==
    /\ edit[s].pc = "idle" /\ r.path[1] \in Serving[s]
    /\ edit' = [edit EXCEPT ![s] = r]
    /\ UNCHANGED row

EndEdit(s) == edit' = [edit EXCEPT ![s] = NoEdit]

\* The import of the spreadsheets writes rows past the services.
DirectoryInit ==
    /\ row = [i \in Ids |-> IF i \in Imported THEN [NoMaster EXCEPT !.status = "active"] ELSE NoMaster]
    /\ edit = [s \in Handlers |-> NoEdit]

-----------------------------------------------------------------------------
\* The look for the row, and for the user a worker is linked to, is right for
\* good when it succeeds: neither is ever deleted.

Create(s, base, cols) == Begin(s,
    [pc |-> "insert", method |-> "POST", path |-> <<base>>, id |-> None, cols |-> cols])

Amend(s, i, path, cols) ==
    /\ Listed(i)                                   \* ensureExists
    /\ Begin(s, [pc |-> "write", method |-> "PATCH", path |-> path, id |-> i, cols |-> cols])

\* POST, PATCH /clients: the code is optional.
CreateClient(s, cols) == cols.key \in Codes \cup {None} /\ Create(s, "clients", cols)
UpdateClient(s, i, cols) ==
    i \in ClientIds /\ cols.key \in Codes \cup {None} /\ Amend(s, i, <<"clients", ":id">>, cols)
DeactivateClient(s, i) ==
    i \in ClientIds /\ Amend(s, i, <<"clients", ":id", "deactivate">>, Off)

\* POST, PATCH /trucks: every truck has a code.
CreateTruck(s, cols) == cols.key \in Codes /\ Create(s, "trucks", cols)
UpdateTruck(s, i, cols) ==
    i \in TruckIds /\ cols.key \in Codes \cup {None} /\ Amend(s, i, <<"trucks", ":id">>, cols)
DeactivateTruck(s, i) ==
    i \in TruckIds /\ Amend(s, i, <<"trucks", ":id", "deactivate">>, Off)

\* POST, PATCH /workers: the user linked must exist.
CreateWorker(s, cols) == cols.key \in Created \cup {None} /\ Create(s, "workers", cols)
UpdateWorker(s, i, cols) ==
    i \in WorkerIds /\ cols.key \in Created \cup {None} /\ Amend(s, i, <<"workers", ":id">>, cols)
DeactivateWorker(s, i) ==
    i \in WorkerIds /\ Amend(s, i, <<"workers", ":id", "deactivate">>, Off)

-----------------------------------------------------------------------------
\* The statements.  A row of the same table holds the unique value already.
Taken(base, value, i) ==
    value # None /\ \E j \in RowsOf[base] \ {i} : row[j].key = value

\* Mutant of Patched: what is undefined is written as such.
PatchedBlank(old, cols) == cols

\* Prisma leaves out what is undefined: a PATCH is partial.
Patched(old, cols) ==
    [status |-> IF cols.status = None THEN old.status ELSE cols.status,
     key |-> IF cols.key = None THEN old.key ELSE cols.key]

Put(s, i, new) ==
    /\ row' = [row EXCEPT ![i] = new]
    /\ edit' = [edit EXCEPT ![s].pc = "done", ![s].id = i, ![s].cols = new]

InsertRow(s, i) == LET r == edit[s] IN
    /\ r.pc = "insert"
    /\ i \in RowsOf[r.path[1]] /\ ~Listed(i)
    /\ ~Taken(r.path[1], r.cols.key, i)
    /\ Put(s, i, Patched([status |-> "active", key |-> None], r.cols))

WriteRow(s) == LET r == edit[s] IN
    /\ r.pc = "write"
    /\ ~Taken(r.path[1], r.cols.key, r.id)
    /\ Put(s, r.id, Patched(row[r.id], r.cols))

\* P2002: rethrown as a 400.
KeyTaken(s) == LET r == edit[s] IN
    /\ r.pc \in {"insert", "write"}
    /\ Taken(r.path[1], r.cols.key, r.id)
    /\ EndEdit(s)
    /\ UNCHANGED row

-----------------------------------------------------------------------------
BeginAny(s) ==
    \/ \E cols \in Columns : CreateClient(s, cols) \/ CreateTruck(s, cols) \/ CreateWorker(s, cols)
    \/ \E i \in Ids, cols \in Columns :
          UpdateClient(s, i, cols) \/ UpdateTruck(s, i, cols) \/ UpdateWorker(s, i, cols)
    \/ \E i \in Ids : DeactivateClient(s, i) \/ DeactivateTruck(s, i) \/ DeactivateWorker(s, i)

Statement(s) == (\E i \in Ids : InsertRow(s, i)) \/ WriteRow(s)
=============================================================================
