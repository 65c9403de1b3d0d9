---------------------------- MODULE AccessProofs ----------------------------
(***************************************************************************)
(* Theorems about Access, for any slots, clients, handlers, rows, users    *)
(* and tokens, any lifetime of a token and any of the program's roles.     *)
(***************************************************************************)
EXTENDS Access, AuthProofs

-----------------------------------------------------------------------------
\* Who sees money.

\* To read "Financial" is what the financial roles are given and no other:
\* the denials add nothing to the grants.
LEMMA FinancialSeers ==
    ASSUME NEW R \in SUBSET RoleKey
    PROVE  Can(R, "read", "Financial") <=> R \cap FinancialRoles # {}
<1>1. ASSUME NEW role \in R \cap FinancialRoles PROVE Can(R, "read", "Financial")
  <2>1. \E rule \in Grants[role] : Covers(rule, "read", "Financial")
    <3>1. CASE role = "admin"
      <4>1. <<"manage", "all">> \in Grants[role]
        BY <3>1 DEF Grants
      <4> QED
        BY <4>1 DEF Covers
    <3>2. CASE role \in {"finance", "investor"}
      <4>1. <<"read", "Financial">> \in Grants[role]
        BY <3>2 DEF Grants
      <4> QED
        BY <4>1 DEF Covers
    <3> QED
      BY <1>1, <3>1, <3>2 DEF FinancialRoles
  <2>2. Denied(R) = {}
    BY <1>1 DEF Denied
  <2> QED
    BY <1>1, <2>1, <2>2 DEF Can
<1>2. ASSUME Can(R, "read", "Financial") PROVE R \cap FinancialRoles # {}
  <2>1. PICK role \in R : \E rule \in Grants[role] : Covers(rule, "read", "Financial")
    BY <1>2 DEF Can
  <2>2. PICK rule \in Grants[role] : Covers(rule, "read", "Financial")
    BY <2>1
  <2>3. rule[2] \in {"Financial", "all"}
    BY <2>2 DEF Covers
  <2>4. CASE role \in OpsRoles
    <3>1. rule[2] \in {"Worker", "Truck", "Client", "Trip", "DailyTruckLog"}
      BY <2>2, <2>4 DEF OpsRoles, Grants
    <3> QED
      BY <2>3, <3>1
  <2> QED
    BY <2>1, <2>4 DEF RoleKey, OpsRoles, FinancialRoles
<1> QED
  BY <1>1, <1>2

OpsSubjects == {"Worker", "Truck", "Client", "Trip", "DailyTruckLog"}

\* Roles of operations alone get no further than their own subjects.
LEMMA OpsReach ==
    ASSUME NEW R \in SUBSET RoleKey, R \cap FinancialRoles = {},
           NEW verb, NEW subject, Can(R, verb, subject)
    PROVE  subject \in OpsSubjects
<1>1. PICK role \in R : \E rule \in Grants[role] : Covers(rule, verb, subject)
  BY DEF Can
<1>2. PICK rule \in Grants[role] : Covers(rule, verb, subject)
  BY <1>1
<1>3. role \in OpsRoles
  BY DEF RoleKey, FinancialRoles, OpsRoles
<1>4. rule[2] \in OpsSubjects
  BY <1>2, <1>3 DEF OpsRoles, Grants, OpsSubjects
<1>5. rule[2] \in {subject, "all"}
  BY <1>2 DEF Covers
<1> QED
  BY <1>4, <1>5 DEF OpsSubjects

\* A route within reach of operations holds no money the gate does not cover.
Safe(route) ==
    \/ route.money \subseteq FINANCIAL_FIELDS
    \/ \E p \in route.policy : p[2] \notin OpsSubjects

LEMMA GuardedSafe ==
    ASSUME NEW methods, NEW paths, NEW verb, NEW subject, NEW money,
           money \subseteq FINANCIAL_FIELDS \/ subject \notin OpsSubjects,
           NEW route \in Guarded(methods, paths, verb, subject, money)
    PROVE  Safe(route)
<1>1. route.policy = {<<verb, subject>>} /\ route.money = money
  BY DEF Guarded
<1> QED
  BY <1>1 DEF Safe

LEMMA RoutesSafe == \A route \in Routes : Safe(route)
<1> USE GuardedSafe
<1>1. {} \subseteq FINANCIAL_FIELDS /\ TripMoney \subseteq FINANCIAL_FIELDS
      /\ LogMoney \subseteq FINANCIAL_FIELDS /\ RateMoney \subseteq FINANCIAL_FIELDS
      /\ {"purchasePrice"} \subseteq FINANCIAL_FIELDS
  BY DEF FINANCIAL_FIELDS, TripMoney, LogMoney, RateMoney
<1>2. ASSUME NEW base, NEW subject, NEW money, money \subseteq FINANCIAL_FIELDS,
             NEW route \in Master(base, subject, money)
      PROVE  Safe(route)
  BY <1>2, Zenon DEF Master
<1>3. \A route \in MasterRoutes : Safe(route)
  BY <1>1, <1>2, Zenon DEF MasterRoutes, ClientRoutes, TruckRoutes, WorkerRoutes
<1>4. \A route \in OperationsRoutes : Safe(route)
  BY <1>1, Zenon DEF OperationsRoutes
<1>5. /\ "RateCard" \notin OpsSubjects /\ "Rate" \notin OpsSubjects
      /\ "Report" \notin OpsSubjects /\ "Invoice" \notin OpsSubjects
      /\ "Payroll" \notin OpsSubjects /\ "Cost" \notin OpsSubjects
      /\ "Treasury" \notin OpsSubjects /\ "User" \notin OpsSubjects
      /\ "Role" \notin OpsSubjects
  BY DEF OpsSubjects
<1>6. \A route \in PricingRoutes : Safe(route)
  BY <1>1, <1>5, Zenon DEF PricingRoutes
<1>7. \A route \in ReportRoutes : Safe(route)
  BY <1>5, Zenon DEF ReportRoutes
<1>8. \A route \in InvoiceRoutes : Safe(route)
  BY <1>5, Zenon DEF InvoiceRoutes
<1>9. \A route \in PayrollRoutes : Safe(route)
  BY <1>5, Zenon DEF PayrollRoutes
<1>10. \A route \in CostRoutes : Safe(route)
  BY <1>5, Zenon DEF CostRoutes
<1>11. \A route \in TreasuryRoutes : Safe(route)
  BY <1>5, Zenon DEF TreasuryRoutes
<1>12. \A route \in UserRoutes \cup RoleRoutes : Safe(route)
  BY <1>5, Zenon DEF UserRoutes, RoleRoutes
<1>13. \A route \in AuthRoutes : Safe(route)
  <2>1. \A route \in AuthRoutes : route.money = {}
    BY DEF AuthRoutes
  <2> QED
    BY <2>1 DEF Safe
<1> QED
  BY <1>3, <1>4, <1>6, <1>7, <1>8, <1>9, <1>10, <1>11, <1>12, <1>13 DEF Routes

\* Whatever roles of the program a user has, the answers of the routes they
\* open show money in full or not at all: in full to the financial roles, not
\* at all to the others (casl-ability.factory.ts, financial-fields.ts and the
\* policies of the controllers).
THEOREM MoneyGate == Leaks = {}
<1> SUFFICES ASSUME NEW R \in SUBSET RoleKey, NEW route \in Routes, Passes(R, route)
             PROVE  Shown(R, route) =
                        IF R \cap FinancialRoles = {} THEN {} ELSE route.money
  BY DEF Leaks
<1>1. CASE R \cap FinancialRoles # {}
  BY <1>1, FinancialSeers DEF Shown
<1>2. CASE R \cap FinancialRoles = {}
  <2>1. \A p \in route.policy : p[2] \in OpsSubjects
    BY <1>2, OpsReach DEF Passes
  <2>2. route.money \subseteq FINANCIAL_FIELDS
    BY <2>1, RoutesSafe DEF Safe
  <2>3. Shown(R, route) = route.money \ FINANCIAL_FIELDS
    BY <1>2, FinancialSeers DEF Shown
  <2> QED
    BY <1>2, <2>2, <2>3
<1> QED
  BY <1>1, <1>2

-----------------------------------------------------------------------------
\* The values a request carries fit the table it is about, and it has been let
\* in with the claims of a user.

Tables == {"clients", "trucks", "workers"}

Suits(value, base) == value \in KeysOf[base] \cup {None}

RowsFit == \A base \in Tables : \A i \in RowsOf[base] : Suits(row[i].key, base)

Fit(r) ==
    /\ r.method \in {"POST", "PATCH"}
    /\ r.path[1] \in Tables
    /\ Suits(r.cols.key, r.path[1])
    /\ r.pc \in {"write", "done"} => r.id \in RowsOf[r.path[1]] /\ Listed(r.id)
    /\ r.pc \in {"insert", "write"} => r.cols \in Columns
    /\ r.pc = "done" => r.cols.status \in {"active", "off"}

RequestsFit == \A s \in Handlers :
    edit[s].pc # "idle" => who[s] \in Claims /\ Fit(edit[s])

AccessTyped == AccessOK /\ RowsFit /\ RequestsFit

LEMMA TablesRows ==
    /\ DOMAIN RowsOf = Tables
    /\ \A base \in Tables : RowsOf[base] \subseteq Ids /\ KeysOf[base] \subseteq Keys
    /\ \A base, other \in Tables : base # other => RowsOf[base] \cap RowsOf[other] = {}
BY IdsAssumption DEF RowsOf, KeysOf, Tables, Ids, Keys

LEMMA EditTyped == NoEdit \in Edit /\ NoEdit.pc = "idle"
BY Zenon DEF NoEdit, Edit, NoMaster

LEMMA PathsOf ==
    ASSUME NEW base \in Tables
    PROVE  {<<base>>, <<base, ":id">>, <<base, ":id", "deactivate">>} \subseteq Paths
<1>1. {<<base>>, <<base, ":id">>, <<base, ":id", "deactivate">>} \in
          {{<<b>>, <<b, ":id">>, <<b, ":id", "deactivate">>} : b \in DOMAIN RowsOf}
  BY TablesRows, Zenon
<1> QED
  BY <1>1, Zenon DEF Paths

LEMMA EditIs ==
    ASSUME NEW pc \in {"insert", "write"}, NEW method \in {"POST", "PATCH"},
           NEW path \in Paths, NEW i \in Ids \cup {None}, NEW cols \in Columns
    PROVE  [pc |-> pc, method |-> method, path |-> path, id |-> i, cols |-> cols]
               \in Edit
BY DEF Edit

\* What a creation and a change of a row begin with.
LEMMA CreateFits ==
    ASSUME NEW base \in Tables, NEW cols \in Columns, Suits(cols.key, base)
    PROVE  LET r == [pc |-> "insert", method |-> "POST", path |-> <<base>>,
                     id |-> None, cols |-> cols]
           IN  r \in Edit /\ r.pc = "insert" /\ Fit(r)
<1> DEFINE r == [pc |-> "insert", method |-> "POST", path |-> <<base>>,
                 id |-> None, cols |-> cols]
<1>1. <<base>> \in Paths
  BY PathsOf, Zenon
<1>2. r \in Edit
  BY <1>1, EditIs, Zenon
<1>3. r.path[1] = base
  OBVIOUS
<1> QED
  BY <1>2, <1>3 DEF Fit

LEMMA AmendFits ==
    ASSUME NEW base \in Tables, NEW i \in RowsOf[base], Listed(i),
           NEW cols \in Columns, Suits(cols.key, base),
           NEW path \in {<<base, ":id">>, <<base, ":id", "deactivate">>}
    PROVE  LET r == [pc |-> "write", method |-> "PATCH", path |-> path,
                     id |-> i, cols |-> cols]
           IN  r \in Edit /\ r.pc = "write" /\ Fit(r)
<1> DEFINE r == [pc |-> "write", method |-> "PATCH", path |-> path, id |-> i,
                 cols |-> cols]
<1>1. path \in Paths
  BY PathsOf, Zenon
<1>2. i \in Ids
  BY TablesRows
<1>3. r \in Edit
  BY <1>1, <1>2, EditIs, Zenon
<1>4. r.path[1] = base
  OBVIOUS
<1> QED
  BY <1>3, <1>4 DEF Fit

\* A request begins with values that fit.
LEMMA BeginFits ==
    ASSUME NEW s \in Handlers, BeginAny(s)
    PROVE  /\ edit[s].pc = "idle"
           /\ row' = row
           /\ \E r \in Edit :
                 r.pc \in {"insert", "write"} /\ Fit(r) /\ edit' = [edit EXCEPT ![s] = r]
<1> DEFINE Goal == /\ edit[s].pc = "idle"
                   /\ row' = row
                   /\ \E r \in Edit : /\ r.pc \in {"insert", "write"} /\ Fit(r)
                                          /\ edit' = [edit EXCEPT ![s] = r]
<1>1. ASSUME NEW base \in Tables, NEW cols \in Columns, Suits(cols.key, base),
             Create(s, base, cols)
      PROVE  Goal
  BY <1>1, CreateFits, Zenon DEF Create, Begin
<1>2. ASSUME NEW base \in Tables, NEW i \in RowsOf[base], NEW cols \in Columns,
             Suits(cols.key, base),
             NEW path \in {<<base, ":id">>, <<base, ":id", "deactivate">>},
             Amend(s, i, path, cols)
      PROVE  Goal
  BY <1>2, AmendFits, Zenon DEF Amend, Begin
<1>3. Off \in Columns /\ \A base \in Tables : Suits(Off.key, base)
  BY DEF Off, Columns, Suits
<1>4. /\ "clients" \in Tables /\ RowsOf["clients"] = ClientIds /\ KeysOf["clients"] = Codes
      /\ "trucks" \in Tables /\ RowsOf["trucks"] = TruckIds /\ KeysOf["trucks"] = Codes
      /\ "workers" \in Tables /\ RowsOf["workers"] = WorkerIds /\ KeysOf["workers"] = UserIds
  BY DEF Tables, RowsOf, KeysOf
<1>5. ASSUME NEW cols \in Columns,
             CreateClient(s, cols) \/ CreateTruck(s, cols) \/ CreateWorker(s, cols)
      PROVE  Goal
  <2>1. CASE CreateClient(s, cols)
    BY <1>1, <1>4, <2>1 DEF CreateClient, Suits
  <2>2. CASE CreateTruck(s, cols)
    BY <1>1, <1>4, <2>2 DEF CreateTruck, Suits
  <2>3. CASE CreateWorker(s, cols)
    BY <1>1, <1>4, <2>3 DEF CreateWorker, Suits, Created
  <2> QED
    BY <1>5, <2>1, <2>2, <2>3
<1>6. ASSUME NEW i \in Ids, NEW cols \in Columns,
             UpdateClient(s, i, cols) \/ UpdateTruck(s, i, cols) \/ UpdateWorker(s, i, cols)
      PROVE  Goal
  <2>1. CASE UpdateClient(s, i, cols)
    BY <1>2, <1>4, <2>1 DEF UpdateClient, Suits
  <2>2. CASE UpdateTruck(s, i, cols)
    BY <1>2, <1>4, <2>2 DEF UpdateTruck, Suits
  <2>3. CASE UpdateWorker(s, i, cols)
    BY <1>2, <1>4, <2>3 DEF UpdateWorker, Suits, Created
  <2> QED
    BY <1>6, <2>1, <2>2, <2>3
<1>7. ASSUME NEW i \in Ids,
             DeactivateClient(s, i) \/ DeactivateTruck(s, i) \/ DeactivateWorker(s, i)
      PROVE  Goal
  <2>1. CASE DeactivateClient(s, i)
    BY <1>2, <1>3, <1>4, <2>1 DEF DeactivateClient
  <2>2. CASE DeactivateTruck(s, i)
    BY <1>2, <1>3, <1>4, <2>2 DEF DeactivateTruck
  <2>3. CASE DeactivateWorker(s, i)
    BY <1>2, <1>3, <1>4, <2>3 DEF DeactivateWorker
  <2> QED
    BY <1>7, <2>1, <2>2, <2>3
<1> QED
  BY <1>5, <1>6, <1>7 DEF BeginAny

\* A statement leaves one row changed, which its request then holds.
Writes(s, i, new) ==
    /\ edit[s].pc \in {"insert", "write"}
    /\ i \in RowsOf[edit[s].path[1]]
    /\ new \in MasterRow /\ new.status \in {"active", "off"}
    /\ Suits(new.key, edit[s].path[1])
    /\ row' = [row EXCEPT ![i] = new]
    /\ edit' = [edit EXCEPT ![s] = [edit[s] EXCEPT !.pc = "done", !.id = i, !.cols = new]]

LEMMA StatementWrites ==
    ASSUME AccessTyped, NEW s \in Handlers, Statement(s)
    PROVE  \E i \in Ids, new \in MasterRow : Writes(s, i, new)
<1> DEFINE r == edit[s]
           base == r.path[1]
<1> USE DEF AccessTyped
<1>0. /\ r \in Edit /\ row \in [Ids -> MasterRow] /\ edit \in [Handlers -> Edit]
      /\ Statement(s) => base \in Tables /\ r.cols \in Columns /\ Suits(r.cols.key, base)
  BY DEF AccessOK, RequestsFit, Fit, Statement, InsertRow, WriteRow
<1>1. ASSUME NEW old, old.status \in {"active", "off"}, Suits(old.key, base)
      PROVE  LET new == Patched(old, r.cols)
             IN  /\ new \in MasterRow /\ new.status \in {"active", "off"}
                 /\ Suits(new.key, base)
  <2>1. base \in Tables /\ r.cols \in Columns /\ Suits(r.cols.key, base)
    BY <1>0
  <2>2. KeysOf[base] \subseteq Keys
    BY <2>1, TablesRows
  <2> QED
    BY <1>1, <2>1, <2>2 DEF Patched, Columns, MasterRow, Suits
<1>2. ASSUME NEW i \in Ids, NEW new \in MasterRow, Put(s, i, new)
      PROVE  /\ row' = [row EXCEPT ![i] = new]
             /\ edit' = [edit EXCEPT ![s] = [r EXCEPT !.pc = "done", !.id = i, !.cols = new]]
  BY <1>0, <1>2 DEF Put
<1>3. ASSUME NEW i \in Ids, InsertRow(s, i)
      PROVE  \E j \in Ids, new \in MasterRow : Writes(s, j, new)
  <2> DEFINE old == [status |-> "active", key |-> None]
             new == Patched(old, r.cols)
  <2>1. old.status \in {"active", "off"} /\ Suits(old.key, base)
    BY DEF Suits
  <2>2. new \in MasterRow /\ new.status \in {"active", "off"} /\ Suits(new.key, base)
    BY <1>1, <2>1
  <2> HIDE DEF old
  <2>3. Put(s, i, new)
    BY <1>3 DEF InsertRow, old
  <2>4. r.pc = "insert" /\ i \in RowsOf[base]
    BY <1>3 DEF InsertRow
  <2> QED
    BY <1>2, <2>2, <2>3, <2>4 DEF Writes
<1>4. ASSUME WriteRow(s)
      PROVE  \E j \in Ids, new \in MasterRow : Writes(s, j, new)
  <2> DEFINE i == r.id
             new == Patched(row[i], r.cols)
  <2>1. r.pc = "write" /\ i \in RowsOf[base] /\ Listed(i) /\ base \in Tables
    BY <1>4 DEF WriteRow, RequestsFit, Fit
  <2>2. i \in Ids
    BY <2>1, TablesRows
  <2>3. row[i].status \in {"active", "off"} /\ Suits(row[i].key, base)
    BY <1>0, <2>1, <2>2 DEF MasterRow, Listed, RowsFit
  <2>4. new \in MasterRow /\ new.status \in {"active", "off"} /\ Suits(new.key, base)
    BY <1>1, <2>3
  <2>5. Put(s, i, new)
    BY <1>4 DEF WriteRow
  <2> QED
    BY <1>2, <2>1, <2>2, <2>4, <2>5 DEF Writes
<1> QED
  BY <1>3, <1>4 DEF Statement

-----------------------------------------------------------------------------
\* What the trail is told is well formed.

LEMMA ChangeTyped ==
    ASSUME NEW base \in Tables, NEW actor \in UserIds, NEW i \in RowsOf[base],
           NEW action \in {"create", "update"},
           NEW after \in [status : {"active", "off"}, key : KeysOf[base] \cup {None}]
    PROVE  [actor |-> actor, entity |-> Entity[base], id |-> i,
            action |-> action, after |-> after] \in Change
<1> DEFINE of(b) == [actor : UserIds, entity : {Entity[b]}, id : RowsOf[b],
                     action : {"create", "update"},
                     after : [status : {"active", "off"}, key : KeysOf[b] \cup {None}]]
           record == [actor |-> actor, entity |-> Entity[base], id |-> i,
                      action |-> action, after |-> after]
<1>1. record \in of(base)
  OBVIOUS
<1>2. Change = UNION {of(b) : b \in Tables}
  BY TablesRows, Zenon DEF Change
<1> HIDE DEF of, record
<1>3. record \in Change
  BY <1>1, <1>2, Zenon
<1> QED
  BY <1>3 DEF record

LEMMA RecordTyped ==
    ASSUME NEW s \in Handlers, who[s] \in Claims, NEW r \in Edit, r.pc = "done",
           r.method \in {"POST", "PATCH"}, NEW base \in Tables, r.path[1] = base,
           r.id \in RowsOf[base], Suits(r.cols.key, base),
           r.cols.status \in {"active", "off"}
    PROVE  Record(s, r) \in Change
<1>1. who[s].user \in UserIds
  BY DEF Claims
<1>2. ACTION_BY_METHOD[r.method] \in {"create", "update"}
  BY DEF ACTION_BY_METHOD
<1>3. r.cols \in [status : {"active", "off"}, key : KeysOf[base] \cup {None}]
  <2>1. r.cols \in Columns \cup {NoMaster}
    BY DEF Edit
  <2>2. r.cols = [status |-> r.cols.status, key |-> r.cols.key]
    BY <2>1 DEF Columns, NoMaster
  <2> QED
    BY <2>2 DEF Suits
<1> QED
  BY <1>1, <1>2, <1>3, ChangeTyped, Zenon DEF Record

LEMMA UnrecordedTyped ==
    ASSUME AccessTyped
    PROVE  Unrecorded(Handlers) \subseteq Change
<1> SUFFICES ASSUME NEW s \in Handlers, edit[s].pc = "done"
             PROVE  Record(s, edit[s]) \in Change
  BY DEF Unrecorded
<1>1. who[s] \in Claims /\ Fit(edit[s]) /\ edit[s] \in Edit
  BY DEF AccessTyped, RequestsFit, AccessOK
<1> QED
  BY <1>1, RecordTyped DEF Fit

LEMMA MasterTyped == NoMaster \in MasterRow /\ [NoMaster EXCEPT !.status = "active"] \in MasterRow
BY DEF NoMaster, MasterRow

-----------------------------------------------------------------------------
\* A handler that is let go of.
LEMMA EndTyped ==
    ASSUME AccessTyped, NEW s \in Handlers, EndEdit(s), Dismiss(s), row' = row
    PROVE  edit' \in [Handlers -> Edit] /\ who' \in [Handlers -> Claims \cup {NoOne}]
           /\ RowsFit' /\ RequestsFit'
<1> USE DEF AccessTyped
<1>1. /\ edit' \in [Handlers -> Edit] /\ edit'[s].pc = "idle"
      /\ \A x \in Handlers \ {s} : edit'[x] = edit[x] /\ who'[x] = who[x]
  BY EditTyped DEF EndEdit, Dismiss, AccessOK
<1>2. who' \in [Handlers -> Claims \cup {NoOne}]
  BY DEF Dismiss, AccessOK
<1>3. RowsFit'
  BY DEF RowsFit
<1>4. RequestsFit'
  BY <1>1 DEF RequestsFit, Fit, Listed
<1> QED
  BY <1>1, <1>2, <1>3, <1>4

LEMMA ArriveTyped ==
    ASSUME AccessTyped, Session, NEW s \in Handlers, NEW j \in Jtis, Arrive(s, j)
    PROVE  AccessTyped'
<1> USE DEF AccessTyped
<1>1. PICK r \in Edit :
         r.pc \in {"insert", "write"} /\ Fit(r) /\ edit' = [edit EXCEPT ![s] = r]
  BY BeginFits DEF Arrive
<1>2. row' = row
  BY BeginFits DEF Arrive
<1>3. \E claims \in Claims : who' = [who EXCEPT ![s] = claims]
  <2>1. token[j].user \in UserIds /\ token[j].roles \in SUBSET RoleKeys
    BY DEF Arrive, Admit, Session, Signed, Token
  <2> QED
    BY <2>1 DEF Arrive, Admit, Claims
<1>4. /\ edit' \in [Handlers -> Edit] /\ who' \in [Handlers -> Claims \cup {NoOne}]
      /\ edit'[s] = r /\ who'[s] \in Claims
      /\ \A x \in Handlers \ {s} : edit'[x] = edit[x] /\ who'[x] = who[x]
  BY <1>1, <1>3 DEF AccessOK
<1>5. RowsFit'
  BY <1>2 DEF RowsFit
<1>6. RequestsFit'
  BY <1>1, <1>2, <1>4 DEF RequestsFit, Fit, Listed
<1>7. AccessOK'
  BY <1>2, <1>4 DEF Arrive, AccessOK, auditVars
<1> QED
  BY <1>5, <1>6, <1>7

LEMMA CommitTyped ==
    ASSUME AccessTyped, NEW s \in Handlers, Commit(s)
    PROVE  AccessTyped'
<1> USE DEF AccessTyped
<1>1. PICK i \in Ids, new \in MasterRow : Writes(s, i, new)
  BY StatementWrites DEF Commit
<1> DEFINE base == edit[s].path[1]
<1>2. /\ base \in Tables /\ i \in RowsOf[base] /\ Suits(new.key, base)
      /\ who[s] \in Claims /\ Fit(edit[s])
  BY <1>1 DEF Writes, RequestsFit, Fit
<1>3. /\ row' \in [Ids -> MasterRow] /\ row'[i] = new
      /\ \A j \in Ids \ {i} : row'[j] = row[j]
  BY <1>1 DEF Writes, AccessOK
<1>4. /\ edit'[s] \in Edit /\ edit'[s].pc = "done" /\ edit'[s].id = i
      /\ edit'[s].cols = new /\ edit'[s].method = edit[s].method
      /\ edit'[s].path = edit[s].path
      /\ \A x \in Handlers \ {s} : edit'[x] = edit[x]
  <2> DEFINE q == [edit[s] EXCEPT !.pc = "done", !.id = i, !.cols = new]
  <2>1. edit' = [edit EXCEPT ![s] = q]
    BY <1>1 DEF Writes
  <2>2. new \in Columns
    BY <1>1 DEF Writes, MasterRow, Columns
  <2>3. /\ q \in Edit /\ q.pc = "done" /\ q.id = i /\ q.cols = new
        /\ q.method = edit[s].method /\ q.path = edit[s].path
    BY <2>2 DEF AccessOK, Edit
  <2> HIDE DEF q
  <2> QED
    BY <2>1, <2>3 DEF AccessOK
<1>5. edit' \in [Handlers -> Edit]
  BY <1>1, <1>4 DEF Writes, AccessOK
<1>6. RowsFit'
  <2> SUFFICES ASSUME NEW b \in Tables, NEW j \in RowsOf[b] PROVE Suits(row'[j].key, b)
    BY DEF RowsFit
  <2>1. j \in Ids
    BY TablesRows
  <2>2. CASE j = i
    <3>1. b = base
      BY <1>2, <2>2, TablesRows
    <3> QED
      BY <1>2, <1>3, <2>2, <3>1
  <2>3. CASE j # i
    BY <1>3, <2>1, <2>3 DEF RowsFit
  <2> QED
    BY <2>2, <2>3
<1>7. \A j \in Ids : Listed(j) => row'[j].status # "absent"
  BY <1>1, <1>3 DEF Listed, Writes
<1>8. RequestsFit'
  <2> SUFFICES ASSUME NEW x \in Handlers, edit'[x].pc # "idle"
               PROVE  who'[x] \in Claims /\ Fit(edit[x])'
    BY DEF RequestsFit
  <2>1. who' = who
    BY DEF Commit
  <2>2. CASE x = s
    <3>1. row'[i].status # "absent"
      BY <1>1, <1>3 DEF Writes
    <3> QED
      BY <1>1, <1>2, <1>4, <2>1, <2>2, <3>1 DEF Fit, Listed, Writes
  <2>3. CASE x # s
    <3>1. edit'[x] = edit[x] /\ who[x] \in Claims /\ Fit(edit[x])
      BY <1>4, <2>3 DEF RequestsFit
    <3>2. edit[x].pc \in {"write", "done"} => edit[x].id \in Ids
      BY <3>1, TablesRows DEF Fit
    <3> QED
      BY <1>7, <2>1, <3>1, <3>2 DEF Fit, Listed
  <2> QED
    BY <2>2, <2>3
<1>9. Record(s, edit'[s]) \in Change
  BY <1>1, <1>2, <1>4, RecordTyped DEF Writes, Fit
<1>10. AccessOK'
  BY <1>3, <1>5, <1>9 DEF Commit, AccessOK
<1> QED
  BY <1>6, <1>8, <1>10

LEMMA ReplyTyped ==
    ASSUME AccessTyped, NEW s \in Handlers, Reply(s) \/ Refuse(s)
    PROVE  AccessTyped'
<1> USE DEF AccessTyped
<1>1. row' = row /\ EndEdit(s) /\ Dismiss(s)
  BY DEF Reply, Refuse, KeyTaken
<1>2. /\ edit' \in [Handlers -> Edit] /\ who' \in [Handlers -> Claims \cup {NoOne}]
      /\ RowsFit' /\ RequestsFit'
  BY <1>1, EndTyped
<1>3. writing' \subseteq Change /\ trail' = trail /\ done' = done /\ lost' = lost
  <2>1. CASE Reply(s)
    <3>1. Record(s, edit[s]) \in Change
      BY <2>1, UnrecordedTyped DEF Reply, Unrecorded
    <3> QED
      BY <2>1, <3>1 DEF Reply, AccessOK
  <2>2. CASE Refuse(s)
    BY <2>2 DEF Refuse, auditVars, AccessOK
  <2> QED
    BY <2>1, <2>2
<1> QED
  BY <1>1, <1>2, <1>3 DEF AccessOK

LEMMA FaultTyped ==
    ASSUME AccessTyped, Fault \/ Die
    PROVE  AccessTyped'
<1> USE DEF AccessTyped
<1>0. row' = row /\ trail' = trail /\ done' = done
  BY DEF Fault, Die
<1>1. Unrecorded(Handlers) \subseteq Change
  BY UnrecordedTyped
<1>2. CASE Die
  <2>1. /\ edit' \in [Handlers -> Edit] /\ who' \in [Handlers -> Claims \cup {NoOne}]
        /\ \A x \in Handlers : edit'[x].pc = "idle"
    BY <1>2, EditTyped DEF Die
  <2>2. writing' \subseteq Change /\ lost' \subseteq Change
    BY <1>1, <1>2 DEF Die, AccessOK
  <2> QED
    BY <1>0, <2>1, <2>2 DEF AccessOK, RowsFit, RequestsFit
<1>3. CASE \E c \in writing : /\ writing' = writing \ {c}
                              /\ lost' = lost \cup {c}
                              /\ UNCHANGED <<edit, who>>
  BY <1>0, <1>3 DEF AccessOK, RowsFit, RequestsFit, Fit, Listed
<1>4. ASSUME NEW s \in Handlers, lost' = lost \cup Unrecorded({s}),
             EndEdit(s), Dismiss(s), writing' = writing
      PROVE  AccessTyped'
  <2>1. /\ edit' \in [Handlers -> Edit] /\ who' \in [Handlers -> Claims \cup {NoOne}]
        /\ RowsFit' /\ RequestsFit'
    BY <1>0, <1>4, EndTyped
  <2>2. Unrecorded({s}) \subseteq Unrecorded(Handlers)
    BY DEF Unrecorded
  <2> QED
    BY <1>0, <1>1, <1>4, <2>1, <2>2 DEF AccessOK
<1> QED
  BY <1>2, <1>3, <1>4 DEF Fault

\* The sessions go on as Auth has them, whatever the requests do.
LEMMA AuthSide == [AccessNext]_allVars => [AuthNext]_vars
BY DEF AccessNext, AuthNext, RequestNext, Commit, Refuse, Reply, Arrive, Land, Fault, Die, allVars

LEMMA AccessStep ==
    ASSUME AccessTyped, Session, [AccessNext]_allVars
    PROVE  AccessTyped'
<1>1. ASSUME NEW c \in writing, Land(c) PROVE AccessTyped'
  BY <1>1 DEF AccessTyped, Land, AccessOK, RowsFit, RequestsFit, Fit, Listed, directoryVars
<1>2. CASE UNCHANGED accessVars
  BY <1>2 DEF AccessTyped, AccessOK, RowsFit, RequestsFit, Fit, Listed,
     accessVars, directoryVars, auditVars
<1> QED
  BY <1>1, <1>2, ArriveTyped, CommitTyped, ReplyTyped, FaultTyped
  DEF AccessNext, RequestNext, allVars

\* All that is shown of the sessions of Auth holds beside the requests.
THEOREM AccessIsAuth == AccessSpec => AuthSpec
<1>1. AccessInit => AuthInit
  BY DEF AccessInit
<1> QED
  BY <1>1, AuthSide, PTL DEF AccessSpec, AuthSpec

LEMMA SessionInvariant == AccessSpec => [](TypeInv /\ Session)
<1>1. AuthInit => TypeInv /\ Session
  BY TypedInit
<1>2. (TypeInv /\ Session) /\ [AuthNext]_vars => (TypeInv /\ Session)'
  BY Typed
<1> QED
  BY <1>1, <1>2, AccessIsAuth, PTL DEF AuthSpec

\* Every variable holds a value of its type, and every row and every record of
\* the trail the values of its own table.
THEOREM AccessTypeCorrect == AccessSpec => [](AccessOK /\ AccessTyped)
<1>1. AccessInit => AccessTyped
  <2> SUFFICES ASSUME AccessInit PROVE AccessTyped
    OBVIOUS
  <2>1. row \in [Ids -> MasterRow] /\ \A i \in Ids : row[i].key = None
    BY MasterTyped DEF AccessInit, DirectoryInit, NoMaster
  <2>2. RowsFit
    BY <2>1, TablesRows DEF RowsFit, Suits
  <2>3. edit \in [Handlers -> Edit] /\ RequestsFit
    BY EditTyped DEF AccessInit, DirectoryInit, RequestsFit
  <2> QED
    BY <2>1, <2>2, <2>3 DEF AccessInit, AccessTyped, AccessOK
<1>2. AccessTyped => AccessOK
  BY DEF AccessTyped
<1>3. AccessTyped /\ Session /\ [AccessNext]_allVars => AccessTyped'
  BY AccessStep
<1> QED
  BY <1>1, <1>2, <1>3, SessionInvariant, PTL DEF AccessSpec

-----------------------------------------------------------------------------
\* What a token is good for is money in full or no money at all, by the roles
\* it was signed with: no route it opens shows an operations user an amount.
THEOREM NoMoneyForOperations == AccessSpec => []MoneyHidden
<1>1. MoneyHidden
  BY MoneyGate DEF MoneyHidden
<1> QED
  BY <1>1, PTL

-----------------------------------------------------------------------------
\* With refreshes and logouts one at a time, a request is let in by what its user
\* held less than a lifetime of a token and a call before: what was taken away
\* from a user, or logged out of, opens nothing for longer than that, though a
\* login or a refresh had read it already.
THEOREM RevokedWithinTtl ==
    ASSUME OneSession
    PROVE  AccessSpec => PowersLapse
<1> DEFINE Bound == \A s \in Handlers : edit[s].pc = "idle" /\ edit'[s].pc # "idle" =>
                        lapse[who'[s].user][who'[s].roles] < Ttl + Flight
<1>1. ASSUME Session, Lapses, AccessTyped, [AccessNext]_allVars PROVE [Bound]_allVars
  <2>1. ASSUME NEW s \in Handlers, NEW j \in Jtis, Arrive(s, j) PROVE Bound
    <3> DEFINE u == token[j].user
               R == token[j].roles
               n == lapse[u][R]
    <3>1. PICK r \in Edit : edit' = [edit EXCEPT ![s] = r]
      BY <2>1, BeginFits DEF Arrive
    <3>2. /\ Valid(j) /\ who' = [who EXCEPT ![s] = [user |-> u, roles |-> R]]
          /\ \A x \in Handlers \ {s} : edit'[x] = edit[x]
      BY <1>1, <2>1, <3>1 DEF Arrive, Admit, AccessTyped, AccessOK
    <3>3. who'[s].user = u /\ who'[s].roles = R
      BY <1>1, <3>2 DEF AccessTyped, AccessOK
    <3>4. u \in UserIds /\ R \in SUBSET RoleKeys /\ token[j].left \in 0..Ttl
      BY <1>1, <3>2 DEF Session, Signed, Token
    <3>5. n \in 0..(Ttl + Flight) /\ n + token[j].left <= Ttl + Flight
      <4>1. lapse \in [UserIds -> [SUBSET RoleKeys -> 0..(Ttl + Flight)]]
        BY <1>1 DEF Session
      <4> QED
        BY <1>1, <3>2, <3>4, <4>1 DEF Lapses
    <3> HIDE DEF n
    <3>6. n < Ttl + Flight
      BY <3>2, <3>4, <3>5, ClockAssumption DEF Valid
    <3> QED
      BY <3>2, <3>3, <3>6 DEF n
  <2>2. ASSUME NEW s \in Handlers, EndEdit(s) PROVE Bound
    BY <1>1, <2>2 DEF EndEdit, NoEdit, AccessTyped, AccessOK
  <2>3. ASSUME NEW s \in Handlers, Commit(s) PROVE Bound
    <3>1. PICK i \in Ids, new \in MasterRow : Writes(s, i, new)
      BY <1>1, <2>3, StatementWrites DEF Commit
    <3>2. edit[s].pc # "idle" /\ \A x \in Handlers \ {s} : edit'[x] = edit[x]
      BY <1>1, <3>1 DEF Writes, AccessTyped, AccessOK
    <3> QED
      BY <3>2
  <2>4. CASE edit' = edit
    BY <2>4
  <2>5. CASE UNCHANGED accessVars \/ \E c \in writing : Land(c)
    BY <2>4, <2>5 DEF Land, accessVars, directoryVars
  <2>6. ASSUME NEW s \in Handlers, Refuse(s) \/ Reply(s) PROVE Bound
    BY <2>2, <2>6 DEF Refuse, Reply, KeyTaken
  <2>7. CASE Fault
    BY <2>2, <2>4, <2>7 DEF Fault
  <2>8. CASE Die
    BY <2>8 DEF Die, NoEdit
  <2> QED
    BY <1>1, <2>1, <2>3, <2>5, <2>6, <2>7, <2>8 DEF AccessNext, RequestNext, allVars
<1> QED
  BY <1>1, AccessIsAuth, LapsesInvariant, AccessTypeCorrect, PTL DEF AccessSpec, PowersLapse

-----------------------------------------------------------------------------
\* A change that is made has its record somewhere, and no record is of a change
\* that was not made.
Held == UNION {trail, writing, lost, Unrecorded(Handlers)}

Tells == \A i \in Ids : (\E c \in done : c.id = i) =>
             \E c \in done : c.id = i /\ c.after = row[i]

TrailInv == AccessTyped /\ Held = done /\ Tells

LEMMA HeldMembers ==
    \A c : c \in Held <=> \/ c \in trail \/ c \in writing \/ c \in lost
                          \/ \E s \in Handlers : edit[s].pc = "done" /\ c = Record(s, edit[s])
BY Zenon DEF Held, Unrecorded

LEMMA HeldMembersNext ==
    \A c : c \in Held' <=> \/ c \in trail' \/ c \in writing' \/ c \in lost'
                          \/ \E s \in Handlers : edit'[s].pc = "done" /\ c = Record(s, edit[s])'
BY Zenon DEF Held, Unrecorded

\* Steps that change no row and leave every change with its record.
LEMMA TrailKept ==
    ASSUME TrailInv, AccessTyped', row' = row, done' = done, Held' = Held
    PROVE  TrailInv'
BY DEF TrailInv, Tells

\* A handler that is let go of takes no record but its own with it.
LEMMA EndHeld ==
    ASSUME AccessTyped, NEW s \in Handlers, EndEdit(s), Dismiss(s), trail' = trail,
           writing' \cup lost' = writing \cup lost \cup Unrecorded({s})
    PROVE  Held' = Held
<1>1. /\ edit'[s].pc = "idle"
      /\ \A x \in Handlers \ {s} : edit'[x] = edit[x] /\ who'[x] = who[x]
  BY DEF EndEdit, Dismiss, NoEdit, AccessTyped, AccessOK
<1>2. \A x \in Handlers \ {s} : Record(x, edit[x])' = Record(x, edit[x])
  BY <1>1 DEF Record
<1>3. \A c : c \in Unrecorded({s}) <=> edit[s].pc = "done" /\ c = Record(s, edit[s])
  BY DEF Unrecorded
<1>4. ASSUME NEW c PROVE c \in Held' <=> c \in Held
  <2>1. c \in Held' <=> \/ c \in trail' \/ c \in writing' \/ c \in lost'
                        \/ \E x \in Handlers : edit'[x].pc = "done" /\ c = Record(x, edit[x])'
    BY HeldMembersNext
  <2>2. (\E x \in Handlers : edit'[x].pc = "done" /\ c = Record(x, edit[x])')
          <=> \E x \in Handlers \ {s} : edit[x].pc = "done" /\ c = Record(x, edit[x])
    BY <1>1, <1>2
  <2>3. c \in writing' \/ c \in lost' <=>
            c \in writing \/ c \in lost \/ (edit[s].pc = "done" /\ c = Record(s, edit[s]))
    BY <1>3
  <2> QED
    BY <2>1, <2>2, <2>3, HeldMembers
<1> QED
  BY <1>4

LEMMA CommitTells ==
    ASSUME TrailInv, AccessTyped', NEW s \in Handlers, Commit(s)
    PROVE  TrailInv'
<1>0. AccessTyped
  BY DEF TrailInv
<1>1. PICK i \in Ids, new \in MasterRow : Writes(s, i, new)
  BY <1>0, StatementWrites DEF Commit
<1> DEFINE q == [edit[s] EXCEPT !.pc = "done", !.id = i, !.cols = new]
           rec == Record(s, edit'[s])
<1>2. /\ edit' = [edit EXCEPT ![s] = q] /\ row' = [row EXCEPT ![i] = new]
      /\ edit[s].pc \in {"insert", "write"} /\ edit[s] \in Edit
  BY <1>0, <1>1 DEF Writes, AccessTyped, AccessOK
<1>3. q.pc = "done" /\ q.id = i /\ q.cols = new
  BY <1>2 DEF Edit
<1> HIDE DEF q
<1>4. edit'[s] = q /\ \A x \in Handlers \ {s} : edit'[x] = edit[x]
  BY <1>0, <1>2 DEF AccessTyped, AccessOK
<1>5. rec.id = i /\ rec.after = new
  BY <1>3, <1>4 DEF Record
<1>6. /\ done' = done \cup {rec} /\ who' = who
      /\ trail' = trail /\ writing' = writing /\ lost' = lost
  BY DEF Commit
<1>7. row'[i] = new /\ \A j \in Ids \ {i} : row'[j] = row[j]
  BY <1>0, <1>2 DEF AccessTyped, AccessOK
<1>8. \A x \in Handlers : Record(x, edit[x])' = Record(x, edit'[x])
  BY <1>6 DEF Record
<1>9. Tells'
  <2> HIDE DEF rec
  <2> SUFFICES ASSUME NEW j \in Ids, \E c \in done' : c.id = j
               PROVE  \E c \in done' : c.id = j /\ c.after = row'[j]
    BY DEF Tells
  <2>1. CASE j = i
    BY <1>5, <1>6, <1>7, <2>1
  <2>2. CASE j # i
    <3>1. \E c \in done : c.id = j
      BY <1>5, <1>6, <2>2
    <3>2. PICK c \in done : c.id = j /\ c.after = row[j]
      BY <3>1 DEF TrailInv, Tells
    <3> QED
      BY <1>6, <1>7, <2>2, <3>2
  <2> QED
    BY <2>1, <2>2
<1>10. Held' = done'
  <2>1. ASSUME NEW c PROVE c \in Held' <=> c \in Held \/ c = rec
    <3>1. c \in Held' <=> \/ c \in trail' \/ c \in writing' \/ c \in lost'
                          \/ \E x \in Handlers : edit'[x].pc = "done" /\ c = Record(x, edit[x])'
      BY HeldMembersNext
    <3>2. (\E x \in Handlers : edit'[x].pc = "done" /\ c = Record(x, edit[x])')
            <=> \/ c = rec
                \/ \E x \in Handlers : edit[x].pc = "done" /\ c = Record(x, edit[x])
      <4>1. \A x \in Handlers \ {s} : Record(x, edit'[x]) = Record(x, edit[x])
        BY <1>4
      <4>2. edit[s].pc # "done" /\ edit'[s].pc = "done"
        BY <1>2, <1>3, <1>4
      <4> QED
        BY <1>4, <1>8, <4>1, <4>2
    <3> QED
      BY <1>6, <3>1, <3>2, HeldMembers
  <2> HIDE DEF rec
  <2> QED
    BY <1>6, <2>1 DEF TrailInv
<1> QED
  BY <1>9, <1>10 DEF TrailInv

LEMMA TrailStep ==
    ASSUME TrailInv, Session, [AccessNext]_allVars
    PROVE  TrailInv'
<1>0. AccessTyped /\ AccessTyped'
  BY AccessStep DEF TrailInv
<1>1. CASE UNCHANGED <<row, edit, who, trail, writing, lost, done>>
  <2>1. Held' = Held
    BY <1>1, Zenon DEF Held, Unrecorded, Record
  <2> QED
    BY <1>0, <1>1, <2>1, TrailKept
<1>2. CASE UNCHANGED accessVars
  BY <1>1, <1>2 DEF accessVars, directoryVars, auditVars
<1>3. ASSUME NEW s \in Handlers, NEW j \in Jtis, Arrive(s, j) PROVE TrailInv'
  <2>1. PICK r \in Edit :
           r.pc \in {"insert", "write"} /\ Fit(r) /\ edit' = [edit EXCEPT ![s] = r]
    BY <1>3, BeginFits DEF Arrive
  <2>2. /\ row' = row /\ edit[s].pc = "idle" /\ done' = done
        /\ trail' = trail /\ writing' = writing /\ lost' = lost
    BY <1>3, BeginFits DEF Arrive, auditVars
  <2>3. /\ edit'[s].pc # "done"
        /\ \A x \in Handlers \ {s} : edit'[x] = edit[x] /\ who'[x] = who[x]
    BY <1>0, <1>3, <2>1 DEF Arrive, Admit, AccessTyped, AccessOK
  <2>4. \A x \in Handlers \ {s} : Record(x, edit[x])' = Record(x, edit[x])
    BY <2>3 DEF Record
  <2>5. ASSUME NEW c PROVE c \in Held' <=> c \in Held
    <3>1. c \in Held' <=> \/ c \in trail' \/ c \in writing' \/ c \in lost'
                          \/ \E x \in Handlers : edit'[x].pc = "done" /\ c = Record(x, edit[x])'
      BY HeldMembersNext
    <3>2. (\E x \in Handlers : edit'[x].pc = "done" /\ c = Record(x, edit[x])')
            <=> \E x \in Handlers : edit[x].pc = "done" /\ c = Record(x, edit[x])
      BY <2>2, <2>3, <2>4
    <3> QED
      BY <2>2, <3>1, <3>2, HeldMembers
  <2>6. Held' = Held
    BY <2>5
  <2> QED
    BY <1>0, <2>2, <2>6, TrailKept
<1>4. ASSUME NEW s \in Handlers, Refuse(s) PROVE TrailInv'
  <2>1. /\ EndEdit(s) /\ Dismiss(s) /\ row' = row /\ done' = done
        /\ trail' = trail /\ writing' = writing /\ lost' = lost
        /\ edit[s].pc # "done"
    BY <1>4 DEF Refuse, KeyTaken, auditVars
  <2>2. Unrecorded({s}) = {}
    BY <2>1 DEF Unrecorded
  <2>3. Held' = Held
    BY <1>0, <2>1, <2>2, EndHeld
  <2> QED
    BY <1>0, <2>1, <2>3, TrailKept
<1>5. ASSUME NEW s \in Handlers, Reply(s) PROVE TrailInv'
  <2>1. /\ EndEdit(s) /\ Dismiss(s) /\ row' = row /\ done' = done
        /\ trail' = trail /\ lost' = lost
    BY <1>5 DEF Reply
  <2>2. writing' = writing \cup Unrecorded({s})
    BY <1>5 DEF Reply, Unrecorded
  <2>3. Held' = Held
    BY <1>0, <2>1, <2>2, EndHeld
  <2> QED
    BY <1>0, <2>1, <2>3, TrailKept
<1>6. ASSUME NEW c \in writing, Land(c) PROVE TrailInv'
  <2>1. /\ trail' \cup writing' = trail \cup writing /\ lost' = lost /\ done' = done
        /\ row' = row /\ edit' = edit /\ who' = who
    BY <1>6 DEF Land, directoryVars
  <2>2. Unrecorded(Handlers)' = Unrecorded(Handlers)
    BY <2>1 DEF Unrecorded, Record
  <2>3. Held' = Held
    BY <2>1, <2>2, Zenon DEF Held
  <2> QED
    BY <1>0, <2>1, <2>3, TrailKept
<1>7. CASE Fault
  <2>1. row' = row /\ trail' = trail /\ done' = done
    BY <1>7 DEF Fault
  <2>2. ASSUME NEW c \in writing, writing' = writing \ {c}, lost' = lost \cup {c},
               edit' = edit, who' = who
        PROVE  TrailInv'
    <3>1. writing' \cup lost' = writing \cup lost
      BY <2>2
    <3>2. Unrecorded(Handlers)' = Unrecorded(Handlers)
      BY <2>2 DEF Unrecorded, Record
    <3>3. Held' = Held
      BY <2>1, <3>1, <3>2, Zenon DEF Held
    <3> QED
      BY <1>0, <2>1, <3>3, TrailKept
  <2>3. ASSUME NEW s \in Handlers, lost' = lost \cup Unrecorded({s}),
               EndEdit(s), Dismiss(s), writing' = writing
        PROVE  TrailInv'
    <3>1. Held' = Held
      BY <1>0, <2>1, <2>3, EndHeld
    <3> QED
      BY <1>0, <2>1, <3>1, TrailKept
  <2> QED
    BY <1>7, <2>2, <2>3 DEF Fault
<1>8. CASE Die
  <2>1. /\ row' = row /\ trail' = trail /\ done' = done /\ writing' = {}
        /\ lost' = lost \cup writing \cup Unrecorded(Handlers)
    BY <1>8 DEF Die
  <2>2. Unrecorded(Handlers)' = {}
    BY <1>8 DEF Die, Unrecorded, NoEdit
  <2>3. Held' = Held
    BY <2>1, <2>2, Zenon DEF Held
  <2> QED
    BY <1>0, <2>1, <2>3, TrailKept
<1> QED
  BY <1>0, <1>2, <1>3, <1>4, <1>5, <1>6, <1>7, <1>8, CommitTells
  DEF AccessNext, RequestNext, allVars

\* Every change of a row has its record landed, under way, yet to be made or
\* known to be lost; the last change recorded of a row is what stands in it;
\* and no record is of a change that was not made (audit.interceptor.ts).
THEOREM TrailIsTrue == AccessSpec => []TrailTells
<1>1. AccessInit /\ AccessTyped => TrailInv
  <2> SUFFICES ASSUME AccessInit, AccessTyped PROVE TrailInv
    OBVIOUS
  <2>1. Unrecorded(Handlers) = {}
    BY DEF AccessInit, DirectoryInit, Unrecorded, NoEdit
  <2>2. Held = {} /\ done = {}
    BY <2>1, Zenon DEF AccessInit, Held
  <2> QED
    BY <2>2 DEF TrailInv, Tells
<1>2. TrailInv => TrailTells
  <2> SUFFICES ASSUME TrailInv PROVE TrailTells
    OBVIOUS
  <2>1. trail \cup writing \cup lost \subseteq Held
    BY Zenon DEF Held
  <2>2. Held \subseteq UNION {trail, writing, lost, Unrecorded(Handlers)}
    BY Zenon DEF Held
  <2> QED
    BY <2>1, <2>2 DEF TrailInv, Tells, TrailTells
<1>3. TrailInv /\ Session /\ [AccessNext]_allVars => TrailInv'
  BY TrailStep
<1> QED
  BY <1>1, <1>2, <1>3, AccessTypeCorrect, SessionInvariant, PTL DEF AccessSpec
=============================================================================
