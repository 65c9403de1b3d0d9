--------------------------- MODULE BillingProofs ---------------------------
(***************************************************************************)
(* Theorems about Billing, for any slots, duties, invoices, trips, days and*)
(* amounts.                                                                *)
(***************************************************************************)
EXTENDS Billing, Sums

-----------------------------------------------------------------------------
\* Values the steps build are in the type sets.

LEMMA NoLinesTyped == NoLines \in LineSets /\ DOMAIN NoLines = {}
<1>1. NoLines \in [{} -> Amounts]
  BY DEF NoLines
<1>2. {} \in SUBSET Trips
  OBVIOUS
<1> QED
  BY <1>1, <1>2 DEF LineSets, NoLines

LEMMA NoRowTyped ==
    ASSUME NEW st \in {"absent", "deleted"}
    PROVE  NoRow(st) \in Invoice /\ NoRow(st).status = st
BY NoLinesTyped DEF NoRow, Invoice, Totals

LEMMA IdleTyped ==
    /\ Idle \in Request
    /\ Idle.pc = "idle"
BY NoLinesTyped, NoRowTyped DEF Idle, Request, Steps

\* The trips billed by a request, with their amounts, form a set of lines.
LEMMA RowsTyped ==
    ASSUME TypeOK, NEW r \in Request
    PROVE  [t \in Billable(r) |-> trip[t].bill] \in LineSets
<1>1. \A t \in Billable(r) : t \in Trips /\ trip[t].bill \in Amounts
  BY DEF TypeOK, Billable, TripRow, NoTrip
<1>2. Billable(r) \in SUBSET Trips
  BY DEF Billable
<1>3. [t \in Billable(r) |-> trip[t].bill] \in [Billable(r) -> Amounts]
  BY <1>1
<1> QED
  BY <1>2, <1>3 DEF LineSets

LEMMA NextNumbersTyped ==
    ASSUME TypeOK
    PROVE  NextNumbers \subseteq Nat
<1>1. Numbers \subseteq Nat
  BY DEF TypeOK, Numbers, Invoice
<1> QED
  BY <1>1 DEF NextNumbers, LastNumbers

-----------------------------------------------------------------------------
\* Every step keeps the types.
LEMMA TypeStep == TypeOK /\ [Next]_vars => TypeOK'
<1> SUFFICES ASSUME TypeOK, [Next]_vars PROVE TypeOK'
  OBVIOUS
<1> USE DEF TypeOK
<1>1. ASSUME NEW t \in Trips, NEW c \in Clients, NEW a \in Amounts,
             EnterTrip(t, c, a) \/ EditTrip(t, c, a)
      PROVE  TypeOK'
  <2>1. [state |-> "live", client |-> c, bill |-> a] \in TripRow
    BY DEF TripRow
  <2> QED
    BY <1>1, <2>1 DEF EnterTrip, EditTrip
<1>2. ASSUME NEW t \in Trips, DeleteTrip(t) PROVE TypeOK'
  BY <1>2 DEF DeleteTrip, TripRow
<1>3. ASSUME NEW s \in Slots, NEW c \in Clients, NEW from \in Days,
             NEW to \in Days, StartCreate(s, c, from, to)
      PROVE  TypeOK'
  <2>1. Invoiced \in SUBSET Trips
    BY DEF Invoiced, InForce, Invoice, LineSets, Exists, Statuses, Transitions
  <2>2. [Idle EXCEPT !.pc = "trips", !.client = c, !.from = from, !.to = to,
                     !.invoiced = Invoiced] \in Request
    BY <2>1, IdleTyped DEF Request, Steps
  <2> QED
    BY <1>3, <2>2 DEF StartCreate
<1>4. ASSUME NEW s \in Slots, FetchTrips(s) PROVE TypeOK'
  <2>1. [Idle EXCEPT !.pc = "number",
             !.rows = [t \in Billable(req[s]) |-> trip[t].bill]] \in Request
    BY RowsTyped, IdleTyped DEF Request, Steps
  <2> QED
    BY <1>4, <2>1, IdleTyped DEF FetchTrips, Return
<1>5. ASSUME NEW s \in Slots, NumberInvoice(s) PROVE TypeOK'
  <2>1. ASSUME NEW n \in NextNumbers
        PROVE  [req[s] EXCEPT !.pc = "insert", !.number = n] \in Request
    BY NextNumbersTyped DEF Request, Steps
  <2> QED
    BY <1>5, <2>1 DEF NumberInvoice
<1>6. ASSUME NEW s \in Slots, NEW i \in InvoiceIds, InsertInvoice(s, i)
      PROVE  TypeOK'
  <2>1. Total(req[s].rows) \in Totals
    BY DEF Totals, Request
  <2>2. [status |-> "draft", number |-> req[s].number, lines |-> req[s].rows,
         total |-> Total(req[s].rows), amountPaid |-> 0] \in Invoice
    BY <2>1 DEF Invoice, Request, Totals, Statuses, Transitions
  <2> QED
    BY <1>6, <2>2, IdleTyped DEF InsertInvoice, Return
<1>7. ASSUME NEW s \in Slots, NumberTaken(s) PROVE TypeOK'
  BY <1>7, IdleTyped DEF NumberTaken, Return
<1>8. ASSUME NEW s \in Slots, NEW i \in InvoiceIds,
             NEW w \in Statuses \cup {None}, StartUpdate(s, i, w)
      PROVE  TypeOK'
  <2>1. [Idle EXCEPT !.pc = "write", !.id = i, !.seen = inv[i],
                     !.want = w] \in Request
    BY IdleTyped DEF Request, Steps
  <2> QED
    BY <1>8, <2>1 DEF StartUpdate
<1>9. ASSUME NEW s \in Slots, WriteUpdate(s) PROVE TypeOK'
  <2>1. ASSUME req[s].id \in InvoiceIds
        PROVE  Patched(inv[req[s].id], req[s]) \in Invoice
    <3> DEFINE row == inv[req[s].id]
    <3>1. row \in Invoice /\ req[s].seen \in Invoice
      BY <2>1 DEF Request
    <3>2. req[s].want \in Statuses \cup {None}
      BY DEF Request
    <3>3. ASSUME NEW p \in Totals, req[s].want # None
          PROVE  [row EXCEPT !.status = req[s].want, !.amountPaid = p] \in Invoice
      BY <3>1, <3>2, <3>3 DEF Invoice
    <3>4. row.amountPaid \in Totals /\ req[s].seen.total \in Totals
      BY <3>1 DEF Invoice
    <3> QED
      BY <3>1, <3>3, <3>4 DEF Patched
  <2>2. [Idle EXCEPT !.pc = "announce", !.id = req[s].id] \in Request
    BY IdleTyped DEF Request, Steps
  <2>3. inv' \in [InvoiceIds -> Invoice]
    BY <1>9, <2>1 DEF WriteUpdate
  <2>4. req' \in [Slots -> Request]
    BY <1>9, <2>2, IdleTyped DEF WriteUpdate, Return
  <2> QED
    BY <1>9, <2>3, <2>4 DEF WriteUpdate
<1>10. ASSUME NEW s \in Slots, Announce(s) PROVE TypeOK'
  <2>1. announced' \in [InvoiceIds -> Nat]
    <3>1. CASE req[s].id \in InvoiceIds
      BY <1>10, <3>1 DEF Announce
    <3>2. CASE req[s].id \notin InvoiceIds
      BY <1>10, <3>2 DEF Announce
    <3> QED
      BY <3>1, <3>2
  <2> QED
    BY <1>10, <2>1, IdleTyped DEF Announce, Return
<1>11. ASSUME NEW s \in Slots, NEW i \in InvoiceIds, StartRemove(s, i)
       PROVE  TypeOK'
  <2>1. [Idle EXCEPT !.pc = "delete", !.id = i] \in Request
    BY IdleTyped DEF Request, Steps
  <2> QED
    BY <1>11, <2>1 DEF StartRemove
<1>12. ASSUME NEW s \in Slots, DeleteInvoice(s) PROVE TypeOK'
  BY <1>12, IdleTyped, NoRowTyped DEF DeleteInvoice, Return
<1>13. ASSUME NEW s \in Slots, Fail(s) PROVE TypeOK'
  BY <1>13, IdleTyped DEF Fail, Return
<1>14. CASE UNCHANGED vars
  BY <1>14 DEF vars
<1> QED
  BY <1>1, <1>2, <1>3, <1>4, <1>5, <1>6, <1>7, <1>8, <1>9, <1>10, <1>11,
     <1>12, <1>13, <1>14
     DEF Next, TripStep, CreateStep, UpdateStep, RemoveStep

\* Every variable holds a value of its type.
THEOREM TypeCorrect == Spec => []TypeOK
<1>1. Init => TypeOK
  BY NoRowTyped, IdleTyped DEF Init, TypeOK, TripRow
<1> QED
  BY <1>1, TypeStep, PTL DEF Spec

-----------------------------------------------------------------------------
\* A slot serves the kind of request its duties name, on an existing id.

LEMMA DutifulStep == TypeOK /\ Dutiful /\ [Next]_vars => Dutiful'
<1> SUFFICES ASSUME TypeOK, Dutiful, [Next]_vars PROVE Dutiful'
  OBVIOUS
<1> USE DEF TypeOK, Dutiful
<1>1. ASSUME NEW t \in Trips, NEW c \in Clients, NEW a \in Amounts,
             EnterTrip(t, c, a) \/ EditTrip(t, c, a) \/ DeleteTrip(t)
      PROVE  Dutiful'
  BY <1>1 DEF EnterTrip, EditTrip, DeleteTrip
<1>2. ASSUME NEW t \in Trips, DeleteTrip(t) PROVE Dutiful'
  BY <1>2 DEF DeleteTrip
<1>3. ASSUME NEW s \in Slots, CreateStep(s) PROVE Dutiful'
  <2>1. ASSUME NEW c \in Clients, NEW from \in Days, NEW to \in Days,
               StartCreate(s, c, from, to)
        PROVE  Dutiful'
    BY <2>1 DEF StartCreate, Serves, Idle
  <2>2. CASE FetchTrips(s)
    <3>1. /\ req'[s].pc \in {"idle", "number"}
          /\ \A t \in Slots \ {s} : req'[t] = req[t]
      BY <2>2, IdleTyped DEF FetchTrips, Return, Request
    <3> QED
      BY <2>2, <3>1 DEF FetchTrips
  <2>3. CASE NumberInvoice(s)
    <3>1. PICK n \in NextNumbers :
             req' = [req EXCEPT ![s].pc = "insert", ![s].number = n]
      BY <2>3 DEF NumberInvoice
    <3> QED
      BY <2>3, <3>1 DEF NumberInvoice, Request
  <2>4. CASE NumberTaken(s) \/ \E i \in InvoiceIds : InsertInvoice(s, i)
    BY <2>4, IdleTyped DEF NumberTaken, InsertInvoice, Return
  <2> QED
    BY <1>3, <2>1, <2>2, <2>3, <2>4 DEF CreateStep
<1>4. ASSUME NEW s \in Slots, UpdateStep(s) PROVE Dutiful'
  <2>1. ASSUME NEW i \in InvoiceIds, NEW w \in Statuses \cup {None},
               StartUpdate(s, i, w)
        PROVE  Dutiful'
    BY <2>1 DEF StartUpdate, Serves, Idle, Exists
  <2>2. CASE WriteUpdate(s)
    <3>1. /\ \/ req'[s].pc = "idle"
             \/ req'[s].pc = "announce" /\ req'[s].id = req[s].id
          /\ \A t \in Slots \ {s} : req'[t] = req[t]
      <4>1. \/ req' = [req EXCEPT ![s] = Idle]
            \/ req' = [req EXCEPT ![s] =
                          [Idle EXCEPT !.pc = "announce", !.id = req[s].id]]
        BY <2>2, Zenon DEF WriteUpdate, Return
      <4>2. LET r == [Idle EXCEPT !.pc = "announce", !.id = req[s].id]
            IN  r.pc = "announce" /\ r.id = req[s].id
        BY IdleTyped DEF Request
      <4> QED
        BY <4>1, <4>2, IdleTyped
    <3> QED
      BY <2>2, <3>1 DEF WriteUpdate
  <2>3. CASE Announce(s)
    BY <2>3, IdleTyped DEF Announce, Return
  <2> QED
    BY <1>4, <2>1, <2>2, <2>3 DEF UpdateStep
<1>5. ASSUME NEW s \in Slots, RemoveStep(s) PROVE Dutiful'
  <2>1. ASSUME NEW i \in InvoiceIds, StartRemove(s, i) PROVE Dutiful'
    BY <2>1 DEF StartRemove, Serves, Idle
  <2>2. CASE DeleteInvoice(s)
    BY <2>2, IdleTyped DEF DeleteInvoice, Return
  <2> QED
    BY <1>5, <2>1, <2>2 DEF RemoveStep
<1>6. ASSUME NEW s \in Slots, Fail(s) PROVE Dutiful'
  BY <1>6, IdleTyped DEF Fail, Return
<1>7. CASE UNCHANGED vars
  BY <1>7 DEF vars
<1> QED
  BY <1>1, <1>2, <1>3, <1>4, <1>5, <1>6, <1>7 DEF Next, TripStep

LEMMA DutifulCorrect == Spec => []Dutiful
<1>1. Init => Dutiful
  BY IdleTyped DEF Init, Dutiful
<1> QED
  BY <1>1, DutifulStep, TypeCorrect, PTL DEF Spec

-----------------------------------------------------------------------------
\* A trip is billed once.  Every step but the insert only releases trips: an
\* invoice in force after it was in force before it, with the same lines.

OnlyReleases == \A j \in InvoiceIds :
    InForce(j)' => InForce(j) /\ inv'[j].lines = inv[j].lines

LEMMA ReleasesShrink ==
    ASSUME OnlyReleases
    PROVE  Invoiced' \subseteq Invoiced /\ (BilledOnce => BilledOnce')
<1>1. Invoiced' \subseteq Invoiced
  BY DEF OnlyReleases, Invoiced
<1>2. BilledOnce => BilledOnce'
  BY DEF OnlyReleases, BilledOnce
<1> QED
  BY <1>1, <1>2

\* A step that leaves the invoices alone releases nothing.
LEMMA UnchangedReleases == inv' = inv => OnlyReleases
BY DEF OnlyReleases, InForce, Exists

\* An update writes a status the one it read may change to; as that is still
\* the row's, a void invoice stays void.
LEMMA WriteReleases ==
    ASSUME TypeOK, Dutiful, UpdaterView, NEW s \in Slots, WriteUpdate(s)
    PROVE  OnlyReleases
<1> DEFINE i == req[s].id
<1>0. i \in InvoiceIds
  BY DEF WriteUpdate, Dutiful
<1>1. CASE ~Exists(i)
  BY <1>1, UnchangedReleases DEF WriteUpdate
<1>2. CASE Exists(i)
  <2>1. inv[i].status = req[s].seen.status
    BY <1>2 DEF UpdaterView, WriteUpdate, Exists, Statuses, Transitions
  <2>2. inv' = [inv EXCEPT ![i] = Patched(inv[i], req[s])]
    BY <1>2 DEF WriteUpdate
  <2>3. /\ Patched(inv[i], req[s]).lines = inv[i].lines
        /\ inv[i].status = "void" => Patched(inv[i], req[s]).status = "void"
    BY <1>0, <2>1 DEF Patched, TypeOK, Invoice, Dutiful, WriteUpdate,
       Statuses, Transitions
  <2>4. inv \in [InvoiceIds -> Invoice]
    BY DEF TypeOK
  <2> QED
    BY <1>0, <1>2, <2>2, <2>3, <2>4 DEF OnlyReleases, InForce, Exists
<1> QED
  BY <1>1, <1>2

LEMMA DeleteReleases ==
    ASSUME TypeOK, NEW s \in Slots, DeleteInvoice(s)
    PROVE  OnlyReleases
<1>1. CASE Exists(req[s].id)
  <2>1. inv' = [inv EXCEPT ![req[s].id] = NoRow("deleted")]
    BY <1>1 DEF DeleteInvoice
  <2>2. NoRow("deleted").status \notin Statuses
    BY DEF NoRow, Statuses, Transitions
  <2>3. inv \in [InvoiceIds -> Invoice]
    BY DEF TypeOK
  <2> QED
    BY <2>1, <2>2, <2>3 DEF OnlyReleases, InForce, Exists
<1>2. CASE ~Exists(req[s].id)
  BY <1>2, UnchangedReleases DEF DeleteInvoice
<1> QED
  BY <1>1, <1>2

\* Where no insert happens, the steps of a request other than its reading of
\* what is invoiced keep the views of all creations under way.
CreatorViewOf(s) ==
    /\ req[s].pc = "trips" => Invoiced \subseteq req[s].invoiced
    /\ req[s].pc \in {"number", "insert"} =>
          DOMAIN req[s].rows # {} /\ DOMAIN req[s].rows \cap Invoiced = {}

LEMMA ViewKept ==
    ASSUME OnlyReleases, NEW s \in Slots, CreatorViewOf(s),
           req'[s] = req[s] \/ req'[s].pc \notin {"trips", "number", "insert"}
    PROVE  CreatorViewOf(s)'
BY ReleasesShrink DEF CreatorViewOf

OnceInv == TypeOK /\ Dutiful /\ CreatorView /\ UpdaterView /\ BilledOnce

\* The steps of a creation: only the insert adds lines, and no other creation
\* is there to have read before it.
LEMMA CreatorStepOnce ==
    ASSUME OneCreator, OnceInv, NEW s \in Slots, CreateStep(s)
    PROVE  CreatorView' /\ BilledOnce'
<1> USE DEF OnceInv
<1>0. CreatorView <=> \A x \in Slots : CreatorViewOf(x)
  BY DEF CreatorView, CreatorViewOf
<1>0a. CreatorView' <=> \A x \in Slots : CreatorViewOf(x)'
  BY DEF CreatorView, CreatorViewOf
<1>1. CASE inv' = inv
  <2>1. OnlyReleases
    BY <1>1, UnchangedReleases
  <2>2. ASSUME NEW x \in Slots \ {s} PROVE CreatorViewOf(x)'
    <3>1. req'[x] = req[x]
      BY <2>2 DEF CreateStep, StartCreate, FetchTrips, NumberInvoice,
         InsertInvoice, NumberTaken, Return, TypeOK
    <3> QED
      BY <1>0, <2>1, <3>1, ViewKept
  <2>3. CreatorViewOf(s)'
    <3>0. Invoiced' = Invoiced
      BY <1>1 DEF Invoiced, InForce, Exists
    <3>1. ASSUME NEW c \in Clients, NEW from \in Days, NEW to \in Days,
                 StartCreate(s, c, from, to)
          PROVE  CreatorViewOf(s)'
      BY <3>0, <3>1 DEF StartCreate, Idle, CreatorViewOf, TypeOK
    <3>2. CASE FetchTrips(s)
      <4>1. Billable(req[s]) \cap Invoiced = {}
        BY <1>0, <3>2 DEF FetchTrips, CreatorViewOf, Billable
      <4>2. \/ req'[s].pc = "idle"
            \/ /\ req'[s].pc = "number"
               /\ DOMAIN req'[s].rows = Billable(req[s])
               /\ Billable(req[s]) # {}
        <5>1. \/ req' = [req EXCEPT ![s] = Idle]
              \/ /\ Billable(req[s]) # {}
                 /\ req' = [req EXCEPT ![s] = [Idle EXCEPT !.pc = "number",
                      !.rows = [t \in Billable(req[s]) |-> trip[t].bill]]]
          BY <3>2, Zenon DEF FetchTrips, Return
        <5>2. LET r == [Idle EXCEPT !.pc = "number",
                          !.rows = [t \in Billable(req[s]) |-> trip[t].bill]]
              IN  r.pc = "number" /\ DOMAIN r.rows = Billable(req[s])
          BY IdleTyped DEF Request
        <5> QED
          BY <5>1, <5>2, IdleTyped DEF TypeOK
      <4> QED
        BY <3>0, <4>1, <4>2 DEF CreatorViewOf
    <3>3. CASE NumberInvoice(s)
      <4>1. req'[s].rows = req[s].rows /\ req[s].pc = "number" /\ req'[s].pc = "insert"
        BY <3>3 DEF NumberInvoice, TypeOK, Request
      <4> QED
        BY <1>0, <3>0, <4>1 DEF CreatorViewOf
    <3>4. CASE Return(s)
      BY <3>4, IdleTyped DEF Return, CreatorViewOf, TypeOK
    <3> QED
      BY <3>1, <3>2, <3>3, <3>4 DEF CreateStep, InsertInvoice, NumberTaken
  <2> QED
    BY <1>0a, <2>1, <2>2, <2>3, ReleasesShrink
<1>2. ASSUME NEW i \in InvoiceIds, InsertInvoice(s, i)
      PROVE  CreatorView' /\ BilledOnce'
  <2>1. DOMAIN req[s].rows \cap Invoiced = {}
    BY <1>2 DEF InsertInvoice, CreatorView
  <2>2. /\ inv'[i].lines = req[s].rows
        /\ \A j \in InvoiceIds \ {i} : inv'[j] = inv[j]
    BY <1>2 DEF InsertInvoice, TypeOK
  <2>3. ASSUME NEW j \in InvoiceIds \ {i}, InForce(j)'
        PROVE  InForce(j) /\ DOMAIN inv'[j].lines \cap DOMAIN inv'[i].lines = {}
    BY <2>1, <2>2, <2>3 DEF InForce, Exists, Invoiced
  <2>4. BilledOnce'
    BY <2>2, <2>3 DEF BilledOnce
  <2>5. ASSUME NEW x \in Slots
        PROVE  req'[x].pc \notin {"trips", "number", "insert"}
    <3>1. req'[s].pc = "idle"
      BY <1>2, IdleTyped DEF InsertInvoice, Return, TypeOK
    <3>2. ASSUME x # s PROVE req'[x] = req[x] /\ "create" \notin Duties[x]
      BY <1>2, <3>2 DEF InsertInvoice, Return, TypeOK, OneCreator, AtMostOne, Dutiful
    <3> QED
      BY <3>1, <3>2 DEF Dutiful
  <2> QED
    BY <2>4, <2>5 DEF CreatorView
<1> QED
  BY <1>1, <1>2 DEF CreateStep, StartCreate, FetchTrips, NumberInvoice, NumberTaken

\* The steps that neither read for a creation nor insert keep every view.
LEMMA OthersKeepViews ==
    ASSUME OnceInv, OnlyReleases,
           \A x \in Slots : \/ req'[x] = req[x]
                            \/ req'[x].pc \notin {"trips", "number", "insert"}
    PROVE  CreatorView' /\ BilledOnce'
<1>1. \A x \in Slots : CreatorViewOf(x)
  BY DEF OnceInv, CreatorView, CreatorViewOf
<1>2. \A x \in Slots : CreatorViewOf(x)'
  BY <1>1, ViewKept
<1> QED
  BY <1>2, ReleasesShrink DEF OnceInv, CreatorView, CreatorViewOf

\* An update's view is kept where rows that exist keep their status or are
\* deleted and no slot comes to write with a row it did not read just now.
LEMMA UpdaterViewKept ==
    ASSUME OnceInv,
           \A j \in InvoiceIds : Exists(j) \/ inv[j].status = "deleted" =>
               inv'[j].status \in {inv[j].status, "deleted"},
           \A x \in Slots : \/ req'[x] = req[x]
                            \/ req'[x].pc # "write"
                            \/ /\ req'[x].seen.status = inv'[req'[x].id].status
                               /\ req'[x].id \in InvoiceIds
    PROVE  UpdaterView'
<1> SUFFICES ASSUME NEW x \in Slots, req'[x].pc = "write"
             PROVE  inv'[req'[x].id].status \in {req'[x].seen.status, "deleted"}
  BY DEF UpdaterView
<1>1. CASE req'[x] = req[x]
  <2>1. /\ req[x].id \in InvoiceIds
        /\ req[x].seen.status \in Statuses
        /\ inv[req[x].id].status \in {req[x].seen.status, "deleted"}
    BY <1>1 DEF OnceInv, Dutiful, UpdaterView
  <2> QED
    BY <1>1, <2>1 DEF Exists
<1>2. CASE req'[x].seen.status = inv'[req'[x].id].status
  BY <1>2
<1> QED
  BY <1>1, <1>2

\* No step but a write of an update changes the status of an existing row,
\* and a request that begins keeps the row it read.
LEMMA CreatorStepUpdater ==
    ASSUME OnceInv, NEW s \in Slots, CreateStep(s)
    PROVE  UpdaterView'
<1> USE DEF OnceInv
<1>1. \A j \in InvoiceIds : Exists(j) \/ inv[j].status = "deleted" =>
          inv'[j].status \in {inv[j].status, "deleted"}
  <2>1. CASE inv' = inv
    BY <2>1
  <2>2. ASSUME NEW i \in InvoiceIds, InsertInvoice(s, i)
        PROVE \A j \in InvoiceIds : Exists(j) \/ inv[j].status = "deleted" =>
                  inv'[j].status \in {inv[j].status, "deleted"}
    BY <2>2 DEF InsertInvoice, TypeOK, Exists, Statuses, Transitions
  <2> QED
    BY <2>1, <2>2 DEF CreateStep, StartCreate, FetchTrips, NumberInvoice, NumberTaken
<1>2. \A x \in Slots : req'[x] = req[x] \/ req'[x].pc # "write"
  <2>1. ASSUME NEW c \in Clients, NEW from \in Days, NEW to \in Days,
               StartCreate(s, c, from, to)
        PROVE  \A x \in Slots : req'[x] = req[x] \/ req'[x].pc # "write"
    BY <2>1 DEF StartCreate, Idle, TypeOK
  <2>2. CASE FetchTrips(s)
    BY <2>2, IdleTyped DEF FetchTrips, Return, TypeOK, Request
  <2>3. CASE NumberInvoice(s)
    BY <2>3 DEF NumberInvoice, TypeOK, Request
  <2>4. CASE Return(s)
    BY <2>4, IdleTyped DEF Return, TypeOK
  <2> QED
    BY <2>1, <2>2, <2>3, <2>4 DEF CreateStep, InsertInvoice, NumberTaken
<1> QED
  BY <1>1, <1>2, UpdaterViewKept

LEMMA UpdateStepOnce ==
    ASSUME OneUpdater, OnceInv, NEW s \in Slots, UpdateStep(s)
    PROVE  CreatorView' /\ BilledOnce' /\ UpdaterView'
<1> USE DEF OnceInv
<1>1. ASSUME NEW i \in InvoiceIds, NEW w \in Statuses \cup {None},
             StartUpdate(s, i, w)
      PROVE  CreatorView' /\ BilledOnce' /\ UpdaterView'
  <2>1. inv' = inv
    BY <1>1 DEF StartUpdate
  <2>2. /\ req'[s].pc = "write" /\ req'[s].id = i /\ req'[s].seen = inv[i]
        /\ \A x \in Slots \ {s} : req'[x] = req[x]
    BY <1>1 DEF StartUpdate, Idle, TypeOK
  <2> QED
    BY <2>1, <2>2, UnchangedReleases, OthersKeepViews, UpdaterViewKept
<1>2. CASE WriteUpdate(s)
  <2>1. \A x \in Slots : \/ x # s /\ req'[x] = req[x]
                         \/ x = s /\ req'[x].pc \in {"idle", "announce"}
    <3>1. \/ req' = [req EXCEPT ![s] = Idle]
          \/ req' = [req EXCEPT ![s] =
                        [Idle EXCEPT !.pc = "announce", !.id = req[s].id]]
      BY <1>2, Zenon DEF WriteUpdate, Return
    <3>2. [Idle EXCEPT !.pc = "announce", !.id = req[s].id].pc = "announce"
      BY IdleTyped DEF Request
    <3> QED
      BY <3>1, <3>2, IdleTyped DEF TypeOK
  <2>2. \A x \in Slots : req'[x].pc # "write"
    <3>1. \A x \in Slots \ {s} : req[x].pc # "write"
      BY <1>2 DEF OneUpdater, AtMostOne, Dutiful, WriteUpdate
    <3> QED
      BY <2>1, <3>1
  <2>3. OnlyReleases
    BY <1>2, WriteReleases
  <2> QED
    BY <2>1, <2>2, <2>3, OthersKeepViews DEF UpdaterView
<1>3. CASE Announce(s)
  <2>1. inv' = inv /\ req' = [req EXCEPT ![s] = Idle]
    BY <1>3 DEF Announce, Return
  <2>2. \A x \in Slots : req'[x] = req[x] \/ req'[x].pc = "idle"
    BY <2>1, IdleTyped DEF TypeOK
  <2> QED
    BY <2>1, <2>2, UnchangedReleases, OthersKeepViews, UpdaterViewKept
<1> QED
  BY <1>1, <1>2, <1>3 DEF UpdateStep

LEMMA RemoveStepOnce ==
    ASSUME OnceInv, NEW s \in Slots, RemoveStep(s) \/ Fail(s)
    PROVE  CreatorView' /\ BilledOnce' /\ UpdaterView'
<1> USE DEF OnceInv
<1>1. \A x \in Slots : req'[x] = req[x] \/ req'[x].pc \in {"idle", "delete"}
  <2>1. ASSUME NEW i \in InvoiceIds, StartRemove(s, i)
        PROVE  \A x \in Slots : req'[x] = req[x] \/ req'[x].pc = "delete"
    BY <2>1 DEF StartRemove, Idle, TypeOK
  <2>2. CASE Return(s)
    BY <2>2, IdleTyped DEF Return, TypeOK
  <2> QED
    BY <2>1, <2>2 DEF RemoveStep, DeleteInvoice, Fail
<1>2. OnlyReleases
  BY DeleteReleases, UnchangedReleases DEF RemoveStep, StartRemove, Fail
<1>3. \A j \in InvoiceIds : inv'[j].status \in {inv[j].status, "deleted"}
  <2>1. CASE inv' = inv
    BY <2>1
  <2>2. CASE inv' = [inv EXCEPT ![req[s].id] = NoRow("deleted")]
    BY <2>2, NoRowTyped DEF TypeOK
  <2> QED
    BY <2>1, <2>2 DEF RemoveStep, StartRemove, DeleteInvoice, Fail
<1> QED
  BY <1>1, <1>2, <1>3, OthersKeepViews, UpdaterViewKept

\* Whatever runs, one creation and one status change at a time keep the invariant.
LEMMA OnceStep ==
    ASSUME OneCreator, OneUpdater
    PROVE  OnceInv /\ [Next]_vars => (CreatorView /\ UpdaterView /\ BilledOnce)'
<1> SUFFICES ASSUME OnceInv, [Next]_vars
             PROVE  CreatorView' /\ UpdaterView' /\ BilledOnce'
  OBVIOUS
<1>1. CASE inv' = inv /\ req' = req
  BY <1>1, UnchangedReleases, OthersKeepViews, UpdaterViewKept
<1>2. CASE TripStep
  BY <1>1, <1>2 DEF TripStep, EnterTrip, EditTrip, DeleteTrip
<1> QED
  BY <1>1, <1>2, CreatorStepOnce, CreatorStepUpdater, UpdateStepOnce,
     RemoveStepOnce DEF Next, vars

LEMMA OnceBegins == Init => CreatorView /\ UpdaterView /\ BilledOnce
BY IdleTyped DEF Init, CreatorView, UpdaterView, BilledOnce, InForce, Exists,
   NoRow, Statuses, Transitions

\* No trip is ever on the lines of two invoices in force, if creations are
\* served one at a time and so are status changes (billing.service.ts,
\* create and fetchBillableTrips), whatever else runs in between.
THEOREM OnceBilled ==
    ASSUME OneCreator, OneUpdater
    PROVE  Spec => [](BilledOnce /\ CreatorView /\ UpdaterView)
<1>1. OnceInv /\ [Next]_vars => (CreatorView /\ UpdaterView /\ BilledOnce)'
  BY OnceStep
<1>2. OnceInv <=> TypeOK /\ Dutiful /\ CreatorView /\ UpdaterView /\ BilledOnce
  BY DEF OnceInv
<1> QED
  BY <1>1, <1>2, OnceBegins, TypeCorrect, DutifulCorrect, PTL DEF Spec

-----------------------------------------------------------------------------
\* Paid invoices record what their lines say.

PaidInv == TypeOK /\ Dutiful /\ FrozenTotals /\ PaidMatchesLines

\* A step keeps the totals if it changes no row's lines or total, lets no row
\* become paid but with its own total and adds no row held by an update.
RowKept(i) ==
    \/ inv'[i].status \in {"absent", "deleted"}
    \/ /\ Exists(i)
       /\ inv'[i].status \in Statuses
       /\ inv'[i].lines = inv[i].lines
       /\ inv'[i].total = inv[i].total
       /\ inv'[i].status = "paid" =>
             \/ inv[i].status = "paid" /\ inv'[i].amountPaid = inv[i].amountPaid
             \/ inv'[i].amountPaid = inv[i].total

RowMade(i) ==
    /\ inv[i].status = "absent"
    /\ inv'[i].status = "draft"
    /\ inv'[i].total = Total(inv'[i].lines)

LEMMA RowsChange ==
    ASSUME PaidInv, Next
    PROVE  \A i \in InvoiceIds :
              /\ RowKept(i) \/ RowMade(i)
              /\ inv'[i].status = "absent" => inv[i].status = "absent"
              /\ inv[i].status = "deleted" => inv'[i].status = "deleted"
<1> USE DEF PaidInv
<1>1. ASSUME inv' = inv
      PROVE  \A i \in InvoiceIds :
              /\ RowKept(i)
              /\ inv'[i].status = "absent" => inv[i].status = "absent"
              /\ inv[i].status = "deleted" => inv'[i].status = "deleted"
  BY <1>1 DEF RowKept, TypeOK, Invoice, Exists
<1>2. ASSUME NEW s \in Slots, NEW j \in InvoiceIds, InsertInvoice(s, j)
      PROVE  \A i \in InvoiceIds :
              /\ RowKept(i) \/ RowMade(i)
              /\ inv'[i].status = "absent" => inv[i].status = "absent"
              /\ inv[i].status = "deleted" => inv'[i].status = "deleted"
  BY <1>2 DEF InsertInvoice, RowKept, RowMade, TypeOK, Invoice, Exists
<1>3. ASSUME NEW s \in Slots, WriteUpdate(s)
      PROVE  \A i \in InvoiceIds :
              /\ RowKept(i)
              /\ inv'[i].status = "absent" => inv[i].status = "absent"
              /\ inv[i].status = "deleted" => inv'[i].status = "deleted"
  <2> DEFINE j == req[s].id
             row == inv[j]
             new == Patched(row, req[s])
  <2>1. CASE ~Exists(j)
    BY <1>1, <1>3, <2>1 DEF WriteUpdate
  <2>2. CASE Exists(j)
    <3>1. inv' = [inv EXCEPT ![j] = new] /\ j \in InvoiceIds /\ req[s].pc = "write"
      BY <1>3, <2>2 DEF WriteUpdate, Dutiful
    <3>2. /\ row \in Invoice /\ req[s].want \in Statuses \cup {None}
          /\ req[s].seen.total = row.total
      BY <2>2, <3>1 DEF TypeOK, FrozenTotals, Request, Exists, Statuses, Transitions
    <3>3. CASE req[s].want \in {None, req[s].seen.status}
      <4>1. new = row
        BY <3>3 DEF Patched
      <4>2. inv \in [InvoiceIds -> Invoice]
        BY DEF TypeOK
      <4>3. inv' = inv
        BY <3>1, <4>1, <4>2
      <4> QED
        BY <1>1, <4>3
    <3>4. CASE req[s].want \notin {None, req[s].seen.status}
      <4>1. new = [row EXCEPT !.status = req[s].want,
                     !.amountPaid = IF req[s].want = "paid" THEN req[s].seen.total
                                                            ELSE row.amountPaid]
        BY <3>4, Zenon DEF Patched
      <4>2. /\ new.status = req[s].want /\ new.lines = row.lines
            /\ new.total = row.total
            /\ new.status = "paid" => new.amountPaid = row.total
        BY <3>2, <4>1 DEF Invoice
      <4>3. \A i \in InvoiceIds \ {j} : inv'[i] = inv[i]
        BY <3>1 DEF TypeOK
      <4>4. inv'[j] = new
        BY <3>1 DEF TypeOK
      <4>5. new.status \in Statuses
        BY <3>2, <3>4, <4>2
      <4>6. RowKept(j)
        BY <2>2, <4>2, <4>4, <4>5 DEF RowKept, Exists
      <4>7. \A i \in InvoiceIds \ {j} : RowKept(i)
        <5> SUFFICES ASSUME NEW i \in InvoiceIds \ {j} PROVE RowKept(i)
          OBVIOUS
        <5>1. inv'[i] = inv[i]
          BY <4>3
        <5>2. inv[i].status \in Statuses \cup {"absent", "deleted"}
          BY DEF TypeOK, Invoice
        <5> QED
          BY <5>1, <5>2 DEF RowKept, Exists
      <4>8. inv'[j].status \notin {"absent", "deleted"} /\ row.status # "deleted"
        BY <2>2, <4>4, <4>5 DEF Exists, Statuses, Transitions
      <4> QED
        BY <4>3, <4>6, <4>7, <4>8
    <3> QED
      BY <3>3, <3>4
  <2> QED
    BY <2>1, <2>2
<1>4. ASSUME NEW s \in Slots, DeleteInvoice(s)
      PROVE  \A i \in InvoiceIds :
              /\ RowKept(i)
              /\ inv'[i].status = "absent" => inv[i].status = "absent"
              /\ inv[i].status = "deleted" => inv'[i].status = "deleted"
  <2>1. CASE inv' = inv
    BY <1>1, <2>1
  <2>2. CASE inv' = [inv EXCEPT ![req[s].id] = NoRow("deleted")]
    BY <2>2, NoRowTyped DEF RowKept, TypeOK, Invoice, Exists
  <2> QED
    BY <1>4, <2>1, <2>2 DEF DeleteInvoice
<1> QED
  BY <1>1, <1>2, <1>3, <1>4 DEF Next, TripStep, EnterTrip, EditTrip, DeleteTrip,
     CreateStep, StartCreate, FetchTrips, NumberInvoice, NumberTaken, UpdateStep,
     StartUpdate, Announce, RemoveStep, StartRemove, Fail

\* The steps that change what a slot is to write: a fresh reading of a row,
\* or none.
LEMMA WritersChange ==
    ASSUME TypeOK, Next
    PROVE  \A x \in Slots :
              \/ req'[x] = req[x]
              \/ req'[x].pc # "write"
              \/ /\ inv' = inv
                 /\ req'[x].id \in InvoiceIds
                 /\ Exists(req'[x].id)
                 /\ req'[x].seen = inv[req'[x].id]
<1> USE DEF TypeOK
<1>1. ASSUME NEW s \in Slots, Return(s)
      PROVE  \A x \in Slots : req'[x] = req[x] \/ req'[x].pc # "write"
  BY <1>1, IdleTyped DEF Return
<1>2. ASSUME NEW s \in Slots, NEW c \in Clients, NEW from \in Days,
             NEW to \in Days, StartCreate(s, c, from, to)
      PROVE  \A x \in Slots : req'[x] = req[x] \/ req'[x].pc # "write"
  BY <1>2 DEF StartCreate, Idle
<1>3. ASSUME NEW s \in Slots, FetchTrips(s)
      PROVE  \A x \in Slots : req'[x] = req[x] \/ req'[x].pc # "write"
  BY <1>3, IdleTyped DEF FetchTrips, Return, Request
<1>4. ASSUME NEW s \in Slots, NumberInvoice(s)
      PROVE  \A x \in Slots : req'[x] = req[x] \/ req'[x].pc # "write"
  BY <1>4 DEF NumberInvoice, Request
<1>5. ASSUME NEW s \in Slots, NEW i \in InvoiceIds,
             NEW w \in Statuses \cup {None}, StartUpdate(s, i, w)
      PROVE  \A x \in Slots :
                \/ req'[x] = req[x]
                \/ /\ inv' = inv
                   /\ req'[x].id \in InvoiceIds
                   /\ Exists(req'[x].id)
                   /\ req'[x].seen = inv[req'[x].id]
  BY <1>5 DEF StartUpdate, Idle
<1>6. ASSUME NEW s \in Slots, WriteUpdate(s)
      PROVE  \A x \in Slots : req'[x] = req[x] \/ req'[x].pc # "write"
  <2>1. \/ req' = [req EXCEPT ![s] = Idle]
        \/ req' = [req EXCEPT ![s] =
                      [Idle EXCEPT !.pc = "announce", !.id = req[s].id]]
    BY <1>6, Zenon DEF WriteUpdate, Return
  <2>2. [Idle EXCEPT !.pc = "announce", !.id = req[s].id].pc = "announce"
    BY IdleTyped DEF Request
  <2> QED
    BY <2>1, <2>2, IdleTyped
<1>7. ASSUME NEW s \in Slots, NEW i \in InvoiceIds, StartRemove(s, i)
      PROVE  \A x \in Slots : req'[x] = req[x] \/ req'[x].pc # "write"
  BY <1>7 DEF StartRemove, Idle
<1>8. CASE TripStep
  BY <1>8 DEF TripStep, EnterTrip, EditTrip, DeleteTrip
<1> QED
  BY <1>1, <1>2, <1>3, <1>4, <1>5, <1>6, <1>7, <1>8 DEF Next, CreateStep,
     InsertInvoice, NumberTaken, UpdateStep, Announce, RemoveStep, DeleteInvoice, Fail

\* Every step keeps the totals.
LEMMA PaidStep == PaidInv /\ [Next]_vars => (PaidMatchesLines /\ FrozenTotals)'
<1>1. CASE UNCHANGED vars
  BY <1>1 DEF vars, PaidInv, PaidMatchesLines, FrozenTotals, Exists
<1>2. ASSUME PaidInv, Next PROVE PaidMatchesLines' /\ FrozenTotals'
  <2> USE DEF PaidInv
  <2>1. PaidMatchesLines'
    BY <1>2, RowsChange DEF PaidMatchesLines, FrozenTotals, RowKept, RowMade, Exists,
       Statuses, Transitions
  <2>2. ASSUME NEW i \in InvoiceIds, Exists(i)'
        PROVE  inv'[i].total = Total(inv'[i].lines)
    BY <1>2, <2>2, RowsChange DEF FrozenTotals, RowKept, RowMade, Exists,
       Statuses, Transitions
  <2>3. ASSUME NEW x \in Slots, req'[x].pc = "write", NEW i, i = req'[x].id
        PROVE  \/ inv'[i].status = "deleted"
               \/ /\ inv'[i].status \in Statuses
                  /\ req'[x].seen.total = Total(inv'[i].lines)
    <3>1. CASE req'[x] = req[x]
      <4>1. /\ i \in InvoiceIds
            /\ \/ inv[i].status = "deleted"
               \/ Exists(i) /\ req[x].seen.total = Total(inv[i].lines)
        BY <1>2, <2>3, <3>1 DEF Dutiful, FrozenTotals
      <4> QED
        BY <1>2, <3>1, <4>1, RowsChange DEF RowKept, RowMade, Exists,
           Statuses, Transitions
    <3>2. CASE /\ inv' = inv /\ i \in InvoiceIds /\ Exists(i)
               /\ req'[x].seen = inv[i]
      BY <1>2, <3>2 DEF FrozenTotals, Exists
    <3> QED
      BY <1>2, <2>3, <3>1, <3>2, WritersChange
  <2> QED
    BY <2>1, <2>2, <2>3 DEF FrozenTotals, Exists
<1> QED
  BY <1>1, <1>2

\* A paid invoice records the sum of its frozen lines as received, however
\* requests and trip edits interleave (billing.service.ts, create and update).
THEOREM PaidAsBilled == Spec => [](PaidMatchesLines /\ FrozenTotals)
<1>1. Init => PaidMatchesLines /\ FrozenTotals
  BY IdleTyped DEF Init, PaidMatchesLines, FrozenTotals, Exists, NoRow,
     Statuses, Transitions
<1>2. PaidInv <=> TypeOK /\ Dutiful /\ FrozenTotals /\ PaidMatchesLines
  BY DEF PaidInv
<1> QED
  BY <1>1, <1>2, PaidStep, TypeCorrect, DutifulCorrect, PTL DEF Spec

-----------------------------------------------------------------------------
\* The lines of an invoice are finitely many: finitely many trips were ever
\* entered, and a creation bills live ones.

Born == {t \in Trips : trip[t].state # "unborn"}

FiniteLines ==
    /\ IsFiniteSet(Born)
    /\ \A i \in InvoiceIds : IsFiniteSet(DOMAIN inv[i].lines)
    /\ \A s \in Slots :
          req[s].pc \in {"number", "insert"} => IsFiniteSet(DOMAIN req[s].rows)

LEMMA BornGrows ==
    ASSUME TypeOK, [Next]_vars
    PROVE  Born' = Born \/ \E t \in Trips : Born' \subseteq Born \cup {t}
<1>1. ASSUME NEW t \in Trips, NEW c \in Clients, NEW a \in Amounts,
             EnterTrip(t, c, a) \/ EditTrip(t, c, a)
      PROVE  Born' \subseteq Born \cup {t}
  BY <1>1 DEF EnterTrip, EditTrip, Born, TypeOK
<1>2. ASSUME NEW t \in Trips, DeleteTrip(t)
      PROVE  Born' \subseteq Born \cup {t}
  BY <1>2 DEF DeleteTrip, Born, TypeOK
<1>3. ASSUME NEW s \in Slots, CreateStep(s) \/ UpdateStep(s) \/ RemoveStep(s) \/ Fail(s)
      PROVE  trip' = trip
  BY <1>3 DEF CreateStep, StartCreate, FetchTrips, NumberInvoice, InsertInvoice,
     NumberTaken, UpdateStep, StartUpdate, WriteUpdate, Announce, RemoveStep,
     StartRemove, DeleteInvoice, Fail
<1>4. CASE trip' = trip
  BY <1>4 DEF Born
<1> QED
  BY <1>1, <1>2, <1>3, <1>4 DEF Next, TripStep, vars

\* The requests of a creation: only its fetch makes lines, of live trips.
LEMMA RequestLines ==
    ASSUME TypeOK, FiniteLines, [Next]_vars, NEW s \in Slots,
           req'[s].pc \in {"number", "insert"}
    PROVE  IsFiniteSet(DOMAIN req'[s].rows)
<1> USE DEF TypeOK, FiniteLines
<1>1. CASE req'[s] = req[s]
  BY <1>1
<1>2. CASE FetchTrips(s)
  <2> DEFINE rows == [t \in Billable(req[s]) |-> trip[t].bill]
  <2>1. Billable(req[s]) \subseteq Born
    BY DEF Billable, Born
  <2>2. IsFiniteSet(DOMAIN rows)
    BY <2>1, FS_Subset
  <2> DEFINE next == [Idle EXCEPT !.pc = "number", !.rows = rows]
  <2>3. next.rows = rows
    BY IdleTyped DEF Request
  <2>4. req'[s] = Idle \/ req'[s] = next
    BY <1>2 DEF FetchTrips, Return
  <2> HIDE DEF rows, next
  <2>5. req'[s] = next
    BY <2>4, IdleTyped
  <2> QED
    BY <2>2, <2>3, <2>5
<1>3. CASE NumberInvoice(s)
  <2>1. \E n \in NextNumbers : req' = [req EXCEPT ![s].pc = "insert", ![s].number = n]
    BY <1>3 DEF NumberInvoice
  <2>2. req'[s].rows = req[s].rows
    BY <2>1 DEF Request
  <2> QED
    BY <1>3, <2>2 DEF NumberInvoice
<1>4. ASSUME NEW x \in Slots, CreateStep(x)
      PROVE  req'[s] = req[s] \/ req'[s].pc \notin {"number", "insert"}
                \/ FetchTrips(s) \/ NumberInvoice(s)
  <2>1. ASSUME NEW c \in Clients, NEW from \in Days, NEW to \in Days,
               StartCreate(x, c, from, to)
        PROVE  req'[s] = req[s] \/ req'[s].pc \notin {"number", "insert"}
    BY <2>1 DEF StartCreate, Idle
  <2>2. ASSUME Return(x) PROVE req'[s] = req[s] \/ req'[s].pc \notin {"number", "insert"}
    BY <2>2, IdleTyped DEF Return
  <2>3. FetchTrips(x) \/ NumberInvoice(x) => x = s \/ req'[s] = req[s]
    BY DEF FetchTrips, NumberInvoice, Return
  <2> QED
    BY <1>4, <2>1, <2>2, <2>3 DEF CreateStep, InsertInvoice, NumberTaken
<1>5. ASSUME NEW x \in Slots, UpdateStep(x) \/ RemoveStep(x) \/ Fail(x)
      PROVE  req'[s] = req[s] \/ req'[s].pc \notin {"number", "insert"}
  <2>1. ASSUME NEW i \in InvoiceIds, NEW w \in Statuses \cup {None}, StartUpdate(x, i, w)
        PROVE  req'[s] = req[s] \/ req'[s].pc \notin {"number", "insert"}
    BY <2>1 DEF StartUpdate, Idle
  <2>2. ASSUME NEW i \in InvoiceIds, StartRemove(x, i)
        PROVE  req'[s] = req[s] \/ req'[s].pc \notin {"number", "insert"}
    BY <2>2 DEF StartRemove, Idle
  <2>3. ASSUME Return(x) PROVE req'[s] = req[s] \/ req'[s].pc \notin {"number", "insert"}
    BY <2>3, IdleTyped DEF Return
  <2>4. ASSUME WriteUpdate(x), ~ Return(x)
        PROVE  req'[s] = req[s] \/ req'[s].pc \notin {"number", "insert"}
    <3> DEFINE next == [Idle EXCEPT !.pc = "announce", !.id = req[x].id]
    <3>1. next.pc = "announce"
      BY IdleTyped DEF Request
    <3>2. req' = [req EXCEPT ![x] = next]
      BY <2>4 DEF WriteUpdate
    <3> HIDE DEF next
    <3> QED
      BY <3>1, <3>2
  <2> QED
    BY <1>5, <2>1, <2>2, <2>3, <2>4 DEF UpdateStep, Announce, RemoveStep, DeleteInvoice, Fail
<1>6. CASE TripStep
  BY <1>1, <1>6 DEF TripStep, EnterTrip, EditTrip, DeleteTrip
<1> QED
  BY <1>1, <1>2, <1>3, <1>4, <1>5, <1>6 DEF Next, vars

\* The rows: only the insert makes lines, those of its request.
LEMMA RowLines ==
    ASSUME TypeOK, Dutiful, FiniteLines, [Next]_vars, NEW i \in InvoiceIds
    PROVE  IsFiniteSet(DOMAIN inv'[i].lines)
<1> USE DEF TypeOK, FiniteLines
<1>1. CASE inv' = inv
  BY <1>1
<1>2. ASSUME NEW s \in Slots, NEW j \in InvoiceIds, InsertInvoice(s, j)
      PROVE  IsFiniteSet(DOMAIN inv'[i].lines)
  BY <1>2 DEF InsertInvoice
<1>3. ASSUME NEW s \in Slots, WriteUpdate(s)
      PROVE  IsFiniteSet(DOMAIN inv'[i].lines)
  <2>1. inv' = inv \/ inv' = [inv EXCEPT ![req[s].id] = Patched(@, req[s])]
    BY <1>3 DEF WriteUpdate
  <2>2. Patched(inv[i], req[s]).lines = inv[i].lines
    BY DEF Patched, Invoice
  <2> QED
    BY <2>1, <2>2
<1>4. ASSUME NEW s \in Slots, DeleteInvoice(s)
      PROVE  IsFiniteSet(DOMAIN inv'[i].lines)
  <2>1. DOMAIN NoRow("deleted").lines = {}
    BY NoLinesTyped DEF NoRow
  <2> QED
    BY <1>4, <2>1, FS_EmptySet DEF DeleteInvoice
<1> QED
  BY <1>1, <1>2, <1>3, <1>4 DEF Next, vars, TripStep, EnterTrip, EditTrip, DeleteTrip,
     CreateStep, StartCreate, FetchTrips, NumberInvoice, NumberTaken, UpdateStep,
     StartUpdate, Announce, RemoveStep, StartRemove, Fail

LEMMA FiniteStep == TypeOK /\ Dutiful /\ FiniteLines /\ [Next]_vars => FiniteLines'
<1> SUFFICES ASSUME TypeOK, Dutiful, FiniteLines, [Next]_vars PROVE FiniteLines'
  OBVIOUS
<1>1. IsFiniteSet(Born')
  <2>1. \A t : IsFiniteSet(Born \cup {t})
    BY FS_Singleton, FS_Union DEF FiniteLines
  <2> QED
    BY <2>1, BornGrows, FS_Subset DEF FiniteLines
<1> QED
  BY <1>1, RequestLines, RowLines DEF FiniteLines

\* Totals are numbers.
LEMMA TotalTyped ==
    ASSUME TypeOK, FrozenTotals, FiniteLines, NEW i \in InvoiceIds, Exists(i)
    PROVE  inv[i].total \in Int
<1> DEFINE lines == inv[i].lines
<1>1. PICK S \in SUBSET Trips : lines \in [S -> Amounts]
  BY DEF TypeOK, Invoice, LineSets
<1>2. IsFiniteSet(DOMAIN lines) /\ inv[i].total = Total(lines)
  BY DEF FiniteLines, FrozenTotals
<1> HIDE DEF lines
<1>3. \A t \in DOMAIN lines : lines[t] \in Int
  <2>1. DOMAIN lines = S /\ \A t \in S : lines[t] \in Amounts
    BY <1>1
  <2>2. \A n \in Amounts : n \in Int
    BY AmountsAssumption
  <2> QED
    BY <2>1, <2>2
<1>4. SumFunctionOnSet(lines, DOMAIN lines) \in Int
  BY <1>2, <1>3, SumInt
<1> QED
  BY <1>2, <1>4 DEF Total, SumFunction

-----------------------------------------------------------------------------
\* Payment is announced once.

PostInv == TypeOK /\ Dutiful /\ ClerkView /\ AnnouncedIsPaid

Clerical == {"write", "announce", "delete"}

\* While a clerical request runs in a slot, no other slot runs one.
LEMMA ClerkAlone ==
    ASSUME OneClerk, Dutiful, NEW s \in Slots, req[s].pc \in Clerical
    PROVE  \A x \in Slots \ {s} : req[x].pc \notin Clerical
BY DEF OneClerk, AtMostOne, Dutiful, Clerical

\* A step that changes no row a request holds and no announcement keeps what
\* clerical requests rely on, if it starts none.
LEMMA ClerkViewKept ==
    ASSUME PostInv, announced' = announced,
           \A i \in InvoiceIds : inv[i].status # "absent" => inv'[i] = inv[i],
           \A x \in Slots : req'[x] = req[x] \/ req'[x].pc \notin Clerical
    PROVE  ClerkView' /\ AnnouncedIsPaid'
<1> USE DEF PostInv
<1>1. AnnouncedIsPaid'
  BY DEF AnnouncedIsPaid, TypeOK
<1>2. ASSUME NEW x \in Slots, req'[x] = req[x], req[x].pc \in Clerical
      PROVE  /\ req[x].id \in InvoiceIds
             /\ inv'[req[x].id] = inv[req[x].id]
  BY <1>2 DEF ClerkView, Dutiful, Clerical, Statuses, Transitions
<1> QED
  BY <1>1, <1>2 DEF ClerkView, Clerical

LEMMA CreateStepPost ==
    ASSUME PostInv, NEW s \in Slots, CreateStep(s)
    PROVE  ClerkView' /\ AnnouncedIsPaid'
<1> USE DEF PostInv
<1>1. announced' = announced
  BY DEF CreateStep, StartCreate, FetchTrips, NumberInvoice, InsertInvoice, NumberTaken
<1>2. \A i \in InvoiceIds : inv[i].status # "absent" => inv'[i] = inv[i]
  BY DEF CreateStep, StartCreate, FetchTrips, NumberInvoice, InsertInvoice,
     NumberTaken, TypeOK
<1>3. \A x \in Slots : req'[x] = req[x] \/ req'[x].pc \notin Clerical
  <2>1. ASSUME NEW c \in Clients, NEW from \in Days, NEW to \in Days,
               StartCreate(s, c, from, to)
        PROVE  \A x \in Slots : req'[x] = req[x] \/ req'[x].pc = "trips"
    BY <2>1 DEF StartCreate, Idle, TypeOK
  <2>2. CASE FetchTrips(s)
    <3>1. \A x \in Slots : req'[x] = req[x] \/ req'[x].pc \in {"idle", "number"}
      BY <2>2, IdleTyped DEF FetchTrips, Return, TypeOK, Request
    <3> QED
      BY <3>1 DEF Clerical
  <2>3. CASE NumberInvoice(s)
    <3>1. \A x \in Slots : req'[x] = req[x] \/ req'[x].pc = "insert"
      BY <2>3 DEF NumberInvoice, TypeOK, Request
    <3> QED
      BY <3>1 DEF Clerical
  <2>4. CASE Return(s)
    BY <2>4, IdleTyped DEF Return, TypeOK, Clerical
  <2> QED
    BY <2>1, <2>2, <2>3, <2>4 DEF CreateStep, InsertInvoice, NumberTaken, Clerical
<1> QED
  BY <1>1, <1>2, <1>3, ClerkViewKept

LEMMA StartPost ==
    ASSUME PostInv, NEW s \in Slots, NEW i \in InvoiceIds,
           \/ \E w \in Statuses \cup {None} : StartUpdate(s, i, w)
           \/ StartRemove(s, i)
    PROVE  ClerkView' /\ AnnouncedIsPaid'
<1> USE DEF PostInv
<1>1. inv' = inv /\ announced' = announced
  BY DEF StartUpdate, StartRemove
<1>2. AnnouncedIsPaid'
  BY <1>1 DEF AnnouncedIsPaid
<1>3. \A x \in Slots \ {s} : req'[x] = req[x]
  BY DEF StartUpdate, StartRemove, TypeOK
<1>4. \/ req'[s].pc = "write" /\ req'[s].id = i /\ req'[s].seen = inv[i]
      \/ req'[s].pc = "delete" /\ req'[s].id = i /\ inv[i].status = "draft"
  BY DEF StartUpdate, StartRemove, Idle, TypeOK
<1> QED
  BY <1>1, <1>2, <1>3, <1>4 DEF ClerkView

LEMMA WritePost ==
    ASSUME OneClerk, PostInv, NEW s \in Slots, WriteUpdate(s)
    PROVE  ClerkView' /\ AnnouncedIsPaid'
<1> USE DEF PostInv
<1> DEFINE i == req[s].id
           new == Patched(inv[i], req[s])
<1>1. /\ req[s].pc = "write" /\ i \in InvoiceIds /\ inv[i] \in Invoice
      /\ req[s].seen.status = inv[i].status
      /\ Exists(i)
      /\ req[s].want \in {None, inv[i].status} \cup Transitions[inv[i].status]
  BY DEF WriteUpdate, Dutiful, ClerkView, TypeOK, Exists
<1>2. inv' = [inv EXCEPT ![i] = new] /\ announced' = announced
  BY <1>1 DEF WriteUpdate
<1>3. announced[i] > 0 => new = inv[i]
  BY <1>1 DEF AnnouncedIsPaid, Transitions, Patched
<1>4. AnnouncedIsPaid'
  BY <1>1, <1>2, <1>3 DEF AnnouncedIsPaid, TypeOK
<1>5. \A x \in Slots \ {s} : req'[x] = req[x] /\ req[x].pc \notin Clerical
  <2>1. \A x \in Slots \ {s} : req'[x] = req[x]
    BY DEF WriteUpdate, Return, TypeOK
  <2> QED
    BY <1>1, <2>1, ClerkAlone DEF Clerical
<1>6. \/ req'[s].pc = "idle"
      \/ req'[s].pc = "announce" /\ req'[s].id = i /\ PaysNow(req[s])
  <2>1. \/ req' = [req EXCEPT ![s] = Idle]
        \/ /\ PaysNow(req[s])
           /\ req' = [req EXCEPT ![s] = [Idle EXCEPT !.pc = "announce", !.id = i]]
    BY Zenon DEF WriteUpdate, Return
  <2>2. LET r == [Idle EXCEPT !.pc = "announce", !.id = i]
        IN  r.pc = "announce" /\ r.id = i
    BY IdleTyped DEF Request
  <2> QED
    BY <2>1, <2>2, IdleTyped DEF TypeOK
<1>7. PaysNow(req[s]) => new.status = "paid" /\ announced[i] = 0
  <2> SUFFICES ASSUME PaysNow(req[s]) PROVE new.status = "paid" /\ announced[i] = 0
    OBVIOUS
  <2>1. req[s].want = "paid" /\ inv[i].status # "paid" /\ None # "paid"
    BY <1>1, NoneAssumption DEF PaysNow, Statuses, Transitions
  <2>2. announced[i] \in Nat
    BY <1>1 DEF TypeOK
  <2> QED
    BY <1>1, <2>1, <2>2 DEF Patched, AnnouncedIsPaid, Invoice
<1>8. inv'[i] = new
  BY <1>1, <1>2 DEF TypeOK
<1>9. ASSUME NEW x \in Slots
      PROVE  /\ req'[x].pc \notin {"write", "delete"}
             /\ req'[x].pc = "announce" => /\ inv'[req'[x].id].status = "paid"
                                          /\ announced'[req'[x].id] = 0
  BY <1>2, <1>5, <1>6, <1>7, <1>8 DEF Clerical
<1> QED
  BY <1>4, <1>9 DEF ClerkView

LEMMA AnnouncePost ==
    ASSUME OneClerk, PostInv, NEW s \in Slots, Announce(s) \/ DeleteInvoice(s)
    PROVE  ClerkView' /\ AnnouncedIsPaid'
<1> USE DEF PostInv
<1>1. \A x \in Slots : req'[x].pc \notin Clerical
  <2>1. req[s].pc \in Clerical
    BY DEF Announce, DeleteInvoice, Clerical
  <2>2. req' = [req EXCEPT ![s] = Idle]
    BY DEF Announce, DeleteInvoice, Return
  <2>3. "idle" \notin Clerical
    BY DEF Clerical
  <2> QED
    BY <2>1, <2>2, <2>3, ClerkAlone, IdleTyped DEF TypeOK
<1>2. CASE Announce(s)
  <2>1. /\ req[s].id \in InvoiceIds
        /\ inv[req[s].id].status = "paid" /\ announced[req[s].id] = 0
    BY <1>2 DEF Announce, Dutiful, ClerkView
  <2>2. inv' = inv /\ announced' = [announced EXCEPT ![req[s].id] = 1]
    BY <1>2, <2>1 DEF Announce, Exists, Statuses, Transitions
  <2>3. AnnouncedIsPaid'
    BY <2>1, <2>2 DEF AnnouncedIsPaid, TypeOK
  <2> QED
    BY <1>1, <2>3 DEF ClerkView, Clerical
<1>3. CASE DeleteInvoice(s)
  <2>1. req[s].id \in InvoiceIds /\ inv[req[s].id].status = "draft"
    BY <1>3 DEF DeleteInvoice, Dutiful, ClerkView
  <2>2. /\ announced' = announced
        /\ \A i \in InvoiceIds \ {req[s].id} : inv'[i] = inv[i]
    BY <1>3 DEF DeleteInvoice, TypeOK
  <2>3. ~ (announced[req[s].id] > 0)
    BY <2>1 DEF AnnouncedIsPaid
  <2>4. AnnouncedIsPaid'
    BY <2>1, <2>2, <2>3 DEF AnnouncedIsPaid
  <2> QED
    BY <1>1, <2>4 DEF ClerkView, Clerical
<1> QED
  BY <1>2, <1>3

\* What a lone clerk relies on, from step to step.
LEMMA PostStep ==
    ASSUME OneClerk
    PROVE  PostInv /\ [Next]_vars => (ClerkView /\ AnnouncedIsPaid)'
<1> SUFFICES ASSUME PostInv, [Next]_vars PROVE ClerkView' /\ AnnouncedIsPaid'
  OBVIOUS
<1>1. CASE inv' = inv /\ req' = req /\ announced' = announced
  BY <1>1, ClerkViewKept
<1>2. CASE TripStep
  BY <1>1, <1>2 DEF TripStep, EnterTrip, EditTrip, DeleteTrip
<1>3. ASSUME NEW s \in Slots, Fail(s) PROVE ClerkView' /\ AnnouncedIsPaid'
  <2>1. \A x \in Slots : req'[x] = req[x] \/ req'[x].pc \notin Clerical
    BY <1>3, IdleTyped DEF Fail, Return, PostInv, TypeOK, Clerical
  <2> QED
    BY <1>3, <2>1, ClerkViewKept DEF Fail
<1> QED
  BY <1>1, <1>2, <1>3, CreateStepPost, StartPost, WritePost, AnnouncePost
     DEF Next, UpdateStep, RemoveStep, vars

\* INVOICE_PAID is emitted at most once for an invoice and only for one that
\* is paid and stays so, if status changes and deletions are served one at a
\* time (billing.service.ts, update and remove).
THEOREM AnnouncedOnce ==
    ASSUME OneClerk
    PROVE  Spec => [](AnnouncedIsPaid /\ ClerkView)
<1>1. Init => ClerkView /\ AnnouncedIsPaid
  BY IdleTyped DEF Init, ClerkView, AnnouncedIsPaid
<1>2. PostInv /\ [Next]_vars => (ClerkView /\ AnnouncedIsPaid)'
  BY PostStep
<1>3. PostInv <=> TypeOK /\ Dutiful /\ ClerkView /\ AnnouncedIsPaid
  BY DEF PostInv
<1> QED
  BY <1>1, <1>2, <1>3, TypeCorrect, DutifulCorrect, PTL DEF Spec

\* A statement moves the status of one invoice at most, and along the flow.
LEMMA StatusStep ==
    ASSUME PostInv, [Next]_vars, NEW i \in InvoiceIds
    PROVE  /\ inv[i].status \in {"paid", "void"} => inv'[i].status = inv[i].status
           /\ inv'[i].status = "deleted" => inv[i].status \in {"draft", "deleted"}
<1> USE DEF PostInv
<1>1. inv \in [InvoiceIds -> Invoice] /\ req \in [Slots -> Request]
  BY DEF TypeOK
<1>2. CASE inv' = inv
  BY <1>2
<1>3. ASSUME NEW s \in Slots, NEW j \in InvoiceIds, InsertInvoice(s, j)
      PROVE  \/ inv'[i] = inv[i]
             \/ inv[i].status = "absent" /\ inv'[i].status = "draft"
  <2>1. PICK row : /\ inv' = [inv EXCEPT ![j] = row] /\ row.status = "draft"
                   /\ inv[j].status = "absent"
    BY <1>3 DEF InsertInvoice
  <2>2. i = j => inv'[i] = row
    BY <1>1, <2>1
  <2>3. i # j => inv'[i] = inv[i]
    BY <1>1, <2>1
  <2> QED
    BY <2>1, <2>2, <2>3
<1>4. ASSUME NEW s \in Slots, DeleteInvoice(s)
      PROVE  inv'[i] = inv[i] \/ inv[i].status = "draft"
  <2>1. req[s].id = i => inv[i].status = "draft"
    BY <1>4 DEF DeleteInvoice, ClerkView
  <2>2. req[s].id # i => inv'[i] = inv[i]
    BY <1>1, <1>4 DEF DeleteInvoice
  <2> QED
    BY <2>1, <2>2
<1>5. ASSUME NEW s \in Slots, WriteUpdate(s)
      PROVE  inv'[i].status = inv[i].status
                \/ /\ inv[i].status \in Statuses
                   /\ inv'[i].status \in Transitions[inv[i].status]
  <2>1. CASE inv'[i] = inv[i]
    BY <2>1
  <2>2. CASE inv'[i] # inv[i]
    <3>1. req[s].id = i /\ Exists(i) /\ inv'[i] = Patched(inv[i], req[s])
      BY <1>1, <1>5, <2>2 DEF WriteUpdate
    <3>2. inv[i].status = req[s].seen.status
      BY <1>5, <3>1 DEF WriteUpdate, ClerkView
    <3>3. req[s].want \notin {None, inv[i].status} /\ inv'[i].status = req[s].want
      BY <1>1, <2>2, <3>1, <3>2 DEF Patched, Invoice
    <3>4. req[s].want \in Transitions[inv[i].status]
      BY <1>5, <3>2, <3>3 DEF WriteUpdate, Dutiful
    <3> QED
      BY <3>1, <3>3, <3>4 DEF Exists
  <2> QED
    BY <2>1, <2>2
<1>6. \A was \in Statuses : Transitions[was] \subseteq Statuses
         /\ (was \in {"paid", "void"} => Transitions[was] = {}) /\ "deleted" \notin Statuses
  BY DEF Statuses, Transitions
<1>7. ASSUME NEW s \in Slots, WriteUpdate(s)
      PROVE  /\ inv[i].status \in {"paid", "void"} => inv'[i].status = inv[i].status
             /\ inv'[i].status = "deleted" => inv[i].status = "deleted"
  BY <1>5, <1>6, <1>7
<1> QED
  BY <1>2, <1>3, <1>4, <1>7 DEF Next, vars, TripStep, EnterTrip, EditTrip, DeleteTrip,
     CreateStep, StartCreate, FetchTrips, NumberInvoice, NumberTaken, UpdateStep,
     StartUpdate, Announce, RemoveStep, StartRemove, Fail

\* "paid/void are terminal" and "only drafts may be deleted", as the comments of
\* billing.service.ts have it, if status changes and deletions are served one at
\* a time: update and remove write by id alone what they checked before.
THEOREM StatusesKept ==
    ASSUME OneClerk
    PROVE  Spec => TerminalStays /\ OnlyDraftsDeleted
<1>1. PostInv /\ [Next]_vars =>
         [\A i \in InvoiceIds : inv[i].status \in {"paid", "void"}
             => inv'[i].status = inv[i].status]_inv
  BY StatusStep
<1>2. PostInv /\ [Next]_vars =>
         [\A i \in InvoiceIds : inv'[i].status = "deleted"
             => inv[i].status \in {"draft", "deleted"}]_inv
  BY StatusStep
<1>3. PostInv <=> TypeOK /\ Dutiful /\ ClerkView /\ AnnouncedIsPaid
  BY DEF PostInv
<1> QED
  BY <1>1, <1>2, <1>3, TypeCorrect, DutifulCorrect, AnnouncedOnce, PTL
     DEF Spec, TerminalStays, OnlyDraftsDeleted

-----------------------------------------------------------------------------
\* Numbers.

\* The successor of the lexicographically last number is free, or it is the
\* first number wider than the padding.
LEMMA NextNumberFree ==
    ASSUME TypeOK, NEW n \in NextNumbers, n \in Numbers
    PROVE  n = SeqLimit + 1
<1>1. Numbers \subseteq Nat
  BY DEF TypeOK, Numbers, Invoice
<1>2. PICK last \in Numbers :
         n = last + 1 /\ \A m \in Numbers : LexRank(m) <= LexRank(last)
  BY DEF NextNumbers, LastNumbers
<1>3. LexRank(n) <= LexRank(last) /\ last \in Nat /\ n \in Nat
  BY <1>1, <1>2
<1>4. 2 * Radix * n = 2 * Radix * last + 2 * Radix
  BY <1>2, <1>3, NumberingAssumption
<1>5. Radix \in Nat /\ Radix > 0 /\ SeqLimit \in Nat
  BY NumberingAssumption
<1>6. 2 * Radix * last \in Nat
  BY <1>3, <1>5
<1>7. CASE n <= SeqLimit
  <2>1. /\ LexRank(n) = 2 * Radix * n - 1
        /\ LexRank(last) = 2 * Radix * last - 1
    BY <1>2, <1>3, <1>5, <1>7 DEF LexRank
  <2> QED
    BY <1>3, <1>4, <1>5, <1>6, <2>1
<1>8. CASE last > SeqLimit
  <2>1. LexRank(n) = 2 * n /\ LexRank(last) = 2 * last
    BY <1>2, <1>3, <1>5, <1>8 DEF LexRank
  <2> QED
    BY <1>2, <1>3, <2>1
<1> QED
  BY <1>2, <1>3, <1>5, <1>7, <1>8

NumberInv == TypeOK /\ Dutiful /\ CollidesOnlyAtLimit

\* Numbers in use stay few: only an insert adds one.
LEMMA NumbersChange ==
    ASSUME TypeOK, Dutiful, Next, ~ \E s \in Slots, i \in InvoiceIds : InsertInvoice(s, i)
    PROVE  Numbers' \subseteq Numbers
<1>1. ASSUME inv' = inv PROVE Numbers' \subseteq Numbers
  BY <1>1 DEF Numbers, Exists
<1>2. ASSUME NEW s \in Slots, WriteUpdate(s) PROVE Numbers' \subseteq Numbers
  <2>1. CASE Exists(req[s].id)
    <3>1. /\ inv' = [inv EXCEPT ![req[s].id] = Patched(inv[req[s].id], req[s])]
          /\ req[s].id \in InvoiceIds
      BY <1>2, <2>1 DEF WriteUpdate, Dutiful
    <3>2. Patched(inv[req[s].id], req[s]).number = inv[req[s].id].number
      BY <3>1 DEF Patched, TypeOK, Invoice
    <3>3. \A i \in InvoiceIds : Exists(i)' => Exists(i) /\ inv'[i].number = inv[i].number
      BY <2>1, <3>1, <3>2 DEF Exists, TypeOK
    <3> QED
      BY <3>3 DEF Numbers
  <2>2. CASE ~Exists(req[s].id)
    BY <1>1, <1>2, <2>2 DEF WriteUpdate
  <2> QED
    BY <2>1, <2>2
<1>3. ASSUME NEW s \in Slots, DeleteInvoice(s) PROVE Numbers' \subseteq Numbers
  <2>1. CASE inv' = [inv EXCEPT ![req[s].id] = NoRow("deleted")]
    <3>1. \A i \in InvoiceIds : Exists(i)' => Exists(i) /\ inv'[i] = inv[i]
      BY <2>1, NoRowTyped DEF Exists, TypeOK, Statuses, Transitions
    <3> QED
      BY <3>1 DEF Numbers
  <2> QED
    BY <1>1, <1>3, <2>1 DEF DeleteInvoice
<1> QED
  BY <1>1, <1>2, <1>3 DEF Next, TripStep, EnterTrip, EditTrip, DeleteTrip,
     CreateStep, StartCreate, FetchTrips, NumberInvoice, NumberTaken, UpdateStep,
     StartUpdate, Announce, RemoveStep, StartRemove, Fail

\* A lone creation is refused its number only when the numbers outgrow their
\* padding, and then for the first wider number alone (nextNumber).
THEOREM NumbersSuffice ==
    ASSUME OneCreator
    PROVE  Spec => []CollidesOnlyAtLimit
<1>1. Init => CollidesOnlyAtLimit
  BY IdleTyped DEF Init, CollidesOnlyAtLimit
<1>2. NumberInv /\ [Next]_vars => CollidesOnlyAtLimit'
  <2> SUFFICES ASSUME NumberInv, [Next]_vars PROVE CollidesOnlyAtLimit'
    OBVIOUS
  <2> USE DEF NumberInv
  <2>1. CASE UNCHANGED vars
    BY <2>1 DEF vars, CollidesOnlyAtLimit, Numbers, Exists
  <2>2. ASSUME NEW s \in Slots, NEW i \in InvoiceIds, InsertInvoice(s, i)
        PROVE  CollidesOnlyAtLimit'
    <3>1. \A x \in Slots : req'[x].pc # "insert"
      BY <2>2, IdleTyped DEF InsertInvoice, Return, TypeOK, Dutiful, OneCreator,
         AtMostOne
    <3> QED
      BY <3>1 DEF CollidesOnlyAtLimit
  <2>3. CASE Next /\ ~ \E s \in Slots, i \in InvoiceIds : InsertInvoice(s, i)
    <3>1. Numbers' \subseteq Numbers
      BY <2>3, NumbersChange
    <3>2. ASSUME NEW x \in Slots
          PROVE  \/ req'[x].pc # "insert"
                 \/ req'[x] = req[x]
                 \/ req'[x].number \in NextNumbers
      <4>1. ASSUME NEW s \in Slots, Return(s)
            PROVE  req'[x] = req[x] \/ req'[x].pc # "insert"
        BY <4>1, IdleTyped DEF Return, TypeOK
      <4>2. ASSUME NEW s \in Slots, FetchTrips(s)
            PROVE  req'[x] = req[x] \/ req'[x].pc # "insert"
        BY <4>2, IdleTyped DEF FetchTrips, Return, TypeOK, Request
      <4>3. ASSUME NEW s \in Slots, NumberInvoice(s)
            PROVE  req'[x] = req[x] \/ req'[x].number \in NextNumbers
        BY <4>3 DEF NumberInvoice, TypeOK, Request
      <4>4. ASSUME NEW s \in Slots, NEW c \in Clients, NEW from \in Days,
                   NEW to \in Days, StartCreate(s, c, from, to)
            PROVE  req'[x] = req[x] \/ req'[x].pc # "insert"
        BY <4>4 DEF StartCreate, Idle, TypeOK
      <4>5. ASSUME NEW s \in Slots, NEW i \in InvoiceIds,
                   \/ \E w \in Statuses \cup {None} : StartUpdate(s, i, w)
                   \/ StartRemove(s, i)
            PROVE  req'[x] = req[x] \/ req'[x].pc # "insert"
        BY <4>5 DEF StartUpdate, StartRemove, Idle, TypeOK
      <4>6. ASSUME NEW s \in Slots, WriteUpdate(s)
            PROVE  req'[x] = req[x] \/ req'[x].pc # "insert"
        <5>1. \/ req' = [req EXCEPT ![s] = Idle]
              \/ req' = [req EXCEPT ![s] =
                            [Idle EXCEPT !.pc = "announce", !.id = req[s].id]]
          BY <4>6, Zenon DEF WriteUpdate, Return
        <5>2. [Idle EXCEPT !.pc = "announce", !.id = req[s].id].pc = "announce"
          BY IdleTyped DEF Request
        <5> QED
          BY <5>1, <5>2, IdleTyped DEF TypeOK
      <4>7. CASE TripStep
        BY <4>7 DEF TripStep, EnterTrip, EditTrip, DeleteTrip
      <4> QED
        BY <2>3, <4>1, <4>2, <4>3, <4>4, <4>5, <4>6, <4>7 DEF Next, CreateStep,
           InsertInvoice, NumberTaken, UpdateStep, Announce, RemoveStep,
           DeleteInvoice, Fail
    <3> QED
      BY <3>1, <3>2, NextNumberFree DEF CollidesOnlyAtLimit
  <2> QED
    BY <2>1, <2>2, <2>3
<1>3. NumberInv <=> TypeOK /\ Dutiful /\ CollidesOnlyAtLimit
  BY DEF NumberInv
<1> QED
  BY <1>1, <1>2, <1>3, TypeCorrect, DutifulCorrect, PTL DEF Spec

-----------------------------------------------------------------------------
\* Billing implements the period book.

BookInv == TypeOK /\ Dutiful /\ CreatorView /\ ClerkView

LEMMA BookInsert ==
    ASSUME BookInv, NEW s \in Slots, NEW i \in InvoiceIds, InsertInvoice(s, i),
           NEW S, S = DOMAIN req[s].rows
    PROVE  Book!Issue(i, S)
<1> USE DEF BookInv
<1> DEFINE book == [j \in InvoiceIds |-> [status |-> inv[j].status,
                                         items |-> DOMAIN inv[j].lines]]
<1>1. \A j \in InvoiceIds : Book!InForce(j) <=> InForce(j)
  BY DEF Book!InForce, Book!Statuses, InForce, Exists, Statuses
<1>2. Book!Held = Invoiced
  BY <1>1 DEF Book!Held, Invoiced
<1>3. DOMAIN req[s].rows # {} /\ DOMAIN req[s].rows \cap Invoiced = {}
  BY DEF CreatorView, InsertInvoice
<1>4. book' = [book EXCEPT ![i] = [status |-> "draft", items |-> S]]
  BY DEF InsertInvoice, TypeOK
<1>5. book[i].status = "absent"
  BY DEF InsertInvoice
<1> QED
  BY <1>2, <1>3, <1>4, <1>5 DEF Book!Issue

LEMMA BookWrite ==
    ASSUME BookInv, NEW s \in Slots, WriteUpdate(s),
           NEW i, i = req[s].id, NEW w, w = req[s].want
    PROVE  Book!Move(i, w) \/ inv' = inv
<1> USE DEF BookInv
<1> DEFINE book == [j \in InvoiceIds |-> [status |-> inv[j].status,
                                         items |-> DOMAIN inv[j].lines]]
           new == Patched(inv[i], req[s])
<1>1. /\ i \in InvoiceIds /\ inv[i] \in Invoice /\ inv[i].status \in Statuses
      /\ req[s].seen.status = inv[i].status
      /\ w \in {None, inv[i].status} \cup Transitions[inv[i].status]
  BY DEF WriteUpdate, Dutiful, ClerkView, TypeOK
<1>2. inv' = [inv EXCEPT ![i] = new]
  BY <1>1 DEF WriteUpdate, Exists
<1>3. CASE w \in {None, inv[i].status}
  <2>1. new = inv[i]
    BY <1>1, <1>3 DEF Patched
  <2> QED
    BY <1>1, <1>2, <2>1 DEF TypeOK
<1>4. CASE w \notin {None, inv[i].status}
  <2>1. new = [inv[i] EXCEPT !.status = w,
                  !.amountPaid = IF w = "paid" THEN req[s].seen.total
                                               ELSE inv[i].amountPaid]
    BY <1>1, <1>4, Zenon DEF Patched
  <2>2. new.status = w /\ new.lines = inv[i].lines
    BY <1>1, <2>1 DEF Invoice
  <2>3. book' = [book EXCEPT ![i].status = w]
    BY <1>1, <1>2, <2>2 DEF TypeOK
  <2>4. book[i].status \in Statuses /\ w \in Transitions[book[i].status]
    BY <1>1, <1>4
  <2> QED
    BY <2>3, <2>4 DEF Book!Move, Book!Statuses, Statuses
<1> QED
  BY <1>3, <1>4

LEMMA BookDelete ==
    ASSUME BookInv, NEW s \in Slots, DeleteInvoice(s), NEW i, i = req[s].id
    PROVE  Book!Discard(i)
<1> USE DEF BookInv
<1> DEFINE book == [j \in InvoiceIds |-> [status |-> inv[j].status,
                                         items |-> DOMAIN inv[j].lines]]
<1>1. i \in InvoiceIds /\ inv[i].status = "draft"
  BY DEF DeleteInvoice, Dutiful, ClerkView
<1>2. inv' = [inv EXCEPT ![i] = NoRow("deleted")]
  BY <1>1 DEF DeleteInvoice, Exists, Statuses, Transitions
<1>3. NoRow("deleted").status = "deleted" /\ DOMAIN NoRow("deleted").lines = {}
  BY NoLinesTyped DEF NoRow
<1>4. book' = [book EXCEPT ![i] = [status |-> "deleted", items |-> {}]]
  BY <1>1, <1>2, <1>3 DEF TypeOK
<1> QED
  BY <1>1, <1>4 DEF Book!Discard

\* A statement issues, moves or discards an invoice or leaves the book alone.
LEMMA BookStep ==
    ASSUME BookInv, [Next]_vars
    PROVE  Book!Next \/ inv' = inv
<1>1. ASSUME NEW s \in Slots, NEW i \in InvoiceIds, InsertInvoice(s, i)
      PROVE  Book!Next
  <2>1. DOMAIN req[s].rows \in SUBSET Trips
    <3>1. req[s].rows \in LineSets
      BY DEF BookInv, TypeOK, Request
    <3> QED
      BY <3>1 DEF LineSets
  <2>2. PICK S \in SUBSET Trips : S = DOMAIN req[s].rows
    BY <2>1
  <2>3. Book!Issue(i, S)
    BY <1>1, <2>2, BookInsert
  <2> QED
    BY <2>3, Zenon DEF Book!Next
<1>2. ASSUME NEW s \in Slots, WriteUpdate(s)
      PROVE  Book!Next \/ inv' = inv
  <2>1. req[s].id \in InvoiceIds
    BY <1>2 DEF BookInv, Dutiful, WriteUpdate
  <2>2. PICK i \in InvoiceIds, w \in Statuses \cup {None} :
           i = req[s].id /\ w = req[s].want
    BY <2>1 DEF BookInv, TypeOK, Request
  <2>3. Book!Move(i, w) \/ inv' = inv
    BY <1>2, <2>2, BookWrite
  <2>4. Book!Move(i, w) => w \in Book!Statuses
    BY DEF Book!Move, Book!Statuses, Transitions
  <2> QED
    BY <2>3, <2>4, Zenon DEF Book!Next
<1>3. ASSUME NEW s \in Slots, DeleteInvoice(s) PROVE Book!Next
  <2>1. req[s].id \in InvoiceIds
    BY <1>3 DEF BookInv, Dutiful, DeleteInvoice
  <2>2. PICK i \in InvoiceIds : i = req[s].id
    BY <2>1
  <2>3. Book!Discard(i)
    BY <1>3, <2>2, BookDelete
  <2> QED
    BY <2>3, Zenon DEF Book!Next
<1>4. CASE inv' = inv
  BY <1>4
<1> QED
  BY <1>1, <1>2, <1>3, <1>4 DEF Next, TripStep, EnterTrip, EditTrip, DeleteTrip,
     CreateStep, StartCreate, FetchTrips, NumberInvoice, NumberTaken, UpdateStep,
     StartUpdate, Announce, RemoveStep, StartRemove, Fail, vars

LEMMA BookBegins == Init => Book!Init
BY NoLinesTyped DEF Init, Book!Init, Book!Absent, NoRow

\* Every behaviour of the billing module is one of a period book, if
\* creations are served one at a time and so are status changes and
\* deletions: a request takes effect at its one writing statement, as if it
\* had not been interleaved with anything.
THEOREM BillingImplementsBook ==
    ASSUME OneCreator, OneClerk
    PROVE  Spec => ImplementsBook
<1>1. BookInv /\ [Next]_vars =>
         [Book!Next]_([i \in InvoiceIds |-> [status |-> inv[i].status,
                                           items |-> DOMAIN inv[i].lines]])
  BY BookStep
<1>2. BookInv <=> TypeOK /\ Dutiful /\ CreatorView /\ ClerkView
  BY DEF BookInv
<1>3. OneUpdater
  BY DEF OneClerk, OneUpdater, AtMostOne
<1> QED
  BY <1>1, <1>2, <1>3, BookBegins, TypeCorrect, DutifulCorrect, OnceBilled, AnnouncedOnce,
     PTL DEF Spec, ImplementsBook, Book!Spec
=============================================================================
