# Verification of the Zezet ERP backend

TLA+ specifications of the backend's core logic, TLC runs that check them on
small instances, and TLAPS proofs that carry the main results to every instance.
`src/` below is the backend's own `src` directory.

## 1. The system

A NestJS service over PostgreSQL (Prisma) and Redis for a trucking company. A
truck's day is a daily log; its trips are the universal record, from which
invoices and pay runs are drawn up, and whose payments end in a cash ledger.

| component | state it keeps | operations that change it | speaks to |
|---|---|---|---|
| operations (`operations.service.ts`) | `DailyTruckLog`, `Trip` | create/update/confirm a log; create/update/delete a trip | pricing (effective rate); emits `trip.created` (no listener) |
| billing (`billing.service.ts`) | `Invoice`, `InvoiceLine` | create from client + period, update (status, notes), remove a draft | reads trips; emits `invoice.paid` |
| payroll (`payroll.service.ts`) | `PayrollRun`, `PayrollLine` | create from period, update, remove a draft | reads trips; emits `payroll.paid` |
| costs (`costs.service.ts`) | `TruckCost` | create, remove | emits `cost.created` |
| treasury (`treasury.service.ts`) | `BankAccount`, `Transaction` | create/update/remove an account; create/remove an entry; `autoPost` | listens to the three events |
| pricing (`pricing.service.ts`) | `RateCard`, `Rate` | create/update/deactivate a card; create/update/close a rate | called by operations |
| auth (`auth.service.ts`) | Redis `refresh:<userId>` | login, refresh, logout | reads users |
| users (`users.service.ts`) | `User`, `UserRole` | create with a generated username, set roles | |
| rbac (`rbac/`) | none | ability table, policies guard, stripping of money fields | every request |
| audit (`audit.interceptor.ts`) | `AuditLog` | one row per successful mutation, fire and forget | every request |
| reporting (`reporting/`) | none | read-only aggregates | reads everything |
| clients, fleet, workforce | `Client`, `Truck`, `Worker` | create, update, deactivate; never delete | referenced by all |

**What is hard about it.** Requests run concurrently and interleave at every
`await`. Only four operations open a transaction, at PostgreSQL's default
isolation level, READ COMMITTED, where each statement sees what is committed
when it starts: a check in one statement does not protect the next. Nothing
takes a row lock and no write is conditional on what was read. The event emitter
is in memory: an event that is lost with the process is not sent again, and
handlers run beside each other. The remedies the code has are unique indexes
(invoice number, log per truck and day, username), order of statements, and
checks that are re-run by the next request. The hazards are listed, line by
line, in `PROJECT.json`.

**What makes each part correct.**

* billing: a trip is on one invoice in force; lines and totals are frozen;
  terminal statuses are terminal; only drafts go; numbers are unique and
  creation does not get stuck on them; a payment is announced once.
* treasury: one default account; one entry per event source; entries do not
  vanish with their account.
* billing, payroll, costs + treasury: ledger entries for invoices and payrolls
  that are paid and costs that were entered, one each with the amount and sign of
  its source, and one in the end for each; the cash position says the same.
* payroll: as billing, with a driver line and a helper line per trip.
* operations: one log per truck and day; trips numbered in order of creation;
  confirmation once.
* auth: at most one refresh token is good; one good refresh per token; logout
  ends the session (both with one tab open at a time: two violation runs show what
  more tabs do). users: distinct usernames; roles are what was last set.
* pricing: a trip gets the newest rate in force of its client, and the money
  asked for. rbac: an operations role alone never sees money, whatever it calls;
  what is taken away from a user is out of reach one token lifetime and one call
  later. audit:
  every change has its record, and a record its change. reporting: the reports on
  one window agree, and windows that meet add up.

## 2. Modules

| module | what it is |
|---|---|
| `PeriodBook` | abstract: documents that hold items, with atomic issue, move, discard |
| `Billing` | `billing.service.ts`, statement by statement; implements `PeriodBook` |
| `Treasury` | `treasury.service.ts`, statement by statement |
| `Costs` | `costs.service.ts`, statement by statement |
| `Settlement` | Billing, Payroll, Costs and Treasury in one process, joined by the three events, with failures and crashes |
| `Payroll` | `payroll.service.ts`, statement by statement; implements `PeriodBook` |
| `Operations` | `operations.service.ts`, statement by statement |
| `Reporting` | the six reports of `reporting/` over the tables of `Operations`, with the costs and the status of trucks |
| `Pricing` | `pricing.service.ts`, `rate-selection.ts` and the price of a new trip, under a clock |
| `Users` | `users.service.ts` and `username.util.ts`: usernames, roles |
| `Auth` | `auth.service.ts` beside `Users`, whose tables it reads, statement by statement: tokens, their lifetime, the key in Redis |
| `Directory` | `clients.service.ts`, `fleet.service.ts`, `workforce.service.ts`: the three master tables |
| `Rbac` | abilities, the routes of all controllers with their policies and the money in their answers, the financial gate |
| `Access` | the path of a request: an access token of `Auth`, the guard of `Rbac`, a handler of `Directory`, the audit trail |
| `Sums` | laws of finite sums, which the proofs about totals rest on |
| `BillingProofs`, `PayrollProofs`, `PricingProofs`, `AuthProofs`, `AccessProofs` | theorems and proofs of these modules |
| `SettlementProofs` | those of Treasury, of `PeriodBook` and of Settlement |
| `OperationsProofs` | those of Operations and of the reports |
| `MCBilling`, `MCTreasury`, `MCSettlement`, `MCPayroll`, `MCOperations`, `MCReporting`, `MCPricing`, `MCAuth`, `MCAccess` | instances for TLC |

### Conventions shared by the modules

* **A step is a statement.** An action is one SQL statement (or one in-memory
  stretch between two `await`s), because under READ COMMITTED that is what is
  atomic. A read statement stores in `req` what the later statements use; a
  write uses what was stored. Where Prisma turns one call into several SQL
  statements (joins for display fields, the nested insert of lines before a
  commit) the call is one step: the extra reads only fetch labels, and what a
  transaction inserts is invisible until it commits.
* **Slots and duties.** A slot is one HTTP request in flight. `Duties[s]` says
  which kinds of request slot `s` serves, one at a time. Hence a value of
  `Duties` states which operations can overlap: two slots with `"create"` are
  two simultaneous creations. The conditions `OneCreator`, `OneUpdater`,
  `OneClerk`, `OneManager`, `OnePoster`, `OneBookkeeper`, `OneRecorder`, `OneConfirmer`,
  `OneSetter`, `OneRefresher`, `OneSession` say that some kinds do not overlap.
  They are not enforced by the code; they hold when one person does the billing,
  one the cash book, one the daily logs, and a user has one tab open. The
  results name the condition they need.
* **Tables are total functions** over finite sets of row ids. A row is
  `"absent"`, then in a status of its own, then `"deleted"`: ids (cuid) are never
  reused, so neither are the model's. An insert picks any absent id.
* **Failures.** `Fail` ends a request between any two statements: a thrown
  error, a transaction timeout, a dead connection. What it had committed stays.
  A statement on a row that is gone (Prisma P2025, a foreign key, a unique
  index) ends the request and changes nothing.
* **Mutants.** A definition introduced by "Mutant of ..." is a plausible wrong
  version of the definition after it. Nothing uses it; it is there to show that
  the property named with it in `PROJECT.json` notices the difference.

### Billing

| variable | in the code |
|---|---|
| `inv` | table `Invoice` with its `InvoiceLine` rows (`lines`: trip to frozen amount) |
| `trip` | table `Trip`: its client and charge; the date is that of its log, `DayOf`, which never changes |
| `req` | locals of `create`, `update`, `remove` between two awaits |
| `announced` | how often `INVOICE_PAID` was emitted, per invoice (history) |

`create` is `StartCreate` (invoiced lines) - `FetchTrips` - `NumberInvoice` -
`InsertInvoice` or `NumberTaken`; `update` is `StartUpdate` - `WriteUpdate` -
`Announce`; `remove` is `StartRemove` - `DeleteInvoice`. `EnterTrip`,
`EditTrip`, `DeleteTrip` are the final statements of the operations module's
trip handlers, free to happen at any time.

*Numbers* are found by text order (`orderBy number desc`). `LexRank` orders
numbers as their texts sort, written in base `Radix` and padded to the width of
`SeqLimit` (10 and 9999 in the code): a number one digit too wide sorts as its
prefix. The model covers numbers up to one digit too wide and one calendar year
(each year starts its own series).

*Left out*: `billable`, `list`, `getDetail`, `aging` (they change nothing),
notes, period fields after creation, and the existence check of the client
(clients are never deleted).

### Treasury

| variable | in the code |
|---|---|
| `account` | table `BankAccount`: status, `isDefault`, rank of `createdAt` |
| `entry` | table `Transaction`: its account and, if auto-posted, its source |
| `req` | locals of the five mutating requests |
| `post` | locals of `autoPost` |

Every mutating handler is split at its awaits (`CountAccounts`/`InsertAccount`,
`StartUpdate`/`DemoteOthers`/`WriteAccount`, `StartRemoveAccount`/
`CountEntries`/`DeleteAccount`, `StartRecord`/`Record`, `StartErase`/`Erase`,
`Receive`/`FindDupe`/`FindDefault`/`FindOldest`/`InsertPost`). Standing alone,
the module lets the event of any source arrive any number of times. An amount
is a number with the sign of its direction; `netByAccount` and `cashPosition` add
them up. The opening balance of an account is left out: no operation changes it
together with the ledger. Categories and dates decide nothing and are left out.

### Costs and Settlement

`Costs` is `POST` and `DELETE /truck-costs`: `StartCreate` - `InsertCost` -
`Announce`, `StartRemove` - `DeleteCost`. Nothing announces a removal: the entry
of a cost that was removed stays, which is intended (`DEVLOG.md`).

`Settlement` extends Treasury, whose sources are now invoices, runs and costs and
whose slots are those of its own desks, and has `B`, `P`, `C` as instances of
Billing, Payroll and Costs. Billing and
Payroll each see their columns of one table `Trip`: `trip` and `crew`, which
`TripStep` changes together. `InvoicePaid`, `PayrollPaid` and `CostCreated` are
the joint steps: `EventEmitter2.emit` calls the handler synchronously, so the
handler's first statement is issued with the emission, with the amount of the
source's row and the sign of its direction; from then on it runs by itself
(`HandlerStep`). `Crash` empties all requests and handlers and keeps the tables.
`Faults` says whether failures and crashes are enabled; `lost` is history: the
sources whose announcement or handler a fault took, for which no one promises an
entry.

Fairness (`Fairness`): weak fairness of the write of a status change, of the
three announcements and of each handler's next statement. That is what the
database and Node's event loop give to code that awaits a statement: the
statement is answered and the continuation runs. No fairness is assumed of
clients: nobody has to send a request, and a creation or an account request may
stop for ever. `PaidIsPosted` is claimed of sources that are never settled while
no account is active (`autoPost` then skips).

### Payroll

| variable | in the code |
|---|---|
| `run` | table `PayrollRun` with its `PayrollLine` rows: a set of (trip, role, worker, frozen amount) |
| `trip` | table `Trip`: driver, helper, their pay |
| `req`, `announced` | as in Billing |

The requests are split as in Billing. What differs is the shape of the data. A
trip gives one line for its driver and one for its helper, but coverage
(`getCoveredTripIds`) is asked of the trip: a helper named after a run has
covered the trip is on no run. `EditTrip` can name another helper but never take
one off, as `updateTrip` leaves a helper alone when the patch has none. A run
also freezes its total and its number of workers, while the statements a reader
sees (`Statement`, the code's `aggregateByWorker`) are computed from the lines
at each read: `StatementsAgree` says the two never part. `Totals` and `Counts` are
the types of the frozen columns: the sums and worker counts of sets of lines.

### Operations

| variable | in the code |
|---|---|
| `log` | table `DailyTruckLog`: status, its truck and day (`key`), the patchable fields (`figure`) |
| `trip` | table `Trip`: its log, `seq`, the patchable fields; `born`, the order of creation, is history |
| `req` | locals of the seven mutating requests |
| `answered` | the logs `createLog` has answered with, per truck and day (history) |
| `confirms` | how often a log was confirmed (history) |

`createLog` is `StartLog` - `InsertLog`, or `LogTaken` and `FindLog` when the
unique index refuses the row; `updateLog` is `StartAmend` - `AmendLog`,
`confirmLog` is `StartConfirm` - `ConfirmLog`; `createTrip` is `StartTrip` -
`ReadSeqs` - `InsertTrip`, `updateTrip` is `StartEdit` - `PatchTrip`,
`deleteTrip` is `StartDrop` - `DropTrip`. Deleted rows keep their fields in the
model, so that what a number once meant can be asked. Which rate fills in a
trip's money is the pricing module's; the money itself is a `figure`. Clients,
workers and trucks are never deleted, so the checks that they exist cannot go
stale; `trip.created` has no listener; warnings on odometer and fuel are only
returned. Billing and Payroll let trips appear, change and disappear at any
moment; that a trip's day does not change, which both assume (`DayOf`), is
`TripLife` here.

### Reporting

| variable | in the code |
|---|---|
| `cost` | table `TruckCost` |
| `truck` | `Truck.status` |
| those of Operations | tables `DailyTruckLog` and `Trip` |

Reporting changes nothing: it is operators over the tables. `fetchTripRows`,
`fetchOperationalRows`, `fetchFuelRows` and `fetchCostRows` are the queries,
`aggregate...` the functions of `reporting.aggregate.ts`, and `trips`,
`utilization`, `workerPay`, `clientBillables`, `operational`, `truckPnl` the
endpoints. `TripOf` and `LogOf` say which columns a `figure` of Operations
stands for. What is checked is relations between reports, in every state the
handlers of Operations can reach: a sum compared with itself shows nothing, but
the code groups the same rows by day, truck, worker and client, each with its
own idea of which key may be absent. All queries of one report see one state;
`truckPnl` issues four and no transaction, so two of them may in truth see
different ones. Ratios are left as their two terms; names, orders and formats
are left out. The ledger entry of a cost is in Settlement.

### Pricing

| variable | in the code |
|---|---|
| `card` | `RateCard.status` |
| `rate` | table `Rate`: card, label, the three money columns (`price`), window |
| `trip` | table `Trip`: client, label, rate, money; how it was asked for is history |
| `req` | locals of `closeRate`, `lookup` and `createTrip` |
| `now` | the clock, which ticks between any two statements |
| `fate`, `down` | what happened to each rate, since when a card is disabled (history) |

`createTrip`, as far as its price goes, is `StartTrip` - `FindRate` (an explicit
`rateId`) or `FindRates` - `Select` (the effective rate) - `InsertTrip`; a
lookup takes the same steps and ends in `AnswerLookup`. `closeRate` is
`StartClose` - `CloseRate`: the end of the window is the clock when the request
is made, not when the row is written. `Select` reads the clock after the query
has been answered and picks any of the latest to begin, since the query asks for
no order. Cards, rates and patches with every window and label are entered at
any moment. The three money columns are one `price`: `updateRate` can write them
one by one, which yields another `price`.

### Users and Auth

| variable | in the code |
|---|---|
| `user` | table `User`: status and username, the latter as a base and a suffix |
| `roles` | table `UserRole` |
| `req` | locals of `create` and `setRoles` between two statements |
| `asked`, `given` | the roles each user was last given, and all it was ever given (history) |
| `key` | Redis `refresh:<userId>`: the jti of the one good refresh token |
| `token` | what was signed, by jti: whose it is, with which roles, and the ticks its access token has `left` |
| `call` | locals of `login` and `refresh` between two awaits; `age`, for how many ticks they have been under way |
| `uses`, `on` | exchanges per refresh token; users who logged in and did not log out since (history) |
| `lapse` | for how many ticks a user has not held a set of roles (history) |

`create` is `StartCreate` - `ReadNames` - `InsertUser`, or `NameTaken` when the
unique index refuses the name and the loop goes round. What `usernameFor` spells
is abstracted to `Text(base, suffix)`, of which it is only assumed that one base
spells different suffixes differently: a base that ends in a digit can collide
with another base's suffixed name, and in the instance one does. `since` and
`seen` in a request are history: how many users there were when it began and
when it chose its name.

`setRoles` is a transaction of two statements at READ COMMITTED. `gone` is the
rows its delete sees; `DeleteRoles` waits for the row locks of other
transactions; `PutRoles` inserts and commits, and tells the deletes that wait
which rows they will not find any more; `RoleTaken` is the unique index (P2002).
No handler changes a user's status, though login and refresh test it:
`SetStatus` is done by hand on the database.

`login` is `Login` (the read of the user with its roles) - `StoreToken`; `refresh`
is `Refresh` (the comparison with the key) - `ReadUser` - `StoreToken`; `Logout` and
`Expire` delete the key. Between any two of them roles are replaced, users
disabled, other calls made and the clock ticks. Passwords and signatures are left
out: a token that would not verify is a request that changes nothing, and checking
a password is time that passes after `Login`. Signing and the storing of the key are
one step: a pair whose key is not stored is never handed out, and to let the access
token's life begin at the later of the two makes it live longer, not shorter.

An access token is good for `Ttl` ticks and nobody can revoke it. `Flight` bounds
how many ticks a login or a refresh is under way: the code sets no limit, so
`Flight` is any number, and results that speak of time name it. A user *holds* the
roles it has while it is active and logged in, or has a login under way; `lapse`
counts, up to `Ttl + Flight`, since when it has not.

### Rbac, Directory and Access

`Rbac` has no state. `Grants` and `Denied` are `casl-ability.factory.ts`: the rules
of each role and the denials of those who have an operations role and no
financial one, in CASL's order (the last rule that matches decides). `Routes` is
every route of every controller with the abilities `RequireAbility` asks and the
money fields found at any depth of its answer (`money`). `Passes` is
`PoliciesGuard`, `Shown` the `FinancialFieldsInterceptor`.

`Directory` is the three services of master data, which are alike: `Create...`,
`Update...` and `Deactivate...` begin a request, `InsertRow` and `WriteRow` are its
statement, `KeyTaken` the unique index (P2002). Of the columns the status and the
unique one are kept: codes of clients and trucks, the user a worker is linked to.
Rows are never deleted, so a check that a row exists cannot go stale; that the
other modules take workers, trucks and clients for granted rests on this.

| variable of `Access` | in the code |
|---|---|
| those of `Auth` | users, roles, sessions, tokens, the clock |
| `row`, `edit` | those of Directory: the tables, and the request each handler serves |
| `who` | `request.user` of each request |
| `writing`, `trail` | the inserts of `AuditLog` nobody awaits; the table |
| `done`, `lost` | changes made, records lost (history) |

A request is `Arrive` (the two guards: the token's claims, not the tables, are
judged) - `Commit` or `Refuse` - `Reply` - and, by itself, `Land`. `Fault` loses
one request or one record, `Die` all, the calls of Auth included. Sessions are
those of Auth, step for step (`SessionNext`, `Tick`): a logout or a replacement of
roles can come between the comparison of a refresh, its read of the roles, and the
signing, and requests are let in meanwhile.
`Leaks` is the set of pairs of a set of roles and a route at which guard and gate
show what they should not; `MoneyHidden` says no token carries such roles.
The stripping of secrets from a record and the guess of
an entity where `@AuditEntity` is missing are left out. Two things about records
are outside the model: the record of a deletion, which has no `after`, and the
record of `POST /daily-logs/:id/trips`, which is filed under the id in the path,
that of the log.

## 3. Runs

| run | what it asks | bounds |
|---|---|---|
| `billing_core` | with one creator and one clerk: `BilledOnce`, `PaidMatchesLines`, `AnnouncedIsPaid`, `CollidesOnlyAtLimit` and `ImplementsBook` | 2 invoices over 2 trips on 2 days, amounts {1, 2}; a third invoice over one trip; base 3, two one-digit numbers, so 3 is already too wide |
| `billing_two_creators` | violation of `BilledOnce` | two creators |
| `treasury_core` | `SingleDefault`, `PostedOnce` and `LedgerKept` | one manager, one bookkeeper, one poster; 2 accounts, 2 entries, 1 source, 1 amount |
| `settlement_core` | `BooksAgree`, and `PaidIsPosted` under the fairness above, with failures and crashes and two handlers at a time | 1 invoice of 4, 1 run paying 1, 1 cost of 8, 1 account, 3 entries; one request at a time beside the handlers |
| `settlement_double_pay` | violation of `PostedOnce` | two updaters, two handlers |
| `payroll_core` | with one creator and one clerk: `PaidOnce`, `StatementsAgree`, `AnnouncedIsPaid`, `ImplementsBook` | 2 runs over 2 trips of one worker who may drive and help; or a third run over one trip, base 3; or a lone creation over 2 trips of 2 workers |
| `operations_core` | `OneAnswer`, `ConfirmedOnce`, `SeqsOrderTrips`, `TripLife`, with two people: both open logs, one records, edits and amends, the other deletes and confirms; and in every state, for every window, the reports: `ReportsAgree`, `WindowsAdd` | 2 logs of 2 trucks on 2 days, 3 trips, 1 cost; 2 clients, 2 workers, a trip with and one without a helper |
| `operations_two_recorders` | violation of `SeqsDistinct` | two recorders, 2 trips |
| `pricing_core` | `OwnCard`, `InItsTime`, `Supersedes`, `MoneyAsAsked`, with one person who closes rates and one who records trips, while cards and rates change | 1 card, 2 rates, 1 trip, 2 clients, 1 label, 2 instants; nothing asked for, or a trip for nothing |
| `auth_logout_race` | violation of `LogoutEnds` | a client refreshes while another logs the same user out |
| `auth_refresh_race` | violation of `ExchangedOnce` | two clients refresh with one token |
| `access_core` | `NamesFilled`, `LostToOthers`, `RolesAsAsked`, `ExchangedOnce`, `LogoutEnds`, `ClaimsWhole`, `PowersLapse`, `MoneyHidden`, `TrailTells`, with failures and crashes, two creators, one setter of roles, one client logging in and one refreshing and logging out, two handlers of requests | 3 users, 2 bases, 3 attempts, 3 tokens of 1 tick, calls of at most 1 tick (`Flight`), an operations and a financial role; 1 client, 1 truck, 2 workers, 2 changes (`MaxChanges`) |

Each passing run also checks its module's type invariant, except
`settlement_core`, whose parts have been checked in theirs.

Six instances are limited by a predicate named `Scope` in their MC module, a
disjunction of the situations explored to the end. In `MCBilling` a third
invoice is only drawn up over a single trip. In `MCPayroll` likewise, and two
workers meet only a lone creation, which is where statements are made. In
`MCAccess` the situations are five: the sessions of one user whose roles stay; the
replacement of its roles beside one token, by any set; its powers as the clock ticks, with
two tokens, when it is given another role or disabled while it logs in, refreshes
and logs out; the names of three users without sessions; and the changes a user makes in
one session. A step out of a situation is checked before it is dropped, so what
a user is let in with is checked in the third as in the last. In `MCReporting`,
where `Scope` is a conjunct of the steps so that no report is drawn of a state
outside it, two people work on rows that are alike (no guard of an operation
reads the columns that differ), and one at a time on rows that differ, which is
what sums can tell apart. In `MCPricing` the situations are: one rate, revised
or of two clients and with routes; two rates that are not revised; overrides
beside a rate that is at most closed. The clock stops when the trip is in. In
`MCSettlement`, where it is a conjunct of the steps too, so that fairness speaks of
what the instance can do: rows of the ledger are taken in order (`InOrder`), trips
have no helper and are deleted only before a cost is entered, and accounts are
changed, once opened, only while there is no run. What `Scope` cuts off is covered
by the theorems, which have none, but for the liveness of `PaidIsPosted`.

Directly in the directory are eight more configurations, of violations that were
run by hand and are not part of the standard set: `BillingTwoUpdaters` (of
`TerminalStays`: `update` writes by id, two status changes at once leave a
terminal status), `BillingRemoveRace` (of `OnlyDraftsDeleted`: a draft issued
while it is removed is deleted although issued), `TreasuryTwoManagers` (of
`SingleDefault`: two promotions at once leave two default accounts),
`TreasuryRemoveRace` (of `LedgerKept`: an entry recorded while its account is
removed disappears with it), `PayrollTwoCreators` (of `PaidOnce`: as in
billing), `AuthTwoSetters` (of `RolesAsAsked`: two replacements of one
user's roles at once leave it with both sets),
`OperationsReuse` (of `SeqsNotReused`: "gaps left by deleted trips are
intentionally NOT reused", says the comment on `nextSeq`, but the number of the
last trip of a log is given again once that trip is deleted) and
`OperationsUtilization` (of `UtilizationIsRatio`: "a 0..1 ratio", says the
comment in `reporting.aggregate.ts`, but the trips of a truck that is inactive
by now count and the truck does not).

**Why the bounds are enough to be interesting.** Double billing needs two
invoices and one trip; the second trip makes partial overlaps of periods and of
line sets possible, the second amount makes totals depend on edits, and the
days make periods differ. A third invoice makes the collision at the limit
reachable (it is: the run fires `NumberTaken`) and lets deletions open gaps. Two
accounts are what a default can be wrong about; two entries what a source can
have too many of. In Settlement the three sources have different amounts, none
the difference of others, so a missing or doubled entry or a wrong sign shows in
the cash position. In Access two handlers put two changes of one worker in either
order with their records; a token that lives one tick expires between two
requests of its holder, and a call of one tick is long enough for what it read to
be taken away before it signs. In Payroll one worker is enough for coverage; statements need
two, so that one can drive what the other helps on. In Operations three trips
let a middle number be deleted before the next is given, and two logs keep their
numbers apart. Three attempts stand for five: three users created by others while one
creation is under way are what makes it give up. Three tokens let one be
exchanged into a second while a login signs a third. Two days are what a window can be cut between. In
Pricing two rates are what one can supersede, and two instants what a boundary
has on either side. What a bound hides beyond this the theorems cover: every
safety property of a passing run is proved for all sets.

Row ids are finite, so an instance can run out of them. A request at its insert
then waits for ever; the other requests go on. Symmetry is used over ids only,
and not in `settlement_core`.

**What the violation runs show.** Each is a statement of the repository that the
code does not keep when two requests overlap; `PROJECT.json`
quotes the statement under "findings". The passing runs show what remains true
if the named operations do not overlap.

* Two creations at once bill a trip twice: "generation runs in a transaction"
  (ADR 0004) does not help at READ COMMITTED.
* Two PATCHes to paid at once post the payment twice: the look for duplicates is
  not atomic with the insert and no index is unique.
* Two trips recorded at once get the same number: the transaction that is said to
  prevent it does not at READ COMMITTED.
* A refresh that has compared its token when the user logs out stores a new one
  afterwards: the session goes on although ADR 0002 says refresh is dead.
* Two refreshes with one token both find it in the key, and both are answered with
  new tokens: neither gets the 401 that `DEVLOG.md` speaks of. The one whose key was
  overwritten gets it at its next refresh.

## 4. Proofs

All proofs are checked by TLAPS with SMT, Zenon and LS4 (PTL).

* `TypeCorrect` of `BillingProofs` and `SettlementProofs` (Treasury's): the type invariants, for
  all constants satisfying the modules' assumptions.
* `DutifulCorrect` (lemma): a request runs in a slot that serves its kind and,
  past its first statement, on an id. `Dutiful` turns the conditions on `Duties`
  into facts about requests: if only one slot serves creations, any two requests
  past the start of a creation are the same.
* `OnceBilled` (`OneCreator`, `OneUpdater`): `BilledOnce` is not inductive. A
  creation inserts what it read earlier, so the invariant must say that what it
  read is still safe: `CreatorView` (the invoiced set it holds covers the
  invoiced trips; the lines it is to insert touch none of them). That survives
  other requests because only creations put trips in force - unless an update
  brings a void invoice back, which a lone updater cannot: `UpdaterView` (the
  status it read is still the row's, or the row is gone).
* `PaidAsBilled` (no condition): `PaidMatchesLines` with `FrozenTotals`, which
  says that total and lines agree in the row and in the copy an update holds.
  It holds under any concurrency because lines and total are written once.
* `AnnouncedOnce` (`OneClerk`): `AnnouncedIsPaid` with `ClerkView`: with
  deletions in the same queue the row an update read is exactly the row it
  writes, so what it announces is paid and has not been announced.
* `StatusesKept` (`OneClerk`): `TerminalStays` and `OnlyDraftsDeleted`, which the
  violation runs by hand refute for two updaters or an updater beside a remover,
  hold where `ClerkView` does.
* `NumbersSuffice` (`OneCreator`): between reading the last number and the
  insert, numbers can only disappear, so a collision means that the successor of
  the textual maximum was taken when read; the textual maximum's successor is
  taken only past the padding.
* `BillingImplementsBook` (`OneCreator`, `OneClerk`): every step of every request
  is an atomic issue, move or discard of `PeriodBook` or stutters, under the
  refinement that forgets everything but statuses and line sets. The invariants
  above give the guards of the abstract actions.
* `SettlementProofs!BookHeldOnce`: what an implementation inherits.
* `OneDefault` (`OneManager`): `SingleDefault` with `ManagerView`: while a
  promotion is between demotion and write there is no default but its own. Removals
  and failures half-way are allowed.
* `OneEntryPerSource` (`OnePoster`): `PostedOnce` with `PosterView`.
* `LedgerStands` (`OneBookkeeper`): `LedgerKept` with `BookkeeperView`: every entry
  has an account that exists, which is the foreign key's doing and its cascade's,
  and an account about to be deleted has no entry recorded by hand, since the
  bookkeeper who counted them does not record in between. Entries posted for
  events may have come, and go.
* `OperationsProofs!TypeCorrect`: `nextSeq` takes a maximum, which is a number
  only because the seqs in use and in hand are bounded; `TypeInv` carries that
  along with the types (`MaxExists` uses the well-foundedness of the numbers).
* `LogsAnswered` (no condition): all creations for a truck and day are answered
  with one log. The invariant adds that an answered log exists with that key,
  which no operation changes.
* `SeqsInOrder` (`OneRecorder`): `SeqsOrderTrips` with `RecorderView`: what a
  creation has read covers the seqs in use, since only creations add any.
* `TripsLive` (no condition): `TripLife`, from the types and `Dutiful`.
* `OnceConfirmed` (`OneConfirmer`): a log under confirmation is still a draft.
* `PricingProofs!TypeCorrect`: money is numbers because a creation holds the
  overrides it was asked for and a rate with a price, or none (`TypeInv`).
* `MoneyStands` (no condition): `MoneyAsAsked`. What a creation found either has
  an identity and a price or is nothing at all, so that a trip without a rate is
  one whose missing columns were filled with zeros.
* `CardsOwned`, `WindowsKept`, `NewestChosen` (no condition): `ChoiceInv` speaks
  of the rows that were read and of the rate that was chosen. A row read is of a
  card of the client that has not gone down since before the trip was begun, and
  its beginning is still that of its rate unless a patch came between; every
  rate that is steady (unrevised, in force, created before the trip was begun)
  is among the rows. The choice takes the last to begin of those in force
  (`LastExists`: there is one, by the well-foundedness of the numbers), so it is
  in its time and not older than any steady rate; a trip keeps that for good.
  `StepMoves` says once what a step can do to a rate: leave it, create it, patch
  it, close it now; the rest is about those four cases and not about actions.
* `AuthProofs!TypeCorrect`: that `firstFreeUsername` finds a suffix at all is
  counting: at most as many names are in use as there are users, and there is
  one suffix more (`FreeSuffix`, by the injection of suffixes into names).
* `NamesFirstFree`, `AttemptsLost` (no condition): the invariant `Naming` is about
  a request with a name in hand. The smaller suffixes of its base were in use
  when it looked and still are, since no user is ever deleted; and if its name is
  in use by now, there are more users than when it looked.
* `RolesReplaced`, `RolesWhole` (`OneSetter`): `Replacing` says that a delete
  under way sees all the roles of its user. Then what is put is what was asked;
  and what a login or a refresh reads is a set that was given, which it stays
  until the token is signed (`ClaimsGiven`).
* `ExchangesOnce` (`OneRefresher`): `KeysUnspent`: the key of a user names a token of
  that user not yet exchanged, and so does the one exchange that can be under
  way. Storing its answer replaces the key, and a token once replaced is in no
  key again.
* `LogoutIsFinal` (`OneSession`): `Gone`: of a user who logged out there is no key
  and no exchange under way. A login under way may still store its token: the
  user has logged in again.

* `PayrollProofs`: `StepEffect` says once what a step of a request does to its slot
  and to the runs (it begins, has fetched, has a number, has inserted, moved,
  discarded, posted, returned); `OncePaid`, `AnnouncedOnce`, `NumbersSuffice` and
  `PayrollImplementsBook` are argued over these effects along the lines of
  Billing, with `Single` for what Billing has not: of the lines one creation
  holds, no two are for one role of one trip.
* `StatementsStand` (no condition): a run's total and worker count are those of
  its lines for good (`Frozen`), whatever becomes of its trips, and its lines are
  finitely many (`FiniteLines`). The statements add the same lines up worker by
  worker and, for each, role by role; that this gives the same total is
  `SumOfParts` twice, once over the workers and once over the roles.
* `BooksStand` (`Clerks`, `DesksManage`): the composition. `SettlementInv` is the
  invariants of Billing (`PostInv` with `FrozenTotals`) and of Payroll, that of
  Costs, and `LedgerInv`. The former two are the ones proved of the modules standing
  alone, taken over by instantiating those modules' lemmas: a step of Settlement
  is a step of Billing or leaves it alone, or loses its requests
  (`BillingMoves`, which a crash is), and likewise for Payroll. `LedgerInv` says that
  what stands in the ledger or is in a handler's hands was emitted (`EntryView`,
  `HandlerView`), by one handler or one entry, at the source's worth. One
  announcement for each source gives one entry; that is where one clerk is needed,
  and why handlers may overlap. `StepSteady` says that nothing
  emitted changes its worth afterwards, nor is ever unsettled. The cash position adds up
  entries account by account; `SumOfParts` makes that the sum of all entries, and
  `SumRenamed`, along the one-to-one relation of entries and booked sources, the
  sum of what the documents are worth. Desks that only open and change accounts
  are assumed because an entry recorded by hand stands for no document, and one
  removed by hand no longer stands for its own.
* `FaultsHarmless`, `SettlementImplementsBooks` (`Clerks`, `Creators`, `DesksManage`,
  `OneManager`): what was proved of Billing, Payroll and Treasury standing alone,
  failures of single requests included, holds in the composed process with crashes
  too. `OnceStep` and `BookStep` of Billing and Payroll and the lemmas on a manager's
  steps are used as they are; a crash adds that all slots become idle at once, where
  the views hold of nothing, and that no row changes.
* `NoPaymentForgotten` (`Clerks`, `DesksManage`): the safety half of `PaidIsPosted`, of
  which the other half is fairness. `Accounted(src)`: a settled source is booked,
  or a request is about to announce it (`Awaits`), or a handler has it (`InHand`), or
  it is in `lost`. A step that settles a source leaves its request at the announcement
  (`SettlingAwaits`); an announcement is taken by a handler in the same step
  (`EmitTakes`), since with one clerk the row it is about to read is there; a
  handler finds an account while one is active, and that one exists at its insert
  (`HandLands`); an entry stays (`EntriesStay`). The hypothesis that some account is
  active while the source is settled is needed: without it `autoPost` skips the
  post, and the payment is forgotten.
* `ReportsTellOneStory`, `WindowsAddUp` (no condition on requests): `ReportsAgree` and
  `WindowsAdd` are relations between reports on one state, so they follow from
  what makes a state readable (`Readable`): trips and logs hold figures, finitely
  many of them, and cost rows are typed. That is the invariant; it is kept
  because a request is begun with a figure and brings it to its write
  (`FigureAsked`). Each report is one row per key with the sum over the table rows
  of that key, so its total is the sum over all rows that have a key
  (`SumGrouped`). Then the two sides of an equation add up the same rows, or rows
  that differ by zeros: a trip without a helper has no helper's pay. A window cut
  at a day splits the rows (`SumUnion`); a key in only one half adds nothing in
  the other.
* `MoneyGate`: for each of the sets of roles, by cases on the routes. Where a route
  shows a field the gate does not know (`total`, `revenue`, `balance`, ...) its
  policy asks for an ability that operations roles do not have; where the policy
  lets them in, the gate knows every field.
* `NoMoneyForOperations`: `MoneyHidden` from `MoneyGate` (`Leaks` is empty): whatever set
  of roles is in a token, no route leaks to it.
* `AccessIsAuth`: a step of Access is a step of Auth or leaves its variables alone, so
  the theorems of `AuthProofs` hold behind the guard; `AccessTypeCorrect` and the rest of
  `AccessProofs` take the types of users and tokens from there (`SessionInvariant`).
* `RevokedWithinTtl` (`OneSession`): `PowersLapse`: a request is let in with claims its
  user held less than `Ttl + Flight` ticks ago. The invariant, `Lapses`, follows a set
  of roles through the statements: while a refresh is under way its user is logged
  in (`Gone`, of `LogoutIsFinal`), so what it reads is held at that moment; from then
  on what it has read lapsed no longer ago than the call is old, hence at most
  `Flight`; and while a token has time left, what it carries lapsed at most `Flight`
  and its age ago. `OneSession` is needed: with a refresh overtaken by a logout
  (`auth_logout_race`) the user can refresh for good, and no bound holds. A
  refresh signs what the tables say when it reads them; had it signed the claims
  it was shown, they would never lapse.
* `TrailIsTrue` (no condition): `TrailTells` from `TrailInv`: a request that is done
  holds the change it made, and the last change of a row is among `done`. An
  answer moves it from the slot to `writing`, a landing from there to `trail`, a
  fault to `lost`; nothing leaves the three.

`Sums` has what those proofs need to know of `SumFunctionOnSet`, which the community
modules define by a recursive function that takes off one element at a time, whichever
CHOOSE gives. That such a function exists for every finite set (`PartialExists`,
`SumDefined`) is induction over data, and the induction theorems of the library
take an operator, which no prover here can instantiate; so induction is stated of
sets instead (`NatSetInduction`, from the well-foundedness of the numbers;
`SubsetInduction`), and each use defines the set of those it holds of. `SumRemove`
is the law that any element may be taken off first, and the others follow from it: a sum
can be split, regrouped, renamed, restricted, added and negated.

Model-checked only: `PaidIsPosted`, which is liveness and rests on `Fairness`. That
fairness is what TLAPS cannot reason about here. The views named above are conjuncts of
the inductive invariants and are proved with them; no run lists them. No module
with a theorem uses a RECURSIVE operator.

The theorems rest on the assumptions of the modules (constants are sets of the
kinds the code has; `None` is none of them), which TLC evaluates in the runs, and,
where a name is given in parentheses above, on that condition on `Duties`: which
operations are assumed not to overlap. The violation runs show what happens where
they do.

## 5. Not modelled

* Infrastructure (connections, configuration, start-up): I/O without decisions.
* The seed and the one-shot spreadsheet import: scripts run by hand on an idle
  database. That they write rows past the services is `Imported` in Directory.
* Operations that only read and about which the repository promises nothing that
  several steps could break: lists, details, `billable`, `preview`, `summary`, the
  aging of receivables, `me`. The reports and balances are modelled.
* The opening balance of an account, the notes and the period columns of an
  invoice or a run after creation.
* Whether an explicit `rateId` belongs to the client of the trip: the code does not
  ask, so a property would have nothing to hold to (the step is in Pricing).
* DTO validation, wording and layout of responses, passwords and signatures.

The four hazards of `PROJECT.json` without a property have a note saying why.
