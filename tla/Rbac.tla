-------------------------------- MODULE Rbac --------------------------------
(***************************************************************************)
(* Who may call what, and which money an answer shows (src/src/rbac): the  *)
(* abilities of a set of roles, the routes of every controller with the    *)
(* abilities they require and the money fields of their answers, the guard *)
(* and the financial gate.  Nothing here has state; the roles are those    *)
(* the access token carries.                                               *)
(***************************************************************************)

RoleKey == {"admin", "finance", "ops_manager", "ops_staff", "driver", "investor"}
OpsRoles == {"ops_manager", "ops_staff", "driver"}
FinancialRoles == {"admin", "finance", "investor"}

-----------------------------------------------------------------------------
\* Abilities.  A rule is a pair of a verb and a subject; "manage" is any verb
\* and "all" any subject, but only a rule for "manage" allows to manage.

Grants == [
    admin |-> {"manage"} \X {"all"},
    finance |-> ({"read"} \X {"all", "Financial"})
          \cup ({"manage"} \X {"Rate", "RateCard", "Report", "Financial", "Trip",
                               "Invoice", "Payroll", "Cost", "Treasury"}),
    investor |-> {"read"} \X {"Report", "Invoice", "Payroll", "Cost", "Treasury",
                              "Financial"},
    ops_manager |-> {"manage"} \X {"Worker", "Truck", "Client", "Trip", "DailyTruckLog"},
    ops_staff |-> ({"read"} \X {"Worker", "Truck", "Client", "Trip", "DailyTruckLog"})
            \cup ({"create", "update"} \X {"Trip", "DailyTruckLog"}),
    driver |-> {"read"} \X {"Trip", "DailyTruckLog", "Truck"}]

\* Roles of operations alone see neither money nor reports.
Denied(R) ==
    IF R \cap OpsRoles # {} /\ R \cap FinancialRoles = {}
    THEN {"read"} \X {"Financial", "Report"} ELSE {}

Covers(rule, verb, subject) ==
    rule[1] \in {verb, "manage"} /\ rule[2] \in {subject, "all"}

\* The last rule that matches decides; the denials come last.
Can(R, verb, subject) ==
    /\ \E role \in R : \E rule \in Grants[role] : Covers(rule, verb, subject)
    /\ \A rule \in Denied(R) : ~Covers(rule, verb, subject)

-----------------------------------------------------------------------------
\* Routes.  `policy` is what RequireAbility asks, `money` the money fields the
\* answer holds at any depth.

Guarded(methods, paths, verb, subject, money) ==
    [method : methods, path : paths, policy : {{<<verb, subject>>}}, money : {money}]

\* Create, read, change and deactivate the rows of a table.
Master(base, subject, money) ==
         Guarded({"POST"}, {<<base>>}, "create", subject, money)
    \cup Guarded({"GET"}, {<<base>>, <<base, ":id">>}, "read", subject, money)
    \cup Guarded({"PATCH"}, {<<base, ":id">>, <<base, ":id", "deactivate">>},
                 "update", subject, money)

ClientRoutes == Master("clients", "Client", {})
TruckRoutes  == Master("trucks", "Truck", {"purchasePrice"})
WorkerRoutes == Master("workers", "Worker", {})

TripMoney == {"billAmount", "driverPay", "helperPay"}
LogMoney  == {"fuelCost"} \cup TripMoney     \* with the totals

OperationsRoutes ==
         Guarded({"GET"}, {<<"operations", "summary">>}, "read", "Trip", {})
    \cup Guarded({"GET"}, {<<"daily-logs">>, <<"daily-logs", ":id">>}, "read", "Trip", LogMoney)
    \cup Guarded({"POST"}, {<<"daily-logs">>}, "create", "Trip", LogMoney)
    \cup Guarded({"PATCH"}, {<<"daily-logs", ":id">>, <<"daily-logs", ":id", "confirm">>},
                 "update", "Trip", LogMoney)
    \cup Guarded({"POST"}, {<<"daily-logs", ":id", "trips">>}, "create", "Trip", TripMoney)
    \cup Guarded({"PATCH"}, {<<"trips", ":id">>}, "update", "Trip", TripMoney)
    \cup Guarded({"DELETE"}, {<<"trips", ":id">>}, "delete", "Trip", {})

RateMoney == {"clientPrice", "driverPay", "helperPay"}

PricingRoutes ==
         Guarded({"POST"}, {<<"clients", ":clientId", "rate-cards">>}, "manage", "RateCard", {})
    \cup Guarded({"GET"}, {<<"clients", ":clientId", "rate-cards">>, <<"rate-cards", ":cardId">>},
                 "read", "RateCard", {})
    \cup Guarded({"PATCH"}, {<<"rate-cards", ":cardId">>, <<"rate-cards", ":cardId", "deactivate">>},
                 "manage", "RateCard", {})
    \cup Guarded({"POST"}, {<<"rate-cards", ":cardId", "rates">>}, "manage", "Rate", RateMoney)
    \cup Guarded({"GET"}, {<<"rate-cards", ":cardId", "rates">>}, "read", "Rate", RateMoney)
    \cup Guarded({"GET"}, {<<"rates", "lookup">>}, "read", "Trip", RateMoney)
    \cup Guarded({"PATCH"}, {<<"rates", ":rateId">>, <<"rates", ":rateId", "close">>},
                 "manage", "Rate", RateMoney)

ReportRoutes ==
         Guarded({"GET"}, {<<"reports", "trips">>, <<"reports", "utilization">>,
                           <<"reports", "operational">>}, "read", "Report", {})
    \cup Guarded({"GET"}, {<<"reports", "truck-pnl">>}, "read", "Report",
                 {"revenue", "fuel", "driverPay", "helperPay", "costs", "profit"})
    \cup Guarded({"GET"}, {<<"reports", "worker-pay">>}, "read", "Report",
                 {"driverPay", "helperPay", "totalPay"})
    \cup Guarded({"GET"}, {<<"reports", "client-billables">>}, "read", "Report", {"billAmount"})

InvoiceMoney == {"total", "amountPaid", "billAmount"}

InvoiceRoutes ==
         Guarded({"GET"}, {<<"invoices", "billable">>}, "read", "Invoice", {"billAmount", "total"})
    \cup Guarded({"GET"}, {<<"invoices", "aging">>}, "read", "Invoice",
                 {"current", "d30", "d60", "d90", "total", "grandTotal"})
    \cup Guarded({"GET"}, {<<"invoices">>}, "read", "Invoice", {"total", "amountPaid"})
    \cup Guarded({"GET"}, {<<"invoices", ":id">>}, "read", "Invoice", InvoiceMoney)
    \cup Guarded({"POST"}, {<<"invoices">>}, "create", "Invoice", InvoiceMoney)
    \cup Guarded({"PATCH"}, {<<"invoices", ":id">>}, "update", "Invoice", InvoiceMoney)
    \cup Guarded({"DELETE"}, {<<"invoices", ":id">>}, "delete", "Invoice", {})

RunMoney == {"total", "driverPay", "helperPay", "totalPay"}

PayrollRoutes ==
         Guarded({"GET"}, {<<"payroll">>}, "read", "Payroll", {"total"})
    \cup Guarded({"GET"}, {<<"payroll", "preview">>, <<"payroll", ":id">>},
                 "read", "Payroll", RunMoney)
    \cup Guarded({"POST"}, {<<"payroll">>}, "create", "Payroll", RunMoney)
    \cup Guarded({"PATCH"}, {<<"payroll", ":id">>}, "update", "Payroll", RunMoney)
    \cup Guarded({"DELETE"}, {<<"payroll", ":id">>}, "delete", "Payroll", {})

CostRoutes ==
         Guarded({"GET"}, {<<"truck-costs">>}, "read", "Cost", {"amount"})
    \cup Guarded({"POST"}, {<<"truck-costs">>}, "create", "Cost", {"amount"})
    \cup Guarded({"DELETE"}, {<<"truck-costs", ":id">>}, "delete", "Cost", {})

AccountMoney == {"openingBalance", "balance"}

TreasuryRoutes ==
         Guarded({"GET"}, {<<"treasury", "accounts">>}, "read", "Treasury", AccountMoney)
    \cup Guarded({"POST"}, {<<"treasury", "accounts">>}, "create", "Treasury", AccountMoney)
    \cup Guarded({"PATCH"}, {<<"treasury", "accounts", ":id">>}, "update", "Treasury", AccountMoney)
    \cup Guarded({"DELETE"}, {<<"treasury", "accounts", ":id">>, <<"treasury", "transactions", ":id">>},
                 "delete", "Treasury", {})
    \cup Guarded({"GET"}, {<<"treasury", "cash-position">>}, "read", "Treasury", {"balance", "total"})
    \cup Guarded({"GET"}, {<<"treasury", "transactions">>}, "read", "Treasury", {"amount"})
    \cup Guarded({"POST"}, {<<"treasury", "transactions">>}, "create", "Treasury", {"amount"})

UserRoutes ==
         Guarded({"GET", "POST"}, {<<"users">>}, "manage", "User", {})
    \cup Guarded({"PATCH"}, {<<"users", ":id", "roles">>}, "manage", "User", {})
RoleRoutes == Guarded({"GET"}, {<<"roles">>}, "manage", "Role", {})

\* No ability is asked of a session's own calls.
AuthRoutes ==
    [method : {"POST"}, path : {"auth"} \X {"login", "refresh", "logout"},
     policy : {{}}, money : {{}}]
    \cup [method : {"GET"}, path : {<<"auth", "me">>}, policy : {{}}, money : {{}}]

MasterRoutes == ClientRoutes \cup TruckRoutes \cup WorkerRoutes
Routes == UNION {MasterRoutes, OperationsRoutes, PricingRoutes, ReportRoutes,
                 InvoiceRoutes, PayrollRoutes, CostRoutes, TreasuryRoutes,
                 UserRoutes, RoleRoutes, AuthRoutes}

-----------------------------------------------------------------------------
\* PoliciesGuard: every ability the route asks for.
Passes(R, route) == \A p \in route.policy : Can(R, p[1], p[2])

\* What the financial gate takes out of an answer, at every depth.
FINANCIAL_FIELDS == {"billAmount", "driverPay", "helperPay", "clientPrice",
                     "purchasePrice", "fuelCost", "totalPay"}

\* Mutant of Shown: the gate only covers what a trip holds.
ShownButTrips(R, route) ==
    IF Can(R, "read", "Financial") THEN route.money ELSE route.money \ TripMoney

\* FinancialFieldsInterceptor: the money fields that reach the caller.
Shown(R, route) ==
    IF Can(R, "read", "Financial") THEN route.money ELSE route.money \ FINANCIAL_FIELDS

\* "Operations roles never receive money fields": who has no financial role is
\* shown no money by any route the guard lets through, be it that the guard of
\* the route or the gate on the answer hides it; who has one is shown it all.
\* What is shown otherwise, and to which roles, is a leak.
Leaks == UNION {{<<R, route>> : route \in {r \in Routes : Passes(R, r) /\
    Shown(R, r) # IF R \cap FinancialRoles = {} THEN {} ELSE r.money}} : R \in SUBSET RoleKey}
=============================================================================
