SPECIFICATION ScopedSpec
CONSTANTS
    s1 = s1
    s2 = s2
    q1 = q1
    d1 = d1
    t1 = t1
    Trips = {t1}
    Clients = {c1}
    Workers = {w1}
    Days = {1}
    DayOf <- OneDay
    Radix = 10
    SeqLimit = 9
    Billers = {s1}
    BillDuties <- Alone
    InvoiceIds = {i1}
    Bills = {4}
    Payers = {q1}
    PayDuties <- Payer
    RunIds = {r1}
    Pays = {1}
    Spenders = {x1}
    CostIds = {k1}
    Spends = {8}
    Slots = {d1}
    Duties <- Manager
    Posters = {p1, p2}
    AccountIds = {a1}
    EntryIds = {1, 2, 3}
    Sources = {i1, r1, k1}
    Flows = {}
    MaxRequests = 1
    Faults = {"fail", "crash"}
    None = None
INVARIANTS BooksAgree
PROPERTIES PaidIsPosted
