SPECIFICATION SettlementSpec
CONSTANTS
    s1 = s1
    s2 = s2
    q1 = q1
    d1 = d1
    t1 = t1
    Trips = {t1}
    Clients = {c1}
    Workers = {w1}
    Days = {1}
    DayOf <- OneDay
    Radix = 10
    SeqLimit = 9
    Billers = {s1, s2}
    BillDuties <- TwoUpdaters
    InvoiceIds = {i1}
    Bills = {4}
    Payers = {q1}
    PayDuties <- Payer
    RunIds = {}
    Pays = {1}
    Spenders = {}
    CostIds = {}
    Spends = {8}
    Slots = {d1}
    Duties <- Opener
    Posters = {p1, p2}
    AccountIds = {a1}
    EntryIds = {1, 2}
    Sources = {i1}
    Flows = {}
    MaxRequests = 2
    Faults = {"fail"}
    None = None
INVARIANTS PostedOnce
