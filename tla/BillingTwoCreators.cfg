SPECIFICATION Spec
CONSTANTS
    s1 = s1
    s2 = s2
    t1 = t1
    t2 = t2
    Slots = {s1, s2}
    Duties <- TwoCreators
    InvoiceIds = {i1, i2}
    Trips = {t1, t2}
    Clients = {c1}
    Amounts = {1}
    Days = {1}
    DayOf <- SameDay
    Radix = 10
    SeqLimit = 9
    None = None
SYMMETRY InvoiceSymmetry
INVARIANTS BilledOnce
