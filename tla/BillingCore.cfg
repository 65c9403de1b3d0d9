SPECIFICATION Spec
CONSTANTS
    s1 = s1
    s2 = s2
    t1 = t1
    t2 = t2
    Slots = {s1, s2}
    Duties <- CreatorAndClerk
    InvoiceIds = {i1, i2, i3}
    Trips = {t1, t2}
    Clients = {c1}
    Amounts = {1, 2}
    Days = {1, 2}
    DayOf <- TwoDays
    Radix = 3
    SeqLimit = 2
    None = None
CONSTRAINT Scope
SYMMETRY InvoiceSymmetry
INVARIANTS TypeOK BilledOnce PaidMatchesLines AnnouncedIsPaid CollidesOnlyAtLimit
PROPERTIES ImplementsBook
