SPECIFICATION Spec
CONSTANTS
    s1 = s1
    s2 = s2
    t1 = t1
    t2 = t2
    w1 = w1
    w2 = w2
    Slots = {s1, s2}
    Duties <- CreatorAndClerk
    RunIds = {r1, r2, r3}
    Trips = {t1, t2}
    Workers = {w1, w2}
    Amounts = {1}
    Days = {1}
    DayOf <- SameDay
    Radix = 3
    SeqLimit = 2
    None = None
CONSTRAINT Scope
SYMMETRY Symmetry
INVARIANTS TypeOK PaidOnce StatementsAgree AnnouncedIsPaid
PROPERTIES ImplementsBook
