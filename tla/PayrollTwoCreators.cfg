SPECIFICATION Spec
CONSTANTS
    s1 = s1
    s2 = s2
    t1 = t1
    t2 = t2
    Slots = {s1, s2}
    Duties <- TwoCreators
    RunIds = {r1, r2}
    Trips = {t1}
    Workers = {w1}
    Amounts = {1}
    Days = {1}
    DayOf <- OneTrip
    Radix = 10
    SeqLimit = 9
    None = None
SYMMETRY Symmetry
INVARIANTS PaidOnce

