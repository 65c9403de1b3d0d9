SPECIFICATION Spec
CONSTANTS
    s1 = s1
    s2 = s2
    k1 = k1
    m1 = m1
    m2 = m2
    Slots = {s1, s2}
    Duties <- CloserAndRecorder
    Cards = {k1}
    Rates = {r1, r2}
    Trips = {t1}
    Clients = {m1, m2}
    Labels = {l1}
    ClientOf <- OneCard
    Prices <- OnePrice
    Overrides <- NothingOrFree
    MaxTime = 1
    None = None
SYMMETRY Symmetry
CONSTRAINT Scope
INVARIANTS TypeOK OwnCard InItsTime Supersedes MoneyAsAsked
