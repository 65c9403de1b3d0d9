SPECIFICATION Spec
CONSTANTS
    s1 = s1
    s2 = s2
    Slots = {s1, s2}
    Duties <- ManagerAndBookkeeper
    Posters = {p1}
    AccountIds = {a1, a2}
    EntryIds = {e1, e2}
    Sources = {invoice1}
    Flows = {1}
    None = None
SYMMETRY Symmetry
INVARIANTS TypeOK SingleDefault PostedOnce
PROPERTIES LedgerKept
