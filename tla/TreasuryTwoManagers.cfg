SPECIFICATION Spec
CONSTANTS
    s1 = s1
    s2 = s2
    Slots = {s1, s2}
    Duties <- TwoManagers
    Posters = {}
    AccountIds = {a1, a2}
    EntryIds = {e1}
    Sources = {invoice1}
    Flows = {1}
    None = None
INVARIANTS SingleDefault
