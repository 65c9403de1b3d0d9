SPECIFICATION Spec
CONSTANTS
    s1 = s1
    s2 = s2
    Slots = {s1, s2}
    Duties <- RemoverAndRecorder
    Posters = {}
    AccountIds = {a1}
    EntryIds = {e1}
    Sources = {invoice1}
    Flows = {1}
    None = None
PROPERTIES LedgerKept
