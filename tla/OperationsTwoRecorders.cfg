SPECIFICATION Spec
CONSTANTS
    s1 = s1
    s2 = s2
    Slots = {s1, s2}
    Duties <- TwoRecorders
    Logs = {l1}
    Trips = {t1, t2}
    TruckDays = {k1}
    Figures = {f1}
    None = None
SYMMETRY Symmetry
INVARIANTS SeqsDistinct
