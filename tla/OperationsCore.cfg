SPECIFICATION ScopedSpec
CONSTANTS
    s1 = s1
    s2 = s2
    a = a
    b = b
    f1 = f1
    f2 = f2
    c1 = c1
    c2 = c2
    w1 = w1
    w2 = w2
    Slots = {s1, s2}
    Duties <- RecorderAndManager
    Logs = {l1, l2}
    Trips = {t1, t2, t3}
    TruckDays <- TwoDays
    Figures = {f1, f2}
    Trucks = {a, b}
    Dates = {1, 2}
    MaxRangeDays = 2
    Costs = {x1}
    Amounts = {1}
    TripOf <- TripFigures
    LogOf <- LogFigures
    None = None
SYMMETRY Symmetry
INVARIANTS TypeOK OneAnswer ConfirmedOnce SeqsOrderTrips ReportsAgree WindowsAdd
PROPERTIES TripLife
