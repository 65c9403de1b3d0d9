SPECIFICATION AccessSpec
CONSTANTS
    s1 = s1
    s2 = s2
    c1 = c1
    c2 = c2
    h1 = h1
    h2 = h2
    base = base
    base2 = base2
    Slots = {s1, s2}
    Duties <- OneAdmin
    UserIds = {u1, u2, u3}
    RoleKeys = {"ops_manager", "investor"}
    Bases = {base, base2}
    Text <- Spelling
    Attempts = 3
    None = None
    Clients = {c1, c2}
    Calls <- OneTab
    Jtis = {j1, j2, j3}
    Ttl = 1
    Flight = 1
    Handlers = {h1, h2}
    Serving <- WorkersBeside
    ClientIds = {k1}
    TruckIds = {r1}
    WorkerIds = {w1, w2}
    Imported = {w1, k1}
    Codes = {x1}
    MaxChanges = 2
CONSTRAINT Scope
SYMMETRY Symmetry
INVARIANTS SessionsOK NamesFilled LostToOthers RolesAsAsked ExchangedOnce LogoutEnds ClaimsWhole AccessOK MoneyHidden TrailTells
PROPERTIES PowersLapse
