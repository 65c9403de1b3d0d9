SPECIFICATION AuthSpec
CONSTANTS
    s1 = s1
    s2 = s2
    c1 = c1
    c2 = c2
    Slots = {s1, s2}
    Duties <- TwoSetters
    UserIds = {u1}
    RoleKeys = {admin, driver}
    Bases = {base}
    Text <- Spelling
    Attempts = 5
    None = None
    Clients = {c1, c2}
    Calls <- TwoTabs
    Jtis = {j1}
    Ttl = 1
    Flight = 1
INVARIANTS RolesAsAsked
