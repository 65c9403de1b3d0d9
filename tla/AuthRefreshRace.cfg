SPECIFICATION AuthSpec
CONSTANTS
    s1 = s1
    s2 = s2
    c1 = c1
    c2 = c2
    Slots = {s1}
    Duties <- OneCreator
    UserIds = {u1}
    RoleKeys = {admin}
    Bases = {base}
    Text <- Spelling
    Attempts = 5
    None = None
    Clients = {c1, c2}
    Calls <- TwoRefreshers
    Jtis = {j1, j2, j3}
    Ttl = 1
    Flight = 1
INVARIANTS ExchangedOnce
