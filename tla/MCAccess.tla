------------------------------ MODULE MCAccess ------------------------------
(***************************************************************************)
(* A small instance of Access, and with it of Users and Auth, for TLC.     *)
(***************************************************************************)
EXTENDS Access, TLC

CONSTANTS s1, s2, c1, c2, h1, h2, base, base2

\* Both slots create users, one replaces roles.
OneAdmin == (s1 :> {"create", "setRoles"}) @@ (s2 :> {"create"})
\* One client logs in; the other refreshes and logs out.
OneTab == (c1 :> {"login"}) @@ (c2 :> {"refresh", "logout"})
\* One handler serves the workers, the other any table.
WorkersBeside == (h1 :> {"workers"}) @@ (h2 :> {"clients", "trucks", "workers"})

\* The second base reads as the first with its suffix 2: its names are 2 and,
\* with suffixes, 22, 23, ... ; those of the first are 1, 2, 3, ...
Spelling(b, n) == IF b = base THEN n ELSE IF n = 1 THEN 2 ELSE 20 + n

-----------------------------------------------------------------------------
\* The bound is one of five.
Manager == {"ops_manager"}
Investor == {"investor"}
OneUser == Cardinality(Created) <= 1 /\ req[s2] = Idle
Plain   == (\A s \in Slots : req[s].want \subseteq Manager /\ req[s].id = None)
           /\ \A u \in UserIds : given[u] \subseteq {Manager}
Pairs   == {j \in Jtis : Signed(j)}
AllActive == \A u \in UserIds : user[u].state # "disabled"
Untouched == done = {} /\ \A h \in Handlers : edit[h] = NoEdit
\* The clock stands while there is a token or a call.
Early ==
    /\ \A j \in Pairs : token[j].left = Ttl
    /\ \A c \in Clients : call[c].age = 0
    /\ \A u \in UserIds, R \in SUBSET RoleKeys : lapse[u][R] \in {0, Ttl + Flight}

\* The sessions of one user whose roles stay.
Sessions == OneUser /\ Plain /\ Early /\ Untouched

\* Its roles, replaced once, with one token.
Roles ==
    /\ OneUser /\ AllActive /\ Early /\ Untouched
    /\ Cardinality(Pairs) <= 1 /\ call[c2] = Quiet
    /\ \A u \in UserIds : Cardinality(given[u]) <= 2

\* Its powers, as the clock ticks: two tokens, made a manager, then given
\* another role or disabled.  What is let in is checked on the step that leaves
\* these states.
Powers ==
    /\ OneUser /\ Untouched
    /\ Cardinality(Pairs) <= 2
    /\ call[c1] = Quiet \/ call[c2] = Quiet
    /\ \A s \in Slots : req[s].base # base2 /\ req[s].want \in {{}, Manager, Investor}
    /\ \A u \in UserIds : user[u].base # base2
                          /\ given[u] \in {{}, {Manager}, {Manager, Investor}}
    /\ AllActive \/ \A u \in UserIds : given[u] \subseteq {Manager}

\* The names of several users, all managers, without sessions.
Names ==
    /\ Plain /\ AllActive /\ Pairs = {} /\ Untouched
    /\ \A c \in Clients : call[c] = Quiet

\* The changes a user makes in one session, as they are made and recorded.
Changes ==
    /\ OneUser /\ Plain /\ AllActive /\ Early
    /\ \A s \in Slots : req[s] = Idle
    /\ Cardinality(Pairs) <= 1 /\ on = Created
    /\ \A c \in Clients : call[c] = Quiet
    /\ \A j \in Pairs : key[token[j].user] = j

Scope == Sessions \/ Roles \/ Powers \/ Names \/ Changes

Symmetry == Permutations(UserIds) \cup Permutations(Jtis)
=============================================================================
