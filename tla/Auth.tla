-------------------------------- MODULE Auth --------------------------------
(***************************************************************************)
(* Sessions (auth.service.ts) beside the users module, whose tables they   *)
(* read.  Redis holds one key per user, the jti of the one refresh token   *)
(* that is good; login and refresh overwrite it, logout deletes it.  The   *)
(* commands to Redis, the reads of the database and the writes are steps   *)
(* of their own.  A client is one HTTP request in flight, Calls[c] the     *)
(* kinds it makes.  Beside the refresh token an access token is signed,    *)
(* good for Ttl ticks of the clock whatever happens to its user.           *)
(***************************************************************************)
EXTENDS Users

CONSTANTS Clients, Calls, Jtis,
          Ttl,      \* of an access token, in ticks
          Flight    \* bound on the ticks a login or a refresh is under way

ASSUME CallsAssumption == Calls \in [Clients -> SUBSET {"login", "refresh", "logout"}]
ASSUME JtisAssumption == None \notin Jtis
ASSUME ClockAssumption == Ttl \in Nat \ {0} /\ Flight \in Nat

VARIABLES key,     \* Redis: refresh:<userId>
          token,   \* the pairs of tokens signed, by jti: whose, with which
                   \* roles, and for how long the access token is good
          call,    \* the request of each client
          uses,    \* how often a refresh token has been exchanged (history)
          on,      \* users who logged in and did not log out since (history)
          lapse    \* for how long a user has not held a set of roles (history)

sessionVars == <<key, token, call, uses, on>>
vars == <<userVars, sessionVars, lapse>>

-----------------------------------------------------------------------------
Token == [user : UserIds \cup {None}, roles : SUBSET RoleKeys, left : 0..Ttl]
NoToken == [user |-> None, roles |-> {}, left |-> 0]
Signed(j) == token[j].user # None
Valid(j)  == token[j].left > 0

\* `age` is for how long the call has been under way.
Call == [pc : {"idle", "user", "store"}, user : UserIds \cup {None},
         roles : SUBSET RoleKeys, from : Jtis \cup {None}, age : 0..Flight]
Quiet == [pc |-> "idle", user |-> None, roles |-> {}, from |-> None, age |-> 0]

Makes(c, kind) == kind \in Calls[c] /\ call[c].pc = "idle"
Answer(c) == call' = [call EXCEPT ![c] = Quiet]

AuthInit ==
    /\ Init
    /\ key = [u \in UserIds |-> None]
    /\ token = [j \in Jtis |-> NoToken]
    /\ call = [c \in Clients |-> Quiet]
    /\ uses = [j \in Jtis |-> 0]
    /\ on = {}
    /\ lapse = [u \in UserIds |-> [R \in SUBSET RoleKeys |-> Ttl + Flight]]

-----------------------------------------------------------------------------
\* POST /auth/login, with a right password: validateUser, then the token.
Login(c, u) ==
    /\ Makes(c, "login")
    /\ user[u].state = "active"
    /\ call' = [call EXCEPT ![c] = [Quiet EXCEPT !.pc = "store", !.user = u,
                                                  !.roles = roles[u]]]
    /\ UNCHANGED <<userVars, key, token, uses, on>>

\* Mutant of Refresh: any token that was signed will do while there is a key.
RefreshAny(c, j) ==
    /\ Makes(c, "refresh")
    /\ Signed(j)
    /\ key[token[j].user] # None
    /\ call' = [call EXCEPT ![c] = [Quiet EXCEPT !.pc = "user", !.from = j,
                                                 !.user = token[j].user]]
    /\ UNCHANGED <<userVars, key, token, uses, on>>

\* POST /auth/refresh: the jti is compared with the key ...
Refresh(c, j) ==
    /\ Makes(c, "refresh")
    /\ Signed(j)
    /\ key[token[j].user] = j
    /\ call' = [call EXCEPT ![c] = [Quiet EXCEPT !.pc = "user", !.from = j,
                                                 !.user = token[j].user]]
    /\ UNCHANGED <<userVars, key, token, uses, on>>

\* Mutant of ReadUser: the claims of the old token are signed again.
CopyClaims(c) == LET u == call[c].user IN
    /\ call[c].pc = "user"
    /\ IF user[u].state = "active"
       THEN call' = [call EXCEPT ![c].pc = "store",
                                 ![c].roles = token[call[c].from].roles]
       ELSE Answer(c)
    /\ UNCHANGED <<userVars, key, token, uses, on>>

\* ... the user is read again ...
ReadUser(c) == LET u == call[c].user IN
    /\ call[c].pc = "user"
    /\ IF user[u].state = "active"
       THEN call' = [call EXCEPT ![c].pc = "store", ![c].roles = roles[u]]
       ELSE Answer(c)                              \* 401
    /\ UNCHANGED <<userVars, key, token, uses, on>>

\* ... and, as after a login, issueTokens signs and overwrites the key.
StoreToken(c, j) == LET r == call[c] IN
    /\ r.pc = "store"
    /\ ~Signed(j)
    /\ token' = [token EXCEPT ![j] = [user |-> r.user, roles |-> r.roles,
                                        left |-> Ttl]]
    /\ key' = [key EXCEPT ![r.user] = j]
    /\ uses' = [i \in Jtis |-> IF i = r.from THEN uses[i] + 1 ELSE uses[i]]
    /\ on' = IF r.from = None THEN on \cup {r.user} ELSE on
    /\ Answer(c)
    /\ UNCHANGED userVars

\* Mutant of Logout: the cookie is cleared, the key is left to expire.
LogoutCookie(c, u) ==
    /\ Makes(c, "logout")
    /\ \E j \in Jtis : token[j].user = u /\ Valid(j)
    /\ on' = on \ {u}
    /\ UNCHANGED <<userVars, key, token, call, uses>>

\* POST /auth/logout, by a user who holds an access token that is good.
Logout(c, u) ==
    /\ Makes(c, "logout")
    /\ \E j \in Jtis : token[j].user = u /\ Valid(j)
    /\ key' = [key EXCEPT ![u] = None]
    /\ on' = on \ {u}
    /\ UNCHANGED <<userVars, token, call, uses>>

\* The key has the lifetime of the token it names.
Expire(u) ==
    /\ key[u] # None
    /\ key' = [key EXCEPT ![u] = None]
    /\ UNCHANGED <<userVars, token, call, uses, on>>

\* Redis or the database does not answer ...
FailCall(c) ==
    /\ call[c].pc # "idle"
    /\ Answer(c)
    /\ UNCHANGED <<userVars, key, token, uses, on>>

\* ... or the process dies with all that is under way.
Crash ==
    /\ Restart
    /\ call' = [c \in Clients |-> Quiet]
    /\ UNCHANGED <<key, token, uses, on>>

-----------------------------------------------------------------------------
\* The clock.  A user holds the roles it has while it is active and logged in,
\* or logging in; what is taken away, or logged out of, begins to lapse.

Holds(u, R) ==
    /\ user[u].state = "active" /\ roles[u] = R
    /\ u \in on \/ \E c \in Clients : call[c].user = u /\ call[c].from = None

Less(n)   == IF n = 0 THEN 0 ELSE n - 1
Longer(n) == IF n = Ttl + Flight THEN n ELSE n + 1

Lapsing(n) == lapse' = [u \in UserIds |-> [R \in SUBSET RoleKeys |->
                 IF Holds(u, R)' THEN 0 ELSE n[u][R]]]

\* A call is over within Flight ticks.
Tick ==
    /\ \A c \in Clients : call[c].pc # "idle" => call[c].age < Flight
    /\ call' = [c \in Clients |->
          IF call[c].pc = "idle" THEN call[c] ELSE [call[c] EXCEPT !.age = @ + 1]]
    /\ token' = [j \in Jtis |-> [token[j] EXCEPT !.left = Less(@)]]
    /\ UNCHANGED <<userVars, key, uses, on>>
    /\ Lapsing([u \in UserIds |-> [R \in SUBSET RoleKeys |-> Longer(lapse[u][R])]])

-----------------------------------------------------------------------------
ClientStep(c) ==
    \/ \E u \in UserIds : Login(c, u) \/ Logout(c, u)
    \/ \E j \in Jtis : Refresh(c, j) \/ StoreToken(c, j)
    \/ ReadUser(c)
    \/ FailCall(c)

SessionNext ==
    \/ UserNext /\ UNCHANGED sessionVars
    \/ \E c \in Clients : ClientStep(c)
    \/ \E u \in UserIds : Expire(u)

AuthNext ==
    \/ (SessionNext \/ Crash) /\ Lapsing(lapse)
    \/ Tick

AuthSpec == AuthInit /\ [][AuthNext]_vars

-----------------------------------------------------------------------------
\* Which calls may be concurrent: the conditions the results below need.

OneCaller(kinds) == \A c, d \in Clients :
    c # d => Calls[c] \cap kinds = {} \/ Calls[d] \cap kinds = {}

OneRefresher == OneCaller({"refresh"})
OneSession   == OneCaller({"refresh", "logout"})

-----------------------------------------------------------------------------
\* Every variable holds a value of its type.
SessionsOK ==
    /\ TypeOK
    /\ key \in [UserIds -> Jtis \cup {None}]
    /\ token \in [Jtis -> Token]
    /\ call \in [Clients -> Call]
    /\ uses \in [Jtis -> Nat]
    /\ on \subseteq UserIds
    /\ lapse \in [UserIds -> [SUBSET RoleKeys -> 0..(Ttl + Flight)]]

\* With one refresh at a time a refresh token is exchanged at most once,
\* whatever logins, logouts and expiries overtake the exchange.
ExchangedOnce == \A j \in Jtis : uses[j] <= 1

\* "After logout the user simply cannot obtain a new access token (refresh is
\* dead)": with refreshes and logouts one at a time, a user who logged out has
\* no key until the next login, though logins overlap both.
LogoutEnds == \A u \in UserIds \ on : key[u] = None

\* A token carries a set of roles its user was given as a whole: a login or a
\* refresh during a replacement of roles sees those of before or of after it.
ClaimsWhole == \A j \in Jtis :
    Signed(j) => token[j].roles \in given[token[j].user]
=============================================================================
