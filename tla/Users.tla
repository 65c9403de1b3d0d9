------------------------------- MODULE Users -------------------------------
(***************************************************************************)
(* The users module (users.service.ts): creation with a generated          *)
(* username, retried when another creation takes the name first, and the   *)
(* replacement of a user's roles, a transaction at READ COMMITTED.  A slot *)
(* is one HTTP request in flight, Duties[s] the kinds it serves.           *)
(***************************************************************************)
EXTENDS Integers, FiniteSets, FiniteSetsExt

CONSTANTS Slots, Duties, UserIds,
          RoleKeys,      \* the roles that are given to users
          Bases,         \* the names baseUsername makes of full names
          Text(_, _),    \* a base and a suffix as written; suffix 1 is not written
          Attempts,      \* 5 in the code
          None           \* not a value of any other set

ASSUME DutiesAssumption == Duties \in [Slots -> SUBSET {"create", "setRoles"}]
ASSUME UserIdsAssumption == IsFiniteSet(UserIds)
ASSUME AttemptsAssumption == Attempts \in Nat \ {0}
ASSUME NoneAssumption == None \notin UserIds \cup Bases

Suffixes == 1..(Cardinality(UserIds) + 1)

\* A base gives a different name with each suffix.  Two bases may give the
\* same one: a base that ends in a digit may be another with its suffix.
ASSUME TextAssumption == \A b \in Bases : \A m, n \in Suffixes :
    Text(b, m) = Text(b, n) => m = n

VARIABLES user,    \* table User
          roles,   \* table UserRole: the role keys of each user
          req,     \* the request each slot serves
          asked,   \* the roles each user was last given (history)
          given    \* all sets of roles each user was given (history)

userVars == <<user, roles, req, asked, given>>

-----------------------------------------------------------------------------
Row == [state : {"absent", "active", "disabled"},
        base : Bases \cup {None}, suffix : Suffixes \cup {0}]

NoRow == [state |-> "absent", base |-> None, suffix |-> 0]

Exists(u) == user[u].state # "absent"
Created   == {u \in UserIds : Exists(u)}
Username(u) == Text(user[u].base, user[u].suffix)
Usernames == {Username(u) : u \in Created}

\* `since` and `seen` count the users at the first and at the last look.
Request == [pc : {"idle", "name", "insert", "delete", "put"},
            base : Bases \cup {None}, suffix : Suffixes \cup {0},
            attempt : 0..(Attempts - 1), since : Nat, seen : Nat,
            id : UserIds \cup {None},
            want : SUBSET RoleKeys, gone : SUBSET RoleKeys]

Idle == [pc |-> "idle", base |-> None, suffix |-> 0, attempt |-> 0,
         since |-> 0, seen |-> 0, id |-> None, want |-> {}, gone |-> {}]

\* What a request may ask for: at least one role (ArrayNotEmpty).
RoleSets == (SUBSET RoleKeys) \ {{}}

Serves(s, duty) == duty \in Duties[s] /\ req[s].pc = "idle"
Return(s) == req' = [req EXCEPT ![s] = Idle]

Init ==
    /\ user = [u \in UserIds |-> NoRow]
    /\ roles = [u \in UserIds |-> {}]
    /\ req = [s \in Slots |-> Idle]
    /\ asked = [u \in UserIds |-> {}]
    /\ given = [u \in UserIds |-> {}]

-----------------------------------------------------------------------------
\* POST /users: the names in use, the insert, and again when the name is gone.

StartCreate(s, b, R) ==
    /\ Serves(s, "create")
    /\ req' = [req EXCEPT ![s] = [Idle EXCEPT !.pc = "name", !.base = b, !.want = R,
                                              !.since = Cardinality(Created)]]
    /\ UNCHANGED <<user, roles, asked, given>>

\* Mutant of firstFreeUsername: one above the greatest suffix in use.
lastUsername(b, taken) == Max({0} \cup {n \in Suffixes : Text(b, n) \in taken}) + 1

\* The bare base, or the least suffix from 2 on that is free.
firstFreeUsername(b, taken) == Min({n \in Suffixes : Text(b, n) \notin taken})

\* (The query is for names that start with the base: no candidate is missed.)
ReadNames(s) ==
    /\ req[s].pc = "name"
    /\ req' = [req EXCEPT ![s].pc = "insert",
                          ![s].suffix = firstFreeUsername(req[s].base, Usernames),
                          ![s].seen = Cardinality(Created)]
    /\ UNCHANGED <<user, roles, asked, given>>

Give(s, u) ==
    /\ asked' = [asked EXCEPT ![u] = req[s].want]
    /\ given' = [given EXCEPT ![u] = @ \cup {req[s].want}]

Name(s) == Text(req[s].base, req[s].suffix)

InsertUser(s, u) ==
    /\ req[s].pc = "insert"
    /\ ~Exists(u)
    /\ Name(s) \notin Usernames
    /\ user' = [user EXCEPT ![u] =
          [state |-> "active", base |-> req[s].base, suffix |-> req[s].suffix]]
    /\ roles' = [roles EXCEPT ![u] = req[s].want]
    /\ Give(s, u)
    /\ Return(s)

\* Mutant of NameTaken: the same name is tried again.
TrySame(s) ==
    /\ req[s].pc = "insert"
    /\ Name(s) \in Usernames
    /\ IF req[s].attempt < Attempts - 1
       THEN req' = [req EXCEPT ![s].attempt = @ + 1]
       ELSE Return(s)
    /\ UNCHANGED <<user, roles, asked, given>>

\* Mutant of NameTaken: one attempt too many.
RetryLate(s) ==
    /\ req[s].pc = "insert"
    /\ Name(s) \in Usernames
    /\ IF req[s].attempt < Attempts
       THEN req' = [req EXCEPT ![s].pc = "name", ![s].attempt = @ + 1]
       ELSE Return(s)
    /\ UNCHANGED <<user, roles, asked, given>>

NameTaken(s) ==                                    \* P2002
    /\ req[s].pc = "insert"
    /\ Name(s) \in Usernames
    /\ IF req[s].attempt < Attempts - 1
       THEN req' = [req EXCEPT ![s].pc = "name", ![s].attempt = @ + 1]
       ELSE Return(s)
    /\ UNCHANGED <<user, roles, asked, given>>

-----------------------------------------------------------------------------
\* setRoles.  Users and role keys are never deleted, so what it looks up first
\* cannot go stale and the first step is the start of the transaction's delete:
\* `gone` is the rows it sees.  It waits until no other transaction locks them.

Locked(u) == UNION {req[s].gone : s \in {t \in Slots : req[t].pc = "put" /\ req[t].id = u}}

StartSetRoles(s, u, R) ==
    /\ Serves(s, "setRoles")
    /\ Exists(u)
    /\ req' = [req EXCEPT ![s] = [Idle EXCEPT !.pc = "delete", !.id = u, !.want = R,
                                              !.gone = roles[u]]]
    /\ UNCHANGED <<user, roles, asked, given>>

\* Mutant of DeleteRoles: outside a transaction, the delete commits by itself.
DeleteNow(s) ==
    /\ req[s].pc = "delete"
    /\ roles' = [roles EXCEPT ![req[s].id] = @ \ req[s].gone]
    /\ req' = [req EXCEPT ![s].pc = "put"]
    /\ UNCHANGED <<user, asked, given>>

DeleteRoles(s) ==
    /\ req[s].pc = "delete"
    /\ req[s].gone \cap Locked(req[s].id) = {}
    /\ req' = [req EXCEPT ![s].pc = "put"]
    /\ UNCHANGED <<user, roles, asked, given>>

\* What is left of the committed roles once the deleted ones are gone.
Left(s) == roles[req[s].id] \ req[s].gone

\* Mutant of PutRoles: only roles the user did not have are inserted.
PutNew(s) == LET u == req[s].id IN
    /\ req[s].pc = "put"
    /\ roles' = [roles EXCEPT ![u] = Left(s) \cup (req[s].want \ req[s].gone)]
    /\ Give(s, u)
    /\ Return(s)
    /\ UNCHANGED user

\* The insert and the commit.  A delete that waits finds the old rows gone and
\* does not see the new ones, even if they are the same roles.
PutRoles(s) == LET u == req[s].id IN
    /\ req[s].pc = "put"
    /\ Left(s) \cap req[s].want = {}
    /\ roles' = [roles EXCEPT ![u] = Left(s) \cup req[s].want]
    /\ Give(s, u)
    /\ req' = [t \in Slots |->
          IF t = s THEN Idle
          ELSE IF req[t].pc = "delete" /\ req[t].id = u
          THEN [req[t] EXCEPT !.gone = @ \ req[s].gone]
          ELSE req[t]]
    /\ UNCHANGED user

\* A row is there already (P2002): the transaction is rolled back.
RoleTaken(s) ==
    /\ req[s].pc = "put"
    /\ Left(s) \cap req[s].want # {}
    /\ Return(s)
    /\ UNCHANGED <<user, roles, asked, given>>

\* A statement throws (the email is in use, say) or the process dies; a
\* transaction under way is rolled back.
Fail(s) ==
    /\ req[s].pc # "idle"
    /\ Return(s)
    /\ UNCHANGED <<user, roles, asked, given>>

\* No handler changes a status: it is done on the database by hand.
SetStatus(u) ==
    /\ Exists(u)
    /\ \E state \in {"active", "disabled"} :
          user' = [user EXCEPT ![u].state = state]
    /\ UNCHANGED <<roles, req, asked, given>>

\* The process dies and restarts: all that is under way is lost.
Restart ==
    /\ req' = [s \in Slots |-> Idle]
    /\ UNCHANGED <<user, roles, asked, given>>

-----------------------------------------------------------------------------
UserStep(s) ==
    \/ \E b \in Bases, R \in RoleSets : StartCreate(s, b, R)
    \/ ReadNames(s)
    \/ \E u \in UserIds : InsertUser(s, u)
    \/ NameTaken(s)
    \/ \E u \in UserIds, R \in RoleSets : StartSetRoles(s, u, R)
    \/ DeleteRoles(s)
    \/ PutRoles(s)
    \/ RoleTaken(s)
    \/ Fail(s)

UserNext ==
    \/ \E s \in Slots : UserStep(s)
    \/ \E u \in UserIds : SetStatus(u)

Next == UserNext \/ Restart

Spec == Init /\ [][Next]_userVars

-----------------------------------------------------------------------------
\* Which requests may be concurrent: the condition RolesAsAsked needs.

AtMostOne(duties) == \A s, t \in Slots :
    s # t => Duties[s] \cap duties = {} \/ Duties[t] \cap duties = {}

OneSetter == AtMostOne({"setRoles"})

-----------------------------------------------------------------------------
\* Every variable holds a value of its type.
TypeOK ==
    /\ user \in [UserIds -> Row]
    /\ roles \in [UserIds -> SUBSET RoleKeys]
    /\ req \in [Slots -> Request]
    /\ asked \in [UserIds -> SUBSET RoleKeys]
    /\ given \in [UserIds -> SUBSET SUBSET RoleKeys]

\* "Return the first free candidate: the base itself, else base+2, base+3, ..."
\* holds of the table, however creations overlap: below a suffix in use, all
\* names of the base are in use, and no name is given twice.
NamesFilled ==
    /\ \A u \in Created : \A n \in 1..(user[u].suffix - 1) :
          Text(user[u].base, n) \in Usernames
    /\ \A u, v \in Created : Username(u) = Username(v) => u = v

\* A creation loses an attempt only to a creation that came in between: it
\* gives up after five others succeeded and never sooner.
LostToOthers == \A s \in Slots : req[s].pc \in {"name", "insert"} =>
    req[s].attempt + req[s].since <= Cardinality(Created)

\* "Replaces the user's roles with exactly `roles`": with one replacement at a
\* time a user has the roles it was last given.
RolesAsAsked == roles = asked
=============================================================================
