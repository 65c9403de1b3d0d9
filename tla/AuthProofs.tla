----------------------------- MODULE AuthProofs -----------------------------
(***************************************************************************)
(* Theorems about Auth and Users, for any slots, clients, users, names,    *)
(* roles and tokens.                                                       *)
(***************************************************************************)
EXTENDS Auth, FiniteSetTheorems, WellFoundedInduction, TLAPS

-----------------------------------------------------------------------------
\* The least number of a set.

LEMMA MinExists ==
    ASSUME NEW S \in SUBSET Nat, S # {}
    PROVE  Min(S) \in S /\ \A n \in S : Min(S) <= n
<1>1. PICK m \in S : \A n \in S : <<n, m>> \notin OpToRel(<, Nat)
  BY WFMin, NatLessThanWellFounded, Zenon
<1>2. \A n \in S : ~ (n < m)
  BY <1>1 DEF OpToRel
<1>3. \A n \in S : m <= n
  BY <1>2
<1> QED
  BY <1>3 DEF Min

\* There are as many names in use as users at most, and so one suffix too many.
LEMMA CreatedFinite ==
    /\ IsFiniteSet(Created) /\ Cardinality(Created) \in Nat
    /\ Cardinality(UserIds) \in Nat /\ Cardinality(Created) <= Cardinality(UserIds)
<1>1. Created \in SUBSET UserIds
  BY DEF Created
<1> QED
  BY <1>1, UserIdsAssumption, FS_Subset, FS_CardinalityType

LEMMA NamesFinite ==
    IsFiniteSet(Usernames) /\ Cardinality(Usernames) <= Cardinality(Created)
<1> DEFINE f == [u \in Created |-> Username(u)]
<1>1. f \in Surjection(Created, Usernames)
  BY DEF Usernames, Surjection
<1> QED
  BY <1>1, CreatedFinite, FS_Surjection

LEMMA FreeSuffix ==
    ASSUME NEW b \in Bases
    PROVE  \E n \in Suffixes : Text(b, n) \notin Usernames
<1>1. SUFFICES ASSUME \A n \in Suffixes : Text(b, n) \in Usernames
               PROVE  FALSE
  OBVIOUS
<1> DEFINE f == [n \in Suffixes |-> Text(b, n)]
<1>2. f \in Injection(Suffixes, Usernames)
  BY <1>1, TextAssumption DEF Injection, IsInjective
<1>3. IsFiniteSet(Suffixes) /\ Cardinality(Suffixes) = Cardinality(UserIds) + 1
  <2>1. Cardinality(UserIds) + 1 \in Nat /\ 1 \in Int
    BY CreatedFinite
  <2>2. IsFiniteSet(1..(Cardinality(UserIds) + 1))
    BY <2>1, FS_Interval
  <2>3. Cardinality(1..(Cardinality(UserIds) + 1)) = Cardinality(UserIds) + 1
    BY <2>1, FS_Interval
  <2> QED
    BY <2>2, <2>3 DEF Suffixes
<1>4. Cardinality(Suffixes) <= Cardinality(Usernames)
  BY <1>2, NamesFinite, FS_Injection
<1>5. Cardinality(Usernames) \in Nat
  BY NamesFinite, FS_CardinalityType
<1> QED
  BY <1>3, <1>4, <1>5, NamesFinite, CreatedFinite

\* What firstFreeUsername finds: a suffix that is free, all smaller ones not.
LEMMA FirstFree ==
    ASSUME NEW b \in Bases, NEW n, n = firstFreeUsername(b, Usernames)
    PROVE  /\ n \in Suffixes
           /\ Text(b, n) \notin Usernames
           /\ \A m \in 1..(n - 1) : m \in Suffixes /\ Text(b, m) \in Usernames
<1> DEFINE S == {m \in Suffixes : Text(b, m) \notin Usernames}
<1>1. S \in SUBSET Nat /\ S # {}
  BY FreeSuffix DEF Suffixes
<1>2. n = Min(S)
  BY DEF firstFreeUsername
<1>3. n \in S /\ \A m \in S : n <= m
  <2> HIDE DEF S
  <2> QED
    BY <1>1, <1>2, MinExists
<1>4. n \in Suffixes /\ Text(b, n) \notin Usernames
  BY <1>3
<1>5. ASSUME NEW m \in 1..(n - 1)
      PROVE  m \in Suffixes /\ Text(b, m) \in Usernames
  <2>1. m \in Suffixes /\ m < n
    BY <1>4, CreatedFinite DEF Suffixes
  <2>2. m \notin S
    BY <1>3, <2>1, <1>1
  <2> QED
    BY <2>1, <2>2
<1> QED
  BY <1>4, <1>5
-----------------------------------------------------------------------------
LEMMA IdleTyped == Idle \in Request /\ Quiet \in Call
BY AttemptsAssumption, ClockAssumption DEF Idle, Request, Quiet, Call

\* Requests and calls that are begun.
LEMMA StartTyped ==
    /\ \A b \in Bases, R \in SUBSET RoleKeys, n \in Nat :
          [Idle EXCEPT !.pc = "name", !.base = b, !.want = R, !.since = n] \in Request
    /\ \A u \in UserIds, R, G \in SUBSET RoleKeys :
          [Idle EXCEPT !.pc = "delete", !.id = u, !.want = R, !.gone = G] \in Request
<1>1. 0 \in 0..(Attempts - 1) /\ 0 \in Nat
  BY AttemptsAssumption
<1>2. ASSUME NEW b \in Bases, NEW R \in SUBSET RoleKeys, NEW n \in Nat
      PROVE  [Idle EXCEPT !.pc = "name", !.base = b, !.want = R, !.since = n] \in Request
  BY <1>1 DEF Idle, Request
<1>3. ASSUME NEW u \in UserIds, NEW R \in SUBSET RoleKeys, NEW G \in SUBSET RoleKeys
      PROVE  [Idle EXCEPT !.pc = "delete", !.id = u, !.want = R, !.gone = G] \in Request
  BY <1>1 DEF Idle, Request
<1> QED
  BY <1>2, <1>3

LEMMA NamedTyped ==
    ASSUME NEW r \in Request, NEW n \in Suffixes, NEW k \in Nat
    PROVE  [r EXCEPT !.pc = "insert", !.suffix = n, !.seen = k] \in Request
BY DEF Request

\* Requests alike in all but the roles they delete.
SameBut(q, r) ==
    /\ q.pc = r.pc /\ q.base = r.base /\ q.suffix = r.suffix /\ q.attempt = r.attempt
    /\ q.since = r.since /\ q.seen = r.seen /\ q.id = r.id

\* The commit of a replacement answers its request and tells the deletes that
\* wait which rows are gone, no more.
LEMMA PutOthers ==
    ASSUME TypeOK, NEW s \in Slots, PutRoles(s)
    PROVE  /\ req' \in [Slots -> Request]
           /\ \A t \in Slots : req'[t].pc = "idle" \/ (t # s /\ SameBut(req'[t], req[t]))
<1> USE DEF SameBut
<1>1. req' = [t \in Slots |->
         IF t = s THEN Idle
         ELSE IF req[t].pc = "delete" /\ req[t].id = req[s].id
         THEN [req[t] EXCEPT !.gone = @ \ req[s].gone]
         ELSE req[t]]
  BY DEF PutRoles
<1>2. ASSUME NEW t \in Slots
      PROVE  /\ req'[t] \in Request
             /\ req'[t].pc = "idle" \/ (t # s /\ SameBut(req'[t], req[t]))
  <2>1. CASE t = s
    <3>1. req'[t] = Idle
      BY <1>1, <2>1, Zenon
    <3> QED
      BY <3>1, IdleTyped DEF Idle
  <2>2. CASE t # s /\ req[t].pc = "delete" /\ req[t].id = req[s].id
    <3>1. req'[t] = [req[t] EXCEPT !.gone = @ \ req[s].gone]
      BY <1>1, <2>2, Zenon
    <3> QED
      BY <2>2, <3>1 DEF Request, TypeOK
  <2>3. CASE t # s /\ ~ (req[t].pc = "delete" /\ req[t].id = req[s].id)
    <3>1. req'[t] = req[t]
      BY <1>1, <2>3, Zenon
    <3> QED
      BY <2>3, <3>1 DEF TypeOK
  <2> QED
    BY <2>1, <2>2, <2>3, Zenon
<1> QED
  BY <1>1, <1>2

\* A request past its first step is about what it needs, a user has a name.
Underway ==
    /\ \A u \in Created : user[u].base \in Bases /\ user[u].suffix \in Suffixes
    /\ \A s \in Slots :
        /\ req[s].pc \in {"name", "insert"} => req[s].base \in Bases
        /\ req[s].pc = "insert" => req[s].suffix \in Suffixes
        /\ req[s].pc \in {"delete", "put"} =>
              req[s].id \in Created /\ "setRoles" \in Duties[s]

TypeInv == TypeOK /\ Underway

LEMMA UserStepTyped ==
    ASSUME TypeInv, NEW s \in Slots, UserStep(s)
    PROVE  TypeInv'
<1> USE DEF TypeInv, TypeOK, Underway, Created, Exists
<1>1. ASSUME NEW b \in Bases, NEW R \in RoleSets, StartCreate(s, b, R)
      PROVE  TypeInv'
  <2>1. [Idle EXCEPT !.pc = "name", !.base = b, !.want = R,
                     !.since = Cardinality(Created)] \in Request
    BY StartTyped, CreatedFinite DEF RoleSets
  <2> QED
    BY <1>1, <2>1 DEF StartCreate, Idle
<1>2. CASE ReadNames(s)
  <2>1. req[s].pc = "name" /\ req[s].base \in Bases
    BY <1>2 DEF ReadNames
  <2>2. firstFreeUsername(req[s].base, Usernames) \in Suffixes
    BY <2>1, FirstFree
  <2>3. Cardinality(Created) \in Nat
    BY CreatedFinite
  <2>4. req' \in [Slots -> Request]
    BY <1>2, <2>2, <2>3, NamedTyped DEF ReadNames
  <2> QED
    BY <1>2, <2>1, <2>2, <2>4 DEF ReadNames
<1>3. ASSUME NEW u \in UserIds, InsertUser(s, u)
      PROVE  TypeInv'
  <2>1. req[s].base \in Bases /\ req[s].suffix \in Suffixes /\ req[s].want \in SUBSET RoleKeys
    BY <1>3 DEF InsertUser, Request
  <2>2. [state |-> "active", base |-> req[s].base, suffix |-> req[s].suffix] \in Row
    BY <2>1 DEF Row
  <2>3. /\ user' \in [UserIds -> Row] /\ roles' \in [UserIds -> SUBSET RoleKeys]
        /\ asked' \in [UserIds -> SUBSET RoleKeys]
        /\ given' \in [UserIds -> SUBSET SUBSET RoleKeys]
    BY <1>3, <2>1, <2>2 DEF InsertUser, Give
  <2>4. req' = [req EXCEPT ![s] = Idle]
    BY <1>3 DEF InsertUser, Return
  <2>5. user' = [user EXCEPT ![u] = [state |-> "active", base |-> req[s].base,
                                     suffix |-> req[s].suffix]]
    BY <1>3 DEF InsertUser
  <2>6. req' \in [Slots -> Request]
    BY <2>4, IdleTyped
  <2>7. Underway'
    BY <2>1, <2>4, <2>5 DEF Idle
  <2> QED
    BY <2>3, <2>6, <2>7
<1>4. CASE NameTaken(s)
  <2>1. CASE req' = [req EXCEPT ![s].pc = "name", ![s].attempt = @ + 1]
             /\ req[s].attempt < Attempts - 1
    BY <1>4, <2>1, AttemptsAssumption DEF NameTaken, Request
  <2>2. CASE Return(s)
    BY <1>4, <2>2, IdleTyped DEF NameTaken, Return, Idle
  <2> QED
    BY <1>4, <2>1, <2>2 DEF NameTaken
<1>5. ASSUME NEW u \in UserIds, NEW R \in RoleSets, StartSetRoles(s, u, R)
      PROVE  TypeInv'
  <2>1. [Idle EXCEPT !.pc = "delete", !.id = u, !.want = R, !.gone = roles[u]] \in Request
    BY StartTyped DEF RoleSets
  <2> QED
    BY <1>5, <2>1 DEF StartSetRoles, Serves, Idle
<1>6. CASE DeleteRoles(s)
  BY <1>6 DEF DeleteRoles, Request
<1>7. CASE PutRoles(s)
  <2>1. req[s].id \in UserIds /\ req[s].want \in SUBSET RoleKeys /\ Left(s) \in SUBSET RoleKeys
    BY <1>7 DEF PutRoles, Request, Left
  <2>2. /\ roles' \in [UserIds -> SUBSET RoleKeys]
        /\ asked' \in [UserIds -> SUBSET RoleKeys]
        /\ given' \in [UserIds -> SUBSET SUBSET RoleKeys]
        /\ user' = user
    BY <1>7, <2>1 DEF PutRoles, Give
  <2>3. req' \in [Slots -> Request]
    BY <1>7, PutOthers
  <2>4. Underway'
    BY <1>7, <2>2, PutOthers DEF SameBut
  <2> QED
    BY <2>2, <2>3, <2>4
<1>8. CASE RoleTaken(s)
  BY <1>8, IdleTyped DEF RoleTaken, Return, Idle
<1>9. CASE Fail(s)
  BY <1>9, IdleTyped DEF Fail, Return, Idle
<1> QED
  BY <1>1, <1>2, <1>3, <1>4, <1>5, <1>6, <1>7, <1>8, <1>9 DEF UserStep

LEMMA UserTyped ==
    ASSUME TypeInv, [Next]_userVars
    PROVE  TypeInv'
<1>1. CASE UNCHANGED userVars
  BY <1>1 DEF TypeInv, TypeOK, Underway, Created, Exists, userVars
<1>2. ASSUME NEW u \in UserIds, SetStatus(u)
      PROVE  TypeInv'
  <2>1. PICK state \in {"active", "disabled"} : user' = [user EXCEPT ![u].state = state]
    BY <1>2 DEF SetStatus
  <2>2. /\ user' \in [UserIds -> Row]
        /\ \A v \in UserIds : /\ user'[v].base = user[v].base
                              /\ user'[v].suffix = user[v].suffix
                              /\ Exists(v)' <=> Exists(v)
    BY <1>2, <2>1 DEF SetStatus, TypeInv, TypeOK, Row, Exists
  <2> QED
    BY <1>2, <2>2 DEF SetStatus, TypeInv, TypeOK, Underway, Created
<1>3. CASE Restart
  BY <1>3, IdleTyped DEF Restart, TypeInv, TypeOK, Underway, Created, Exists, Idle
<1> QED
  BY <1>1, <1>2, <1>3, UserStepTyped DEF Next, UserNext

-----------------------------------------------------------------------------
\* The sessions, beside the users.
Session ==
    /\ key \in [UserIds -> Jtis \cup {None}]
    /\ token \in [Jtis -> Token]
    /\ call \in [Clients -> Call]
    /\ uses \in [Jtis -> Nat]
    /\ on \subseteq UserIds
    /\ lapse \in [UserIds -> [SUBSET RoleKeys -> 0..(Ttl + Flight)]]
    /\ \A j \in Jtis : Valid(j) => Signed(j)
    /\ \A c \in Clients :
        /\ call[c].pc # "idle" => call[c].user \in UserIds
        /\ call[c].pc = "user" => call[c].from \in Jtis

LEMMA Changed ==
    /\ \A r \in Call, R \in SUBSET RoleKeys, n \in 0..Flight :
          /\ [r EXCEPT !.pc = "store", !.roles = R] \in Call
          /\ [r EXCEPT !.age = n] \in Call
    /\ \A t \in Token, n \in 0..Ttl : [t EXCEPT !.left = n] \in Token
<1>1. ASSUME NEW r \in Call, NEW R \in SUBSET RoleKeys, NEW n \in 0..Flight
      PROVE  [r EXCEPT !.pc = "store", !.roles = R] \in Call /\ [r EXCEPT !.age = n] \in Call
  BY DEF Call
<1>2. ASSUME NEW t \in Token, NEW n \in 0..Ttl
      PROVE  [t EXCEPT !.left = n] \in Token
  BY DEF Token
<1> QED
  BY <1>1, <1>2

LEMMA ClientStepTyped ==
    ASSUME TypeInv, Session, NEW c \in Clients, ClientStep(c),
           lapse' \in [UserIds -> [SUBSET RoleKeys -> 0..(Ttl + Flight)]]
    PROVE  Session'
<1> USE DEF Session, Valid, Signed
<1>0. 0 \in 0..Flight
  BY ClockAssumption
<1>1. ASSUME NEW u \in UserIds, Login(c, u)
      PROVE  Session'
  <2>1. [Quiet EXCEPT !.pc = "store", !.user = u, !.roles = roles[u]] \in Call
    BY <1>0 DEF TypeInv, TypeOK, Call, Quiet
  <2> QED
    BY <1>1, <2>1 DEF Login, Quiet
<1>2. ASSUME NEW u \in UserIds, Logout(c, u)
      PROVE  Session'
  BY <1>2 DEF Logout
<1>3. ASSUME NEW j \in Jtis, Refresh(c, j)
      PROVE  Session'
  <2>1. token[j].user \in UserIds
    BY <1>3 DEF Refresh, Signed, Token
  <2>2. [Quiet EXCEPT !.pc = "user", !.from = j, !.user = token[j].user] \in Call
    BY <1>0, <2>1 DEF Quiet, Call
  <2> QED
    BY <1>3, <2>1, <2>2 DEF Refresh, Quiet
<1>4. ASSUME NEW j \in Jtis, StoreToken(c, j)
      PROVE  Session'
  <2>1. call[c].user \in UserIds /\ call[c].roles \in SUBSET RoleKeys
    BY <1>4 DEF StoreToken, Call
  <2>2. /\ token' = [token EXCEPT ![j] = [user |-> call[c].user, roles |-> call[c].roles,
                                            left |-> Ttl]]
        /\ key' = [key EXCEPT ![call[c].user] = j]
        /\ uses' = [i \in Jtis |-> IF i = call[c].from THEN uses[i] + 1 ELSE uses[i]]
        /\ on' \subseteq on \cup {call[c].user}
        /\ call' = [call EXCEPT ![c] = Quiet]
    BY <1>4 DEF StoreToken, Answer
  <2>3. [user |-> call[c].user, roles |-> call[c].roles, left |-> Ttl] \in Token
    BY <2>1, ClockAssumption DEF Token
  <2>4. token' \in [Jtis -> Token] /\ uses' \in [Jtis -> Nat]
    BY <2>2, <2>3
  <2>5. key' \in [UserIds -> Jtis \cup {None}] /\ call' \in [Clients -> Call]
    BY <2>1, <2>2, IdleTyped
  <2>6. \A i \in Jtis : token'[i].left > 0 => token'[i].user # None
    BY <2>1, <2>2, NoneAssumption
  <2> QED
    BY <2>1, <2>2, <2>4, <2>5, <2>6 DEF Quiet
<1>5. CASE ReadUser(c)
  <2>1. CASE call' = [call EXCEPT ![c].pc = "store", ![c].roles = roles[call[c].user]]
    <3>1. call[c].pc = "user" /\ call[c].user \in UserIds
      BY <1>5 DEF ReadUser
    <3>2. roles[call[c].user] \in SUBSET RoleKeys
      BY <3>1 DEF TypeInv, TypeOK
    <3>3. [call[c] EXCEPT !.pc = "store", !.roles = roles[call[c].user]] \in Call
      BY <1>0, <3>2, Changed
    <3> DEFINE r == [call[c] EXCEPT !.pc = "store", !.roles = roles[call[c].user]]
    <3>4. call' = [call EXCEPT ![c] = r]
      BY <2>1
    <3>5. r.user = call[c].user /\ r.pc = "store"
      BY DEF Call
    <3> HIDE DEF r
    <3> QED
      BY <1>5, <3>1, <3>3, <3>4, <3>5 DEF ReadUser, r
  <2>2. CASE Answer(c)
    BY <1>5, <2>2, IdleTyped DEF ReadUser, Answer, Quiet
  <2> QED
    BY <1>5, <2>1, <2>2 DEF ReadUser
<1>6. CASE FailCall(c)
  BY <1>6, IdleTyped DEF FailCall, Answer, Quiet
<1> QED
  BY <1>1, <1>2, <1>3, <1>4, <1>5, <1>6 DEF ClientStep

\* A tick changes the ages of the calls and what is left of the tokens.
LEMMA TickKeeps ==
    ASSUME Session, Tick
    PROVE  /\ UNCHANGED <<userVars, key, uses, on>>
           /\ \A c \in Clients : /\ call'[c].pc = call[c].pc /\ call'[c].user = call[c].user
                                 /\ call'[c].roles = call[c].roles
                                 /\ call'[c].from = call[c].from
                                 /\ call'[c].age =
                                      IF call[c].pc = "idle" THEN call[c].age ELSE call[c].age + 1
           /\ \A j \in Jtis : /\ token'[j].user = token[j].user
                              /\ token'[j].roles = token[j].roles
                              /\ token'[j].left = Less(token[j].left)
BY DEF Tick, Session, Call, Token

LEMMA TickTyped ==
    ASSUME Session, Tick
    PROVE  call' \in [Clients -> Call] /\ token' \in [Jtis -> Token]
<1>1. ASSUME NEW c \in Clients, call[c].pc # "idle"
      PROVE  [call[c] EXCEPT !.age = @ + 1] \in Call
  <2>1. call[c] \in Call /\ call[c].age < Flight
    BY <1>1 DEF Tick, Session
  <2>2. call[c].age + 1 \in 0..Flight
    BY <2>1, ClockAssumption DEF Call
  <2> QED
    BY <2>1, <2>2, Changed
<1>2. ASSUME NEW j \in Jtis
      PROVE  [token[j] EXCEPT !.left = Less(@)] \in Token
  <2>1. token[j] \in Token
    BY DEF Session
  <2>2. Less(token[j].left) \in 0..Ttl
    BY <2>1, ClockAssumption DEF Token, Less
  <2> QED
    BY <2>1, <2>2, Changed
<1> QED
  BY <1>1, <1>2 DEF Tick, Session

\* What has not been held for longer stays within the bound.
LEMMA LapsingTyped ==
    ASSUME NEW n \in [UserIds -> [SUBSET RoleKeys -> 0..(Ttl + Flight)]], Lapsing(n)
    PROVE  lapse' \in [UserIds -> [SUBSET RoleKeys -> 0..(Ttl + Flight)]]
<1>1. ASSUME NEW u \in UserIds, NEW R \in SUBSET RoleKeys
      PROVE  (IF Holds(u, R)' THEN 0 ELSE n[u][R]) \in 0..(Ttl + Flight)
  BY ClockAssumption
<1> QED
  BY <1>1 DEF Lapsing

LEMMA LapseTyped ==
    ASSUME Session, [AuthNext]_vars
    PROVE  lapse' \in [UserIds -> [SUBSET RoleKeys -> 0..(Ttl + Flight)]]
<1>1. lapse \in [UserIds -> [SUBSET RoleKeys -> 0..(Ttl + Flight)]]
  BY DEF Session
<1>2. CASE Lapsing(lapse)
  BY <1>1, <1>2, LapsingTyped
<1>3. CASE Tick
  <2> DEFINE n == [u \in UserIds |-> [R \in SUBSET RoleKeys |-> Longer(lapse[u][R])]]
  <2>1. \A u \in UserIds, R \in SUBSET RoleKeys : Longer(lapse[u][R]) \in 0..(Ttl + Flight)
    BY <1>1, ClockAssumption DEF Longer
  <2>2. n \in [UserIds -> [SUBSET RoleKeys -> 0..(Ttl + Flight)]]
    BY <2>1
  <2>3. Lapsing(n)
    BY <1>3 DEF Tick
  <2> HIDE DEF n
  <2> QED
    BY <2>2, <2>3, LapsingTyped
<1> QED
  BY <1>1, <1>2, <1>3 DEF AuthNext, vars

\* The steps of the sessions change nothing of the users, and the other way round.
LEMMA Typed ==
    ASSUME TypeInv, Session, [AuthNext]_vars
    PROVE  TypeInv' /\ Session'
<1>1. lapse' \in [UserIds -> [SUBSET RoleKeys -> 0..(Ttl + Flight)]]
  BY LapseTyped
<1>2. CASE [Next]_userVars /\ UNCHANGED sessionVars
  BY <1>1, <1>2, UserTyped DEF Session, Valid, Signed, sessionVars
<1>3. ASSUME NEW c \in Clients, ClientStep(c)
      PROVE  TypeInv' /\ Session'
  <2>1. UNCHANGED userVars
    BY <1>3 DEF ClientStep, Login, Logout, Refresh, StoreToken, ReadUser, FailCall
  <2> QED
    BY <1>1, <1>3, <2>1, UserTyped, ClientStepTyped
<1>4. ASSUME NEW u \in UserIds, Expire(u)
      PROVE  TypeInv' /\ Session'
  BY <1>1, <1>4, UserTyped DEF Expire, Session, Valid, Signed
<1>5. CASE Crash
  <2>1. TypeInv'
    BY <1>5, UserTyped DEF Crash, Next
  <2>2. call' \in [Clients -> Call]
    BY <1>5, IdleTyped DEF Crash
  <2> QED
    BY <1>1, <1>5, <2>1, <2>2 DEF Crash, Session, Valid, Signed, Quiet
<1>6. CASE Tick
  <2>1. TypeInv'
    BY <1>6, UserTyped DEF Tick
  <2>2. \A j \in Jtis : Valid(j)' => Signed(j)'
    <3> SUFFICES ASSUME NEW j \in Jtis, Valid(j)' PROVE Signed(j)'
      OBVIOUS
    <3>1. token[j].left \in 0..Ttl
      BY DEF Session, Token
    <3>2. Valid(j)
      BY <1>6, <3>1, TickKeeps, ClockAssumption DEF Valid, Less
    <3> QED
      BY <1>6, <3>2, TickKeeps DEF Session, Signed
  <2> QED
    BY <1>1, <1>6, <2>1, <2>2, TickKeeps, TickTyped DEF Session
<1> QED
  BY <1>2, <1>3, <1>4, <1>5, <1>6 DEF AuthNext, SessionNext, Next, vars

LEMMA TypedInit == AuthInit => TypeInv /\ Session
BY IdleTyped, ClockAssumption DEF AuthInit, Init, TypeInv, TypeOK, Underway, Session, Created,
   Exists, Row, NoRow, Idle, Quiet, Token, NoToken, Valid

\* The tables, the keys and the tokens hold what they are declared to hold.
THEOREM TypeCorrect == AuthSpec => []SessionsOK
<1>1. AuthInit => TypeInv /\ Session
  BY TypedInit
<1>2. (TypeInv /\ Session) /\ [AuthNext]_vars => (TypeInv /\ Session)'
  BY Typed
<1>3. TypeInv /\ Session => SessionsOK
  BY DEF TypeInv, Session, SessionsOK
<1> QED
  BY <1>1, <1>2, <1>3, PTL DEF AuthSpec

-----------------------------------------------------------------------------
\* A key names a token of its user that was signed and not yet exchanged; so
\* does a refresh under way, though the key may be another by then.
Unspent(j, u) == Signed(j) /\ token[j].user = u /\ uses[j] = 0

KeysUnspent ==
    /\ \A u \in UserIds : key[u] # None => Unspent(key[u], u)
    /\ \A j \in Jtis : ~Signed(j) => uses[j] = 0
    /\ \A c \in Clients : call[c].from # None =>
          /\ call[c].pc # "idle" /\ "refresh" \in Calls[c]
          /\ Unspent(call[c].from, call[c].user)

KeysInv == TypeInv /\ Session /\ KeysUnspent /\ ExchangedOnce

\* Storing the answer of an exchange spends the token for good.
LEMMA StoreKeys ==
    ASSUME OneRefresher, KeysInv, NEW c \in Clients, NEW j \in Jtis, StoreToken(c, j)
    PROVE  KeysUnspent' /\ ExchangedOnce'
<1> DEFINE u == call[c].user
           f == call[c].from
<1>1. /\ u \in UserIds /\ ~Signed(j) /\ uses[j] = 0 /\ f \in Jtis \cup {None}
      /\ f # None => Unspent(f, u) /\ "refresh" \in Calls[c]
  BY DEF StoreToken, KeysInv, Session, KeysUnspent, Call
<1>2. f # j
  BY <1>1, JtisAssumption DEF Unspent
<1>3. /\ token' = [token EXCEPT ![j] = [user |-> u, roles |-> call[c].roles, left |-> Ttl]]
      /\ key' = [key EXCEPT ![u] = j]
      /\ uses' = [i \in Jtis |-> IF i = f THEN uses[i] + 1 ELSE uses[i]]
      /\ call' = [call EXCEPT ![c] = Quiet]
  BY DEF StoreToken, Answer
<1>4. /\ token'[j].user = u /\ uses'[j] = 0
      /\ \A i \in Jtis : i # j => token'[i] = token[i]
      /\ \A i \in Jtis : i # f => uses'[i] = uses[i]
      /\ f \in Jtis => uses'[f] = 1
  <2>1. token \in [Jtis -> Token] /\ uses \in [Jtis -> Nat]
    BY DEF KeysInv, Session
  <2>2. f \in Jtis => uses[f] = 0
    BY <1>1, JtisAssumption DEF Unspent
  <2> QED
    BY <1>1, <1>2, <1>3, <2>1, <2>2
<1>5. u # None /\ \A i \in Jtis : i # j => (Signed(i)' <=> Signed(i))
  BY <1>1, <1>4, NoneAssumption DEF Signed
<1>6. ASSUME NEW v \in UserIds, key'[v] # None
      PROVE  Unspent(key[v], v)'
  <2>1. CASE v = u
    <3>1. key'[v] = j
      BY <1>1, <1>3, <2>1 DEF KeysInv, Session
    <3> QED
      BY <1>4, <1>5, <2>1, <3>1 DEF Unspent, Signed
  <2>2. CASE v # u
    <3>1. key'[v] = key[v] /\ key[v] \in Jtis /\ Unspent(key[v], v)
      BY <1>3, <1>6, <2>2 DEF KeysInv, Session, KeysUnspent
    <3>2. key[v] # j /\ key[v] # f
      BY <1>1, <2>2, <3>1, JtisAssumption DEF Unspent
    <3> QED
      BY <1>4, <1>5, <3>1, <3>2 DEF Unspent
  <2> QED
    BY <2>1, <2>2
<1>7. ASSUME NEW i \in Jtis
      PROVE  (~Signed(i) => uses[i] = 0)' /\ uses'[i] <= 1
  <2>1. CASE i = j
    BY <1>1, <1>4, <1>5, <2>1 DEF Signed
  <2>2. CASE i # j /\ i = f
    BY <1>1, <1>4, <1>5, <2>2, JtisAssumption DEF Unspent
  <2>3. CASE i # j /\ i # f
    BY <1>4, <1>5, <2>3 DEF KeysInv, KeysUnspent, ExchangedOnce
  <2> QED
    BY <2>1, <2>2, <2>3
<1>8. ASSUME NEW d \in Clients, call'[d].from # None
      PROVE  call'[d].pc # "idle" /\ "refresh" \in Calls[d]
             /\ Unspent(call[d].from, call[d].user)'
  <2>1. d # c
    BY <1>3, <1>8 DEF KeysInv, Session, Quiet
  <2>2. call'[d] = call[d]
    BY <1>3, <2>1 DEF KeysInv, Session
  <2>3. /\ call[d].pc # "idle" /\ "refresh" \in Calls[d]
        /\ call[d].from \in Jtis /\ Unspent(call[d].from, call[d].user)
    BY <1>8, <2>2 DEF KeysInv, Session, KeysUnspent, Call
  <2>4. f = None
    BY <1>1, <2>1, <2>3 DEF OneRefresher, OneCaller
  <2>5. call[d].from # j /\ call[d].from # f
    BY <1>1, <2>3, <2>4, JtisAssumption DEF Unspent
  <2> QED
    BY <1>4, <1>5, <2>2, <2>3, <2>5 DEF Unspent
<1> QED
  BY <1>6, <1>7, <1>8 DEF KeysUnspent, ExchangedOnce

LEMMA KeysStep ==
    ASSUME OneRefresher, KeysInv, [AuthNext]_vars
    PROVE  KeysInv'
<1> USE DEF KeysInv, Unspent, Signed
<1>1. TypeInv' /\ Session'
  BY Typed
<1>2. CASE UNCHANGED sessionVars
  BY <1>1, <1>2 DEF sessionVars, KeysUnspent, ExchangedOnce
<1>3. ASSUME NEW u \in UserIds, Expire(u) \/ \E c \in Clients : Logout(c, u)
      PROVE  KeysUnspent' /\ ExchangedOnce'
  <2>1. key' = [key EXCEPT ![u] = None] /\ UNCHANGED <<token, call, uses>>
    BY <1>3 DEF Expire, Logout
  <2>2. \A v \in UserIds : key'[v] = None \/ key'[v] = key[v]
    BY <2>1 DEF Session
  <2> QED
    BY <2>1, <2>2 DEF KeysUnspent, ExchangedOnce
<1>4. ASSUME NEW c \in Clients, UNCHANGED <<key, token, uses>>,
             NEW r, call' = [call EXCEPT ![c] = r],
             r.from # None => /\ r.pc # "idle" /\ "refresh" \in Calls[c]
                              /\ Unspent(r.from, r.user)
      PROVE  KeysUnspent' /\ ExchangedOnce'
  <2>1. \A d \in Clients : call'[d] = call[d] \/ (d = c /\ call'[d] = r)
    BY <1>4 DEF Session
  <2> QED
    BY <1>4, <2>1 DEF KeysUnspent, ExchangedOnce
<1>5. ASSUME NEW c \in Clients, NEW u \in UserIds, Login(c, u)
      PROVE  KeysUnspent' /\ ExchangedOnce'
  BY <1>4, <1>5 DEF Login, Quiet
<1>6. ASSUME NEW c \in Clients, NEW j \in Jtis, Refresh(c, j)
      PROVE  KeysUnspent' /\ ExchangedOnce'
  <2>1. token[j].user \in UserIds /\ token[j].user # None
    BY <1>6, NoneAssumption DEF Refresh, Session, Token
  <2>2. Unspent(j, token[j].user) /\ "refresh" \in Calls[c]
    BY <1>6, <2>1, JtisAssumption DEF Refresh, KeysUnspent, Makes
  <2> DEFINE r == [Quiet EXCEPT !.pc = "user", !.from = j, !.user = token[j].user]
  <2>3. r.pc = "user" /\ r.from = j /\ r.user = token[j].user
    BY DEF Quiet
  <2>4. call' = [call EXCEPT ![c] = r] /\ UNCHANGED <<key, token, uses>>
    BY <1>6 DEF Refresh
  <2> HIDE DEF r
  <2> QED
    BY <1>4, <2>2, <2>3, <2>4
<1>7. ASSUME NEW c \in Clients, Answer(c), UNCHANGED <<key, token, uses>>
      PROVE  KeysUnspent' /\ ExchangedOnce'
  BY <1>4, <1>7 DEF Answer, Quiet
<1>8. ASSUME NEW c \in Clients, ReadUser(c)
      PROVE  KeysUnspent' /\ ExchangedOnce'
  <2>1. CASE call' = [call EXCEPT ![c].pc = "store", ![c].roles = roles[call[c].user]]
    <3>1. \A d \in Clients : /\ call'[d].from = call[d].from
                             /\ call'[d].user = call[d].user
                             /\ call'[d].pc = call[d].pc \/ call'[d].pc = "store"
      BY <2>1 DEF Session, Call
    <3> QED
      BY <1>8, <3>1 DEF ReadUser, KeysUnspent, ExchangedOnce
  <2> QED
    BY <1>7, <1>8, <2>1 DEF ReadUser
<1>9. ASSUME NEW c \in Clients, ClientStep(c)
      PROVE  KeysUnspent' /\ ExchangedOnce'
  BY <1>3, <1>5, <1>6, <1>7, <1>8, <1>9, StoreKeys DEF ClientStep, FailCall
<1>10. CASE Crash
  <2>1. \A c \in Clients : call'[c].from = None
    BY <1>10 DEF Crash, Quiet
  <2>2. UNCHANGED <<key, token, uses>>
    BY <1>10 DEF Crash
  <2> QED
    BY <1>1, <2>1, <2>2 DEF KeysUnspent, ExchangedOnce
<1>11. CASE Tick
  <2>1. /\ UNCHANGED <<key, uses>>
        /\ \A c \in Clients : /\ call'[c].pc = call[c].pc /\ call'[c].user = call[c].user
                              /\ call'[c].from = call[c].from
        /\ \A j \in Jtis : token'[j].user = token[j].user
    BY <1>11, TickKeeps
  <2>2. \A j \in Jtis : \A u : Unspent(j, u)' <=> Unspent(j, u)
    BY <2>1
  <2>3. /\ \A u \in UserIds : key[u] # None => key[u] \in Jtis
        /\ \A c \in Clients : call[c].from # None => call[c].from \in Jtis
    BY DEF Session, Call
  <2> QED
    BY <1>1, <2>1, <2>2, <2>3 DEF KeysUnspent, ExchangedOnce
<1> QED
  BY <1>1, <1>2, <1>3, <1>9, <1>10, <1>11 DEF AuthNext, SessionNext, vars, sessionVars

LEMMA KeysInit == AuthInit => KeysUnspent /\ ExchangedOnce
BY DEF AuthInit, KeysUnspent, ExchangedOnce, Quiet, NoToken, Signed

\* With one refresh at a time no refresh token is exchanged twice, whatever
\* logins, logouts and expiries come between the check and the answer.
THEOREM ExchangesOnce ==
    ASSUME OneRefresher
    PROVE  AuthSpec => []ExchangedOnce
<1>1. AuthInit => KeysInv
  BY TypedInit, KeysInit DEF KeysInv
<1>2. KeysInv /\ [AuthNext]_vars => KeysInv'
  BY KeysStep
<1>3. KeysInv => ExchangedOnce
  BY DEF KeysInv
<1> QED
  BY <1>1, <1>2, <1>3, PTL DEF AuthSpec

-----------------------------------------------------------------------------
\* Nor is a refresh under way of a user who is not logged in.
Gone == \A u \in UserIds \ on :
    /\ key[u] = None
    /\ \A c \in Clients : call[c].user = u => call[c].from = None

LEMMA OneSessionRefresher == OneSession => OneRefresher
BY DEF OneSession, OneRefresher, OneCaller

LEMMA GoneStep ==
    ASSUME OneSession, KeysInv, Gone, [AuthNext]_vars
    PROVE  Gone'
<1> USE DEF Gone
<1>1. CASE UNCHANGED sessionVars
  BY <1>1 DEF sessionVars
<1>2. ASSUME NEW u \in UserIds, Expire(u)
      PROVE  Gone'
  BY <1>2 DEF Expire, KeysInv, Session
<1>3. ASSUME NEW c \in Clients, NEW u \in UserIds, Logout(c, u)
      PROVE  Gone'
  <2>1. ASSUME NEW d \in Clients, call[d].user = u
        PROVE  call[d].from = None
    <3>1. CASE d = c
      BY <1>3, <3>1 DEF Logout, Makes, KeysInv, KeysUnspent
    <3>2. CASE d # c
      BY <1>3, <3>2 DEF Logout, Makes, KeysInv, KeysUnspent, OneSession, OneCaller
    <3> QED
      BY <3>1, <3>2
  <2> QED
    BY <1>3, <2>1 DEF Logout, KeysInv, Session
<1>4. ASSUME NEW c \in Clients, UNCHANGED <<key, on>>,
             NEW r, call' = [call EXCEPT ![c] = r],
             r.user \in UserIds \ on => r.from = None
      PROVE  Gone'
  <2>1. \A d \in Clients : call'[d] = call[d] \/ call'[d] = r
    BY <1>4 DEF KeysInv, Session
  <2> QED
    BY <1>4, <2>1
<1>5. ASSUME NEW c \in Clients, NEW u \in UserIds, Login(c, u)
      PROVE  Gone'
  BY <1>4, <1>5 DEF Login, Quiet
<1>6. ASSUME NEW c \in Clients, NEW j \in Jtis, Refresh(c, j)
      PROVE  Gone'
  <2>1. token[j].user \notin UserIds \ on
    BY <1>6, JtisAssumption DEF Refresh
  <2> DEFINE r == [Quiet EXCEPT !.pc = "user", !.from = j, !.user = token[j].user]
  <2>2. r.user = token[j].user
    BY DEF Quiet
  <2>3. call' = [call EXCEPT ![c] = r] /\ UNCHANGED <<key, on>>
    BY <1>6 DEF Refresh
  <2> HIDE DEF r
  <2> QED
    BY <1>4, <2>1, <2>2, <2>3
<1>7. ASSUME NEW c \in Clients, Answer(c), UNCHANGED <<key, on>>
      PROVE  Gone'
  BY <1>4, <1>7 DEF Answer, Quiet
<1>8. ASSUME NEW c \in Clients, ReadUser(c)
      PROVE  Gone'
  <2>1. CASE call' = [call EXCEPT ![c].pc = "store", ![c].roles = roles[call[c].user]]
    <3>1. \A d \in Clients : call'[d].from = call[d].from /\ call'[d].user = call[d].user
      BY <2>1 DEF KeysInv, Session, Call
    <3> QED
      BY <1>8, <3>1 DEF ReadUser
  <2> QED
    BY <1>7, <1>8, <2>1 DEF ReadUser
<1>9. ASSUME NEW c \in Clients, NEW j \in Jtis, StoreToken(c, j)
      PROVE  Gone'
  <2> DEFINE u == call[c].user
  <2>1. /\ key' = [key EXCEPT ![u] = j] /\ call' = [call EXCEPT ![c] = Quiet]
        /\ on' = IF call[c].from = None THEN on \cup {u} ELSE on
        /\ u \in UserIds
    BY <1>9 DEF StoreToken, Answer, KeysInv, Session
  <2>2. on \subseteq on' /\ u \in on'
    BY <2>1
  <2>3. \A v \in UserIds \ on' : v \in UserIds \ on /\ key'[v] = key[v]
    BY <2>1, <2>2 DEF KeysInv, Session
  <2>4. \A d \in Clients : call'[d] = call[d] \/ call'[d] = Quiet
    BY <2>1 DEF KeysInv, Session
  <2> QED
    BY <2>3, <2>4 DEF Quiet
<1>10. ASSUME NEW c \in Clients, ClientStep(c)
       PROVE  Gone'
  BY <1>3, <1>5, <1>6, <1>7, <1>8, <1>9, <1>10 DEF ClientStep, FailCall
<1>11. CASE Crash
  BY <1>11 DEF Crash, Quiet
<1>12. CASE Tick
  BY <1>12, TickKeeps DEF KeysInv, Session
<1> QED
  BY <1>1, <1>2, <1>10, <1>11, <1>12 DEF AuthNext, SessionNext, vars, sessionVars

\* With refreshes and logouts one at a time a user who logged out has no key
\* until the next login: no exchange under way brings it back.
THEOREM LogoutIsFinal ==
    ASSUME OneSession
    PROVE  AuthSpec => []LogoutEnds
<1>1. AuthInit => KeysInv /\ Gone
  BY TypedInit, KeysInit DEF KeysInv, AuthInit, Gone, Quiet
<1>2. (KeysInv /\ Gone) /\ [AuthNext]_vars => (KeysInv /\ Gone)'
  BY KeysStep, GoneStep, OneSessionRefresher
<1>3. KeysInv /\ Gone => LogoutEnds
  BY DEF Gone, LogoutEnds
<1> QED
  BY <1>1, <1>2, <1>3, PTL DEF AuthSpec

-----------------------------------------------------------------------------
\* A user once created stays, under its name.
LEMMA NamesStay ==
    ASSUME TypeInv, [Next]_userVars
    PROVE  /\ \A u \in Created : /\ user'[u].base = user[u].base
                                 /\ user'[u].suffix = user[u].suffix
           /\ Created \subseteq Created'
           /\ Usernames \subseteq Usernames'
<1>1. ASSUME NEW u \in Created
      PROVE  /\ user'[u].base = user[u].base /\ user'[u].suffix = user[u].suffix
             /\ u \in Created'
  <2>1. CASE user' = user
    BY <2>1 DEF Created, Exists
  <2>2. ASSUME NEW s \in Slots, NEW v \in UserIds, InsertUser(s, v)
        PROVE  user'[u] = user[u]
    BY <2>2 DEF InsertUser, Created, Exists, TypeInv, TypeOK
  <2>3. ASSUME NEW v \in UserIds, SetStatus(v)
        PROVE  /\ user'[u].base = user[u].base /\ user'[u].suffix = user[u].suffix
               /\ u \in Created'
    <3>1. PICK state \in {"active", "disabled"} : user' = [user EXCEPT ![v].state = state]
      BY <2>3 DEF SetStatus
    <3>2. user[u] \in Row /\ user'[u] = IF u = v THEN [user[u] EXCEPT !.state = state] ELSE user[u]
      BY <3>1 DEF Created, TypeInv, TypeOK
    <3> QED
      BY <3>2 DEF Created, Exists, Row
  <2>4. user' = user \/ (\E s \in Slots, v \in UserIds : InsertUser(s, v))
                     \/ (\E v \in UserIds : SetStatus(v))
    BY DEF Next, UserNext, UserStep, userVars, StartCreate, ReadNames, NameTaken,
       StartSetRoles, DeleteRoles, PutRoles, RoleTaken, Fail, Restart
  <2> QED
    BY <2>1, <2>2, <2>3, <2>4 DEF Created, Exists
<1>2. Created \subseteq Created'
  BY <1>1
<1> QED
  BY <1>1, <1>2 DEF Usernames, Username

\* Of a request with a name in hand: the smaller suffixes are in use, and once
\* the name is too, there is a user who was not there when it was chosen.
Naming ==
    /\ NamesFilled
    /\ \A s \in Slots :
        /\ req[s].pc \in {"name", "insert"} =>
              req[s].attempt + req[s].since <= Cardinality(Created)
        /\ req[s].pc = "insert" =>
              /\ \A n \in 1..(req[s].suffix - 1) : Text(req[s].base, n) \in Usernames
              /\ req[s].attempt + req[s].since <= req[s].seen
              /\ req[s].seen <= Cardinality(Created)
              /\ Name(s) \in Usernames => req[s].seen < Cardinality(Created)

\* A step that changes no name, and a request only by its end or in its roles.
LEMMA NamingKept ==
    ASSUME TypeInv, Naming, [Next]_userVars, Created' = Created,
           \A t \in Slots : req'[t].pc \notin {"name", "insert"} \/ SameBut(req'[t], req[t])
    PROVE  Naming'
<1>1. \A u \in Created : user'[u].base = user[u].base /\ user'[u].suffix = user[u].suffix
  BY NamesStay
<1>2. Usernames' = Usernames
  BY <1>1 DEF Usernames, Username
<1>3. NamesFilled'
  BY <1>1, <1>2 DEF Naming, NamesFilled, Username
<1> QED
  BY <1>2, <1>3 DEF Naming, Name, SameBut

LEMMA NamingInsert ==
    ASSUME TypeInv, Naming, NEW s \in Slots, NEW u \in UserIds, InsertUser(s, u)
    PROVE  Naming'
<1>1. [Next]_userVars
  BY DEF Next, UserNext, UserStep
<1>2. /\ user' = [user EXCEPT ![u] = [state |-> "active", base |-> req[s].base,
                                      suffix |-> req[s].suffix]]
      /\ u \notin Created /\ req' = [req EXCEPT ![s] = Idle]
      /\ Name(s) \notin Usernames /\ req[s].pc = "insert"
  BY DEF InsertUser, Created, Exists, Return
<1>3. Created' = Created \cup {u}
  BY <1>2 DEF Created, Exists, TypeInv, TypeOK
<1>4. Cardinality(Created') = Cardinality(Created) + 1
  BY <1>2, <1>3, CreatedFinite, FS_AddElement
<1>5. \A v \in Created : user'[v] = user[v]
  BY <1>2 DEF TypeInv, TypeOK, Created
<1>6. user'[u].base = req[s].base /\ user'[u].suffix = req[s].suffix
  BY <1>2 DEF TypeInv, TypeOK
<1>7. Usernames \subseteq Usernames'
  BY <1>1, NamesStay
<1>8. \A v \in Created : \A n \in 1..(user[v].suffix - 1) : Text(user[v].base, n) \in Usernames
  BY DEF Naming, NamesFilled
<1>9. \A n \in 1..(req[s].suffix - 1) : Text(req[s].base, n) \in Usernames
  BY <1>2 DEF Naming
<1>10. \A v \in Created : Username(v)' = Username(v) /\ Username(v) \in Usernames
  BY <1>5 DEF Username, Usernames
<1>11. Username(u)' = Name(s)
  BY <1>6 DEF Username, Name
<1>12. NamesFilled'
  <2>1. ASSUME NEW v \in Created', NEW n \in 1..(user'[v].suffix - 1)
        PROVE  Text(user'[v].base, n) \in Usernames'
    BY <1>3, <1>5, <1>6, <1>7, <1>8, <1>9, <2>1
  <2>2. ASSUME NEW v \in Created', NEW w \in Created', Username(v)' = Username(w)'
        PROVE  v = w
    BY <1>2, <1>3, <1>10, <1>11, <2>2 DEF Naming, NamesFilled
  <2> QED
    BY <2>1, <2>2 DEF NamesFilled
<1>13. ASSUME NEW t \in Slots, req'[t].pc \in {"name", "insert"}
       PROVE  t # s /\ req'[t] = req[t]
  BY <1>2, <1>13 DEF TypeInv, TypeOK, Idle
<1>14. \A t \in Slots : req[t].attempt \in Int /\ req[t].since \in Int /\ req[t].seen \in Int
  BY AttemptsAssumption DEF TypeInv, TypeOK, Request
<1>15. ASSUME NEW t \in Slots, req'[t].pc \in {"name", "insert"}
       PROVE  /\ req'[t].attempt + req'[t].since <= Cardinality(Created')
              /\ req'[t].pc = "insert" =>
                    /\ \A n \in 1..(req'[t].suffix - 1) : Text(req'[t].base, n) \in Usernames'
                    /\ req'[t].attempt + req'[t].since <= req'[t].seen
                    /\ req'[t].seen <= Cardinality(Created')
                    /\ req'[t].seen < Cardinality(Created')
  <2>1. req'[t] = req[t]
    BY <1>13, <1>15
  <2>2. Cardinality(Created) \in Nat
    BY CreatedFinite
  <2> QED
    BY <1>4, <1>7, <1>14, <1>15, <2>1, <2>2 DEF Naming
<1> QED
  BY <1>12, <1>15 DEF Naming

LEMMA NamingStep ==
    ASSUME TypeInv, Naming, [Next]_userVars
    PROVE  Naming'
<1>1. TypeInv'
  BY UserTyped
<1>2. Cardinality(Created) \in Nat
  BY CreatedFinite
<1>3. ASSUME NEW s \in Slots, NEW b \in Bases, NEW R \in RoleSets, StartCreate(s, b, R)
      PROVE  Naming'
  <2> DEFINE r == [Idle EXCEPT !.pc = "name", !.base = b, !.want = R,
                               !.since = Cardinality(Created)]
  <2>1. r.pc = "name" /\ r.attempt = 0 /\ r.since = Cardinality(Created)
    BY DEF Idle
  <2>2. req' = [req EXCEPT ![s] = r] /\ user' = user
    BY <1>3 DEF StartCreate
  <2> HIDE DEF r
  <2>3. \A t \in Slots : req'[t] = req[t] \/ req'[t] = r
    BY <2>2 DEF TypeInv, TypeOK
  <2>4. Usernames' = Usernames /\ Created' = Created
    BY <2>2 DEF Usernames, Username, Created, Exists
  <2>5. NamesFilled'
    BY <2>2, <2>4 DEF Naming, NamesFilled, Username
  <2>6. 0 + Cardinality(Created) <= Cardinality(Created)
    BY <1>2
  <2> QED
    BY <2>1, <2>3, <2>4, <2>5, <2>6 DEF Naming, Name
<1>4. ASSUME NEW s \in Slots, ReadNames(s)
      PROVE  Naming'
  <2> DEFINE n == firstFreeUsername(req[s].base, Usernames)
  <2>1. req[s].pc = "name" /\ req[s].base \in Bases
    BY <1>4 DEF ReadNames, TypeInv, Underway
  <2>2. /\ n \in Suffixes /\ Text(req[s].base, n) \notin Usernames
        /\ \A m \in 1..(n - 1) : Text(req[s].base, m) \in Usernames
    BY <2>1, FirstFree
  <2> HIDE DEF n
  <2>3. /\ req' = [req EXCEPT ![s].pc = "insert", ![s].suffix = n,
                               ![s].seen = Cardinality(Created)]
        /\ user' = user
    BY <1>4 DEF ReadNames, n
  <2>4. /\ req'[s].pc = "insert" /\ req'[s].suffix = n /\ req'[s].seen = Cardinality(Created)
        /\ req'[s].base = req[s].base /\ req'[s].attempt = req[s].attempt
        /\ req'[s].since = req[s].since
        /\ \A t \in Slots \ {s} : req'[t] = req[t]
    BY <2>3 DEF TypeInv, TypeOK, Request
  <2>5. req[s].attempt + req[s].since <= Cardinality(Created)
    BY <2>1 DEF Naming
  <2>6. Usernames' = Usernames /\ Created' = Created
    BY <2>3 DEF Usernames, Username, Created, Exists
  <2>7. NamesFilled'
    BY <2>3, <2>6 DEF Naming, NamesFilled, Username
  <2> QED
    BY <1>2, <2>2, <2>4, <2>5, <2>6, <2>7 DEF Naming, Name
<1>5. ASSUME NEW s \in Slots, NameTaken(s)
      PROVE  Naming'
  <2>1. CASE req' = [req EXCEPT ![s].pc = "name", ![s].attempt = @ + 1]
    <3>1. req[s].pc = "insert" /\ Name(s) \in Usernames /\ user' = user
      BY <1>5 DEF NameTaken
    <3>2. /\ req'[s].pc = "name" /\ req'[s].attempt = req[s].attempt + 1
          /\ req'[s].since = req[s].since
          /\ \A t \in Slots \ {s} : req'[t] = req[t]
      BY <2>1 DEF TypeInv, TypeOK, Request
    <3>3. /\ req[s].attempt + req[s].since <= req[s].seen
          /\ req[s].seen < Cardinality(Created)
      BY <3>1 DEF Naming
    <3>4. req[s].attempt \in Int /\ req[s].since \in Int /\ req[s].seen \in Int
      BY AttemptsAssumption DEF TypeInv, TypeOK, Request
    <3>5. req'[s].attempt + req'[s].since <= Cardinality(Created)
      BY <1>2, <3>2, <3>3, <3>4
    <3>6. Usernames' = Usernames /\ Created' = Created
      BY <3>1 DEF Usernames, Username, Created, Exists
    <3>7. NamesFilled'
      BY <3>1, <3>6 DEF Naming, NamesFilled, Username
    <3> QED
      BY <3>2, <3>5, <3>6, <3>7 DEF Naming, Name
  <2>2. CASE Return(s)
    <3>1. Created' = Created
      BY <1>5 DEF NameTaken, Created, Exists
    <3>2. \A t \in Slots : req'[t].pc = "idle" \/ req'[t] = req[t]
      BY <2>2 DEF Return, Idle, TypeInv, TypeOK
    <3> QED
      BY <3>1, <3>2, NamingKept DEF SameBut
  <2> QED
    BY <1>5, <2>1, <2>2 DEF NameTaken
<1>6. ASSUME NEW s \in Slots, \/ \E u \in UserIds, R \in RoleSets : StartSetRoles(s, u, R)
                              \/ DeleteRoles(s) \/ PutRoles(s) \/ RoleTaken(s) \/ Fail(s)
      PROVE  Naming'
  <2>1. user' = user
    BY <1>6 DEF StartSetRoles, DeleteRoles, PutRoles, RoleTaken, Fail
  <2>2. ASSUME NEW t \in Slots
        PROVE  req'[t].pc \notin {"name", "insert"} \/ SameBut(req'[t], req[t])
    <3>1. CASE PutRoles(s)
      BY <3>1, PutOthers DEF TypeInv
    <3>2. CASE RoleTaken(s) \/ Fail(s)
      BY <3>2 DEF RoleTaken, Fail, Return, Idle, TypeInv, TypeOK, SameBut
    <3>3. CASE DeleteRoles(s)
      BY <3>3 DEF DeleteRoles, TypeInv, TypeOK, SameBut, Request
    <3>4. ASSUME NEW u \in UserIds, NEW R \in RoleSets, StartSetRoles(s, u, R)
          PROVE  req'[t].pc = "delete" \/ req'[t] = req[t]
      BY <3>4 DEF StartSetRoles, Idle, TypeInv, TypeOK
    <3> QED
      BY <1>6, <3>1, <3>2, <3>3, <3>4 DEF SameBut
  <2> QED
    BY <2>1, <2>2, NamingKept DEF Created, Exists
<1>7. ASSUME NEW u \in UserIds, SetStatus(u)
      PROVE  Naming'
  <2>1. PICK state \in {"active", "disabled"} : user' = [user EXCEPT ![u].state = state]
    BY <1>7 DEF SetStatus
  <2>2. Created' = Created
    BY <1>7, <2>1 DEF SetStatus, Created, Exists, TypeInv, TypeOK, Row
  <2> QED
    BY <1>7, <2>2, NamingKept DEF SetStatus, SameBut
<1>8. CASE UNCHANGED userVars
  BY <1>8, NamingKept DEF userVars, Created, Exists, SameBut
<1>9. CASE Restart
  BY <1>9, NamingKept DEF Restart, Idle, Created, Exists
<1> QED
  BY <1>3, <1>4, <1>5, <1>6, <1>7, <1>8, <1>9, NamingInsert DEF Next, UserNext, UserStep

LEMMA AuthIsUsers == [AuthNext]_vars => [Next]_userVars
BY DEF AuthNext, SessionNext, Next, vars, ClientStep, Login, Logout, Refresh, StoreToken,
   ReadUser, FailCall, Expire, Crash, Tick

LEMMA NamingInit == AuthInit => Naming
BY CreatedFinite DEF AuthInit, Init, Naming, NamesFilled, Created, Exists, NoRow, Idle

\* However creations overlap, usernames are unique and a suffix is only in use
\* when all smaller ones of the base are: the first free name was taken.
THEOREM NamesFirstFree == AuthSpec => []NamesFilled
<1>1. AuthInit => TypeInv /\ Session /\ Naming
  BY TypedInit, NamingInit
<1>2. (TypeInv /\ Session /\ Naming) /\ [AuthNext]_vars => (TypeInv /\ Session /\ Naming)'
  BY Typed, NamingStep, AuthIsUsers
<1>3. TypeInv /\ Session /\ Naming => NamesFilled
  BY DEF Naming
<1> QED
  BY <1>1, <1>2, <1>3, PTL DEF AuthSpec

\* Every attempt a creation lost is a user created since it began.
THEOREM AttemptsLost == AuthSpec => []LostToOthers
<1>1. AuthInit => TypeInv /\ Session /\ Naming
  BY TypedInit, NamingInit
<1>2. (TypeInv /\ Session /\ Naming) /\ [AuthNext]_vars => (TypeInv /\ Session /\ Naming)'
  BY Typed, NamingStep, AuthIsUsers
<1>3. TypeInv /\ Session /\ Naming => LostToOthers
  BY DEF Naming, LostToOthers
<1> QED
  BY <1>1, <1>2, <1>3, PTL DEF AuthSpec

-----------------------------------------------------------------------------
\* A replacement under way deletes all the roles the user has, and what a user
\* has it was given as a whole.
Replacing ==
    /\ RolesAsAsked
    /\ \A s \in Slots : req[s].pc \in {"delete", "put"} => req[s].gone = roles[req[s].id]
    /\ \A u \in Created : roles[u] \in given[u]

\* A step that changes no role and of the requests only their ends.
LEMMA ReplacingKept ==
    ASSUME TypeInv, Replacing, UNCHANGED <<roles, asked, given>>, Created' \subseteq Created,
           \A t \in Slots : \/ req'[t].pc \notin {"delete", "put"}
                            \/ req'[t].id = req[t].id /\ req'[t].gone = req[t].gone
                                /\ req[t].pc \in {"delete", "put"}
    PROVE  Replacing'
BY DEF Replacing, RolesAsAsked

\* A replacement and a creation give a user exactly what was asked for.
LEMMA ReplacingGive ==
    ASSUME TypeInv, Replacing, NEW s \in Slots, NEW u \in UserIds, Give(s, u),
           roles' = [roles EXCEPT ![u] = req[s].want], Created' \subseteq Created \cup {u},
           \A t \in Slots : req'[t].pc \in {"delete", "put"} =>
              /\ req[t].pc \in {"delete", "put"} /\ req[t].id # u
              /\ req'[t].id = req[t].id /\ req'[t].gone = req[t].gone
    PROVE  Replacing'
<1>1. /\ roles'[u] = req[s].want /\ asked'[u] = req[s].want
      /\ given'[u] = given[u] \cup {req[s].want}
      /\ \A v \in UserIds \ {u} : roles'[v] = roles[v] /\ given'[v] = given[v]
  BY DEF Give, TypeInv, TypeOK
<1>2. RolesAsAsked'
  BY DEF Give, Replacing, RolesAsAsked
<1>3. ASSUME NEW t \in Slots, req'[t].pc \in {"delete", "put"}
      PROVE  req'[t].gone = roles'[req'[t].id]
  BY <1>1, <1>3 DEF Replacing, TypeInv, Underway, Created
<1>4. ASSUME NEW v \in Created'
      PROVE  roles'[v] \in given'[v]
  BY <1>1, <1>4 DEF Replacing, Created
<1> QED
  BY <1>2, <1>3, <1>4 DEF Replacing

LEMMA ReplacingStep ==
    ASSUME OneSetter, TypeInv, Replacing, [Next]_userVars
    PROVE  Replacing'
<1>1. \A s, t \in Slots : req[s].pc \in {"delete", "put"} /\ req[t].pc \in {"delete", "put"} => s = t
  BY DEF OneSetter, AtMostOne, TypeInv, Underway
<1>2. ASSUME NEW s \in Slots, NEW b \in Bases, NEW R \in RoleSets, StartCreate(s, b, R)
      PROVE  Replacing'
  <2>1. \A t \in Slots : req'[t].pc = "name" \/ req'[t] = req[t]
    BY <1>2 DEF StartCreate, Idle, TypeInv, TypeOK
  <2> QED
    BY <1>2, <2>1, ReplacingKept DEF StartCreate, Created, Exists
<1>3. ASSUME NEW s \in Slots, ReadNames(s)
      PROVE  Replacing'
  <2>1. \A t \in Slots : req'[t].pc = "insert" \/ req'[t] = req[t]
    BY <1>3 DEF ReadNames, TypeInv, TypeOK, Request
  <2> QED
    BY <1>3, <2>1, ReplacingKept DEF ReadNames, Created, Exists
<1>4. ASSUME NEW s \in Slots, NEW u \in UserIds, InsertUser(s, u)
      PROVE  Replacing'
  <2>1. \A t \in Slots : req'[t].pc = "idle" \/ req'[t] = req[t]
    BY <1>4 DEF InsertUser, Return, Idle, TypeInv, TypeOK
  <2>2. Created' \subseteq Created \cup {u} /\ u \notin Created
    BY <1>4 DEF InsertUser, Created, Exists, TypeInv, TypeOK
  <2>3. \A t \in Slots : req[t].pc \in {"delete", "put"} => req[t].id # u
    BY <2>2 DEF TypeInv, Underway
  <2> QED
    BY <1>4, <2>1, <2>2, <2>3, ReplacingGive DEF InsertUser
<1>5. ASSUME NEW s \in Slots, NameTaken(s)
      PROVE  Replacing'
  <2>1. \A t \in Slots : req'[t].pc \in {"idle", "name"} \/ req'[t] = req[t]
    BY <1>5 DEF NameTaken, Return, Idle, TypeInv, TypeOK, Request
  <2> QED
    BY <1>5, <2>1, ReplacingKept DEF NameTaken, Created, Exists
<1>6. ASSUME NEW s \in Slots, NEW u \in UserIds, NEW R \in RoleSets, StartSetRoles(s, u, R)
      PROVE  Replacing'
  <2>1. \A t \in Slots : (req'[t].id = u /\ req'[t].gone = roles[u]) \/ req'[t] = req[t]
    BY <1>6 DEF StartSetRoles, Idle, TypeInv, TypeOK
  <2> QED
    BY <1>6, <2>1 DEF StartSetRoles, Replacing, RolesAsAsked, Created, Exists
<1>7. ASSUME NEW s \in Slots, DeleteRoles(s)
      PROVE  Replacing'
  <2>1. \A t \in Slots : \/ req'[t] = req[t]
                         \/ /\ req[t].pc = "delete"
                            /\ req'[t].id = req[t].id /\ req'[t].gone = req[t].gone
    BY <1>7 DEF DeleteRoles, TypeInv, TypeOK, Request
  <2> QED
    BY <1>7, <2>1, ReplacingKept DEF DeleteRoles, Created, Exists
<1>8. ASSUME NEW s \in Slots, PutRoles(s)
      PROVE  Replacing'
  <2>1. req[s].pc = "put" /\ req[s].id \in UserIds /\ req[s].gone = roles[req[s].id]
    BY <1>8 DEF PutRoles, TypeInv, Underway, Created, Replacing
  <2>2. Left(s) \cup req[s].want = req[s].want
    BY <2>1 DEF Left
  <2>3. roles' = [roles EXCEPT ![req[s].id] = req[s].want] /\ Give(s, req[s].id) /\ user' = user
    BY <1>8, <2>2 DEF PutRoles
  <2>4. \A t \in Slots : req'[t].pc \notin {"delete", "put"}
    BY <1>1, <1>8, <2>1, PutOthers DEF SameBut, TypeInv
  <2> QED
    BY <2>1, <2>3, <2>4, ReplacingGive DEF Created, Exists
<1>9. ASSUME NEW s \in Slots, RoleTaken(s) \/ Fail(s)
      PROVE  Replacing'
  <2>1. \A t \in Slots : req'[t].pc = "idle" \/ req'[t] = req[t]
    BY <1>9 DEF RoleTaken, Fail, Return, Idle, TypeInv, TypeOK
  <2> QED
    BY <1>9, <2>1, ReplacingKept DEF RoleTaken, Fail, Created, Exists
<1>10. ASSUME NEW u \in UserIds, SetStatus(u)
       PROVE  Replacing'
  <2>1. Created' \subseteq Created
    BY <1>10 DEF SetStatus, Created, Exists, TypeInv, TypeOK
  <2> QED
    BY <1>10, <2>1, ReplacingKept DEF SetStatus
<1>11. CASE UNCHANGED userVars
  BY <1>11, ReplacingKept DEF userVars, Created, Exists
<1>12. CASE Restart
  BY <1>12, ReplacingKept DEF Restart, Idle, Created, Exists
<1> QED
  BY <1>2, <1>3, <1>4, <1>5, <1>6, <1>7, <1>8, <1>9, <1>10, <1>11, <1>12
  DEF Next, UserNext, UserStep

LEMMA ReplacingInit == AuthInit => Replacing
BY DEF AuthInit, Init, Replacing, RolesAsAsked, Created, Exists, NoRow, Idle

\* With one replacement at a time a user has exactly the roles last asked for.
THEOREM RolesReplaced ==
    ASSUME OneSetter
    PROVE  AuthSpec => []RolesAsAsked
<1>1. AuthInit => TypeInv /\ Session /\ Replacing
  BY TypedInit, ReplacingInit
<1>2. (TypeInv /\ Session /\ Replacing) /\ [AuthNext]_vars
         => (TypeInv /\ Session /\ Replacing)'
  BY Typed, ReplacingStep, AuthIsUsers
<1>3. TypeInv /\ Session /\ Replacing => RolesAsAsked
  BY DEF Replacing
<1> QED
  BY <1>1, <1>2, <1>3, PTL DEF AuthSpec

-----------------------------------------------------------------------------
\* The roles read for a token are a set its user was given, and stay so.
ClaimsGiven ==
    /\ ClaimsWhole
    /\ \A c \in Clients : call[c].pc = "store" => call[c].roles \in given[call[c].user]

LEMMA GivenGrows ==
    ASSUME TypeInv, [Next]_userVars, NEW u \in UserIds
    PROVE  given[u] \subseteq given'[u]
<1>1. ASSUME NEW s \in Slots, NEW v, Give(s, v)
      PROVE  given[u] \subseteq given'[u]
  BY <1>1 DEF Give, TypeInv, TypeOK
<1>2. given' = given \/ \E s \in Slots : \E v : Give(s, v)
  <2>1. ASSUME NEW s \in Slots, UserStep(s)
        PROVE  given' = given \/ \E v : Give(s, v)
    BY <2>1 DEF UserStep, StartCreate, ReadNames, InsertUser, NameTaken, StartSetRoles,
       DeleteRoles, PutRoles, RoleTaken, Fail
  <2> QED
    BY <2>1 DEF Next, UserNext, SetStatus, Restart, userVars
<1> QED
  BY <1>1, <1>2

LEMMA ClaimsStep ==
    ASSUME TypeInv, Session, Replacing, ClaimsGiven, [AuthNext]_vars
    PROVE  ClaimsGiven'
<1> USE DEF ClaimsGiven, ClaimsWhole, Signed
<1>1. CASE UNCHANGED sessionVars
  <2>1. \A u \in UserIds : given[u] \subseteq given'[u]
    BY GivenGrows, AuthIsUsers
  <2>2. \A j \in Jtis : Signed(j) => token[j].user \in UserIds
    BY DEF Session, Token
  <2>3. \A c \in Clients : call[c].pc = "store" => call[c].user \in UserIds
    BY DEF Session
  <2> QED
    BY <1>1, <2>1, <2>2, <2>3 DEF sessionVars
<1>2. ASSUME NEW u \in UserIds, Expire(u)
      PROVE  ClaimsGiven'
  BY <1>2 DEF Expire, userVars
<1>3. ASSUME NEW c \in Clients, NEW u \in UserIds, Logout(c, u)
      PROVE  ClaimsGiven'
  BY <1>3 DEF Logout, userVars
<1>4. ASSUME NEW c \in Clients, UNCHANGED <<token, given>>,
             \A d \in Clients : \/ call'[d].pc # "store" \/ call'[d] = call[d]
                               \/ call'[d].roles \in given[call'[d].user]
      PROVE  ClaimsGiven'
  BY <1>4
<1>5. ASSUME NEW c \in Clients, NEW u \in UserIds, Login(c, u)
      PROVE  ClaimsGiven'
  <2>1. roles[u] \in given[u]
    BY <1>5 DEF Login, Replacing, Created, Exists
  <2> DEFINE r == [Quiet EXCEPT !.pc = "store", !.user = u, !.roles = roles[u]]
  <2>2. r.roles \in given[r.user]
    BY <2>1 DEF Quiet
  <2> HIDE DEF r
  <2>3. \A d \in Clients : call'[d] = call[d] \/ call'[d] = r
    BY <1>5 DEF Login, Session, r
  <2>4. UNCHANGED <<token, given>>
    BY <1>5 DEF Login, userVars
  <2> QED
    BY <1>4, <2>2, <2>3, <2>4
<1>6. ASSUME NEW c \in Clients, NEW j \in Jtis, Refresh(c, j)
      PROVE  ClaimsGiven'
  <2>1. \A d \in Clients : call'[d] = call[d] \/ call'[d].pc = "user"
    BY <1>6 DEF Refresh, Session, Quiet
  <2> QED
    BY <1>4, <1>6, <2>1 DEF Refresh, userVars
<1>7. ASSUME NEW c \in Clients, Answer(c), UNCHANGED <<token, given>>
      PROVE  ClaimsGiven'
  <2>1. \A d \in Clients : call'[d] = call[d] \/ call'[d].pc = "idle"
    BY <1>7 DEF Answer, Session, Quiet
  <2> QED
    BY <1>4, <1>7, <2>1
<1>8. ASSUME NEW c \in Clients, ReadUser(c)
      PROVE  ClaimsGiven'
  <2>1. CASE /\ user[call[c].user].state = "active"
             /\ call' = [call EXCEPT ![c].pc = "store", ![c].roles = roles[call[c].user]]
    <3>1. roles[call[c].user] \in given[call[c].user]
      BY <1>8, <2>1 DEF ReadUser, Session, Replacing, Created, Exists
    <3>2. \A d \in Clients : \/ call'[d] = call[d]
                            \/ /\ call'[d].roles = roles[call[c].user]
                               /\ call'[d].user = call[c].user
      BY <2>1 DEF Session, Call
    <3> QED
      BY <1>4, <1>8, <3>1, <3>2 DEF ReadUser, userVars
  <2> QED
    BY <1>7, <1>8, <2>1 DEF ReadUser, userVars
<1>9. ASSUME NEW c \in Clients, NEW j \in Jtis, StoreToken(c, j)
      PROVE  ClaimsGiven'
  <2>1. /\ call[c].pc = "store" /\ given' = given
        /\ token' = [token EXCEPT ![j] = [user |-> call[c].user, roles |-> call[c].roles,
                                            left |-> Ttl]]
        /\ call' = [call EXCEPT ![c] = Quiet]
    BY <1>9 DEF StoreToken, Answer, userVars
  <2> DEFINE r == [user |-> call[c].user, roles |-> call[c].roles, left |-> Ttl]
  <2>2. r.user = call[c].user /\ r.roles = call[c].roles
    OBVIOUS
  <2>3. call[c].roles \in given[call[c].user]
    BY <2>1
  <2> HIDE DEF r
  <2>4. \A i \in Jtis : token'[i] = token[i] \/ token'[i] = r
    BY <2>1 DEF Session, r
  <2>5. \A d \in Clients : call'[d] = call[d] \/ call'[d].pc = "idle"
    BY <2>1 DEF Session, Quiet
  <2> QED
    BY <2>1, <2>2, <2>3, <2>4, <2>5
<1>10. ASSUME NEW c \in Clients, ClientStep(c)
       PROVE  ClaimsGiven'
  BY <1>3, <1>5, <1>6, <1>7, <1>8, <1>9, <1>10 DEF ClientStep, FailCall, userVars
<1>11. CASE Crash
  BY <1>11 DEF Crash, Restart, Quiet
<1>12. CASE Tick
  BY <1>12, TickKeeps DEF userVars
<1> QED
  BY <1>1, <1>2, <1>10, <1>11, <1>12 DEF AuthNext, SessionNext, vars, sessionVars

\* With one replacement of roles at a time every token signed carries a set of
\* roles its user was given as a whole, never part of two.
THEOREM RolesWhole ==
    ASSUME OneSetter
    PROVE  AuthSpec => []ClaimsWhole
<1> DEFINE WInv == TypeInv /\ Session /\ Replacing /\ ClaimsGiven
<1>1. AuthInit => WInv
  BY TypedInit, ReplacingInit
  DEF AuthInit, ClaimsGiven, ClaimsWhole, Signed, NoToken, Quiet
<1>2. WInv /\ [AuthNext]_vars => WInv'
  BY Typed, ReplacingStep, ClaimsStep, AuthIsUsers
<1>3. WInv => ClaimsWhole
  BY DEF ClaimsGiven
<1> QED
  BY <1>1, <1>2, <1>3, PTL DEF AuthSpec

-----------------------------------------------------------------------------
\* What a user holds has not lapsed at all; what a call has read, for as long as
\* the call is under way at most; and what a token says, for that and for as long
\* as the token is about.
Lapses ==
    /\ \A u \in UserIds, R \in SUBSET RoleKeys : Holds(u, R) => lapse[u][R] = 0
    /\ \A c \in Clients : call[c].pc = "store" =>
          lapse[call[c].user][call[c].roles] <= call[c].age
    /\ \A j \in Jtis : Valid(j) =>
          lapse[token[j].user][token[j].roles] + token[j].left <= Ttl + Flight

\* Without the clock nothing lapses further, with it all by one tick at most.
LEMMA LapseStep ==
    ASSUME Session, [AuthNext]_vars, NEW u \in UserIds, NEW R \in SUBSET RoleKeys
    PROVE  /\ lapse[u][R] \in Nat /\ lapse'[u][R] \in Nat
           /\ ~Tick => lapse'[u][R] <= lapse[u][R]
           /\ lapse'[u][R] <= lapse[u][R] + 1
           /\ ~UNCHANGED vars /\ Holds(u, R)' => lapse'[u][R] = 0
<1>1. lapse[u][R] \in Nat /\ lapse'[u][R] \in Nat
  <2>1. /\ lapse \in [UserIds -> [SUBSET RoleKeys -> 0..(Ttl + Flight)]]
        /\ lapse' \in [UserIds -> [SUBSET RoleKeys -> 0..(Ttl + Flight)]]
    BY LapseTyped DEF Session
  <2> QED
    BY <2>1, ClockAssumption
<1>2. CASE Lapsing(lapse)
  <2>1. lapse'[u][R] = IF Holds(u, R)' THEN 0 ELSE lapse[u][R]
    BY <1>2 DEF Lapsing
  <2> QED
    BY <1>1, <2>1
<1>3. CASE Tick
  <2>1. lapse'[u][R] = IF Holds(u, R)' THEN 0 ELSE Longer(lapse[u][R])
    BY <1>3 DEF Tick, Lapsing
  <2> QED
    BY <1>1, <1>3, <2>1 DEF Longer
<1>4. CASE UNCHANGED vars
  BY <1>1, <1>4 DEF vars
<1> QED
  BY <1>2, <1>3, <1>4 DEF AuthNext

\* What the user of a call that reads or has read its roles holds then.
LEMMA ReadsHeld ==
    ASSUME TypeInv, Session, Gone, NEW c \in Clients,
           (\E u \in UserIds : Login(c, u)) \/ ReadUser(c), call'[c].pc = "store"
    PROVE  Holds(call[c].user, call[c].roles)'
<1>1. ASSUME NEW u \in UserIds, Login(c, u)
      PROVE  Holds(call[c].user, call[c].roles)'
  <2> DEFINE r == [Quiet EXCEPT !.pc = "store", !.user = u, !.roles = roles[u]]
  <2>1. call' = [call EXCEPT ![c] = r] /\ UNCHANGED userVars /\ user[u].state = "active"
    BY <1>1 DEF Login
  <2>2. r.user = u /\ r.roles = roles[u] /\ r.from = None
    BY DEF Quiet
  <2> HIDE DEF r
  <2>3. call'[c] = r
    BY <2>1 DEF Session
  <2> QED
    BY <2>1, <2>2, <2>3 DEF Holds, userVars
<1>2. CASE ReadUser(c)
  <2> DEFINE u == call[c].user
  <2>1. call[c].pc = "user" /\ u \in UserIds /\ call[c].from # None
    BY <1>2, JtisAssumption DEF ReadUser, Session
  <2>2. ~Answer(c)
    BY DEF Answer, Session, Quiet
  <2>3. /\ user[u].state = "active" /\ UNCHANGED <<userVars, on>>
        /\ call' = [call EXCEPT ![c].pc = "store", ![c].roles = roles[u]]
    BY <1>2, <2>2 DEF ReadUser
  <2>4. call'[c].user = u /\ call'[c].roles = roles[u]
    <3>1. call[c] \in Call
      BY DEF Session
    <3> QED
      BY <2>3, <3>1 DEF Session, Call
  <2>5. u \in on
    BY <2>1 DEF Gone
  <2> QED
    BY <2>3, <2>4, <2>5 DEF Holds, userVars
<1> QED
  BY <1>1, <1>2

LEMMA LapsesStep ==
    ASSUME TypeInv, Session, Gone, Lapses, [AuthNext]_vars
    PROVE  Lapses'
<1>1. Session'
  BY Typed
<1>2. CASE UNCHANGED vars
  BY <1>2 DEF vars, userVars, sessionVars, Lapses, Holds, Valid, Signed
<1>3. ASSUME ~UNCHANGED vars, NEW u \in UserIds, NEW R \in SUBSET RoleKeys, Holds(u, R)'
      PROVE  lapse'[u][R] = 0
  BY <1>3, LapseStep
<1>4. ASSUME ~UNCHANGED vars, NEW c \in Clients, call'[c].pc = "store"
      PROVE  lapse'[call'[c].user][call'[c].roles] <= call'[c].age
  <2>1. /\ call'[c].user \in UserIds /\ call'[c].roles \in SUBSET RoleKeys
        /\ call'[c].age \in Nat
    <3>1. call'[c] \in Call /\ call'[c].user \in UserIds
      BY <1>1, <1>4 DEF Session
    <3> QED
      BY <3>1, ClockAssumption DEF Call
  <2>2. CASE call'[c] = call[c] /\ ~Tick
    BY <1>4, <2>1, <2>2, LapseStep DEF Lapses
  <2>3. CASE Tick
    <3>1. /\ call[c].pc = "store" /\ call'[c].user = call[c].user
          /\ call'[c].roles = call[c].roles /\ call'[c].age = call[c].age + 1
      BY <1>4, <2>3, TickKeeps
    <3>2. call[c].age \in Int
      BY ClockAssumption DEF Session, Call
    <3>3. lapse[call[c].user][call[c].roles] <= call[c].age
      BY <3>1 DEF Lapses
    <3>4. /\ lapse[call[c].user][call[c].roles] \in Nat
          /\ lapse'[call[c].user][call[c].roles] \in Nat
          /\ lapse'[call[c].user][call[c].roles] <= lapse[call[c].user][call[c].roles] + 1
      BY <2>1, <3>1, LapseStep
    <3> QED
      BY <3>1, <3>2, <3>3, <3>4
  <2>4. CASE (\E u \in UserIds : Login(c, u)) \/ ReadUser(c)
    BY <1>4, <2>1, <2>4, LapseStep, ReadsHeld
  <2>5. \/ call'[c] = call[c] \/ Tick
        \/ (\E u \in UserIds : Login(c, u)) \/ ReadUser(c)
    <3>1. CASE Crash
      BY <1>4, <3>1 DEF Crash, Quiet
    <3>2. CASE UNCHANGED sessionVars
      BY <3>2 DEF sessionVars
    <3>3. ASSUME NEW u \in UserIds, Expire(u)
          PROVE  call'[c] = call[c]
      BY <3>3 DEF Expire
    <3>4. ASSUME NEW d \in Clients, ClientStep(d)
          PROVE  \/ call'[c] = call[c]
                 \/ (\E u \in UserIds : Login(c, u)) \/ ReadUser(c)
      <4>1. CASE d # c
        <5>1. \/ call' = call \/ \E r : call' = [call EXCEPT ![d] = r]
          BY <3>4 DEF ClientStep, Login, Logout, Refresh, StoreToken, FailCall, Answer, ReadUser
        <5> QED
          BY <4>1, <5>1 DEF Session
      <4>2. CASE d = c
        <5>1. ASSUME Answer(c) PROVE FALSE
          BY <1>4, <5>1 DEF Answer, Session, Quiet
        <5>2. ASSUME NEW j \in Jtis, Refresh(c, j) PROVE FALSE
          BY <1>4, <5>2 DEF Refresh, Session, Quiet
        <5> QED
          BY <3>4, <4>2, <5>1, <5>2 DEF ClientStep, Logout, StoreToken, FailCall
      <4> QED
        BY <4>1, <4>2
    <3> QED
      BY <1>4, <3>1, <3>2, <3>3, <3>4 DEF AuthNext, SessionNext
  <2> QED
    BY <2>2, <2>3, <2>4, <2>5
<1>5. ASSUME ~UNCHANGED vars, NEW j \in Jtis, Valid(j)'
      PROVE  lapse'[token'[j].user][token'[j].roles] + token'[j].left <= Ttl + Flight
  <2>1. /\ token'[j].left \in 0..Ttl /\ token'[j].roles \in SUBSET RoleKeys
        /\ token[j].left \in 0..Ttl
    BY <1>1 DEF Session, Token
  <2>2. ASSUME token[j].user = token'[j].user, token[j].roles = token'[j].roles,
               Valid(j)
        PROVE  /\ token'[j].user \in UserIds
               /\ lapse[token'[j].user][token'[j].roles] + token[j].left <= Ttl + Flight
    BY <1>1, <2>2 DEF Lapses, Signed, Session, Token
  <2>3. CASE token'[j] = token[j] /\ ~Tick
    BY <2>1, <2>2, <2>3, <1>5, LapseStep, ClockAssumption DEF Valid
  <2>4. CASE Tick
    <3>1. /\ token[j].user = token'[j].user /\ token[j].roles = token'[j].roles
          /\ token'[j].left = token[j].left - 1 /\ Valid(j)
      BY <1>5, <2>1, <2>4, TickKeeps DEF Valid, Less
    <3> QED
      BY <2>1, <2>2, <3>1, LapseStep, ClockAssumption
  <2>5. ASSUME NEW c \in Clients, StoreToken(c, j)
        PROVE  lapse'[token'[j].user][token'[j].roles] + token'[j].left <= Ttl + Flight
    <3> DEFINE t == [user |-> call[c].user, roles |-> call[c].roles, left |-> Ttl]
    <3>1. call[c].pc = "store" /\ token' = [token EXCEPT ![j] = t]
      BY <2>5 DEF StoreToken
    <3>2. token'[j].user = call[c].user /\ token'[j].roles = call[c].roles /\ token'[j].left = Ttl
      BY <3>1 DEF Session
    <3>3. call[c].user \in UserIds /\ call[c].roles \in SUBSET RoleKeys /\ call[c].age \in 0..Flight
      BY <3>1 DEF Session, Call
    <3>4. lapse[call[c].user][call[c].roles] <= call[c].age
      BY <3>1 DEF Lapses
    <3>5. ~Tick
      BY <3>1, <3>2, <2>5, TickKeeps DEF StoreToken, Tick, Answer, Quiet, Session, Signed
    <3> QED
      BY <3>2, <3>3, <3>4, <3>5, LapseStep, ClockAssumption
  <2>6. token'[j] = token[j] \/ Tick \/ \E c \in Clients : StoreToken(c, j)
    <3>1. CASE Crash \/ UNCHANGED sessionVars
      BY <3>1 DEF Crash, sessionVars
    <3>2. ASSUME NEW u \in UserIds, Expire(u)
          PROVE  token'[j] = token[j]
      BY <3>2 DEF Expire
    <3>3. ASSUME NEW c \in Clients, ClientStep(c)
          PROVE  token'[j] = token[j] \/ StoreToken(c, j)
      <4>1. ASSUME NEW i \in Jtis, StoreToken(c, i), i # j
            PROVE  token'[j] = token[j]
        BY <4>1 DEF StoreToken, Session
      <4> QED
        BY <3>3, <4>1 DEF ClientStep, Login, Logout, Refresh, ReadUser, FailCall
    <3> QED
      BY <1>5, <3>1, <3>2, <3>3 DEF AuthNext, SessionNext
  <2> QED
    BY <2>3, <2>4, <2>5, <2>6
<1> QED
  BY <1>2, <1>3, <1>4, <1>5 DEF Lapses

LEMMA LapsesInit == AuthInit => Lapses
<1> SUFFICES ASSUME AuthInit PROVE Lapses
  OBVIOUS
<1>1. \A u \in UserIds : \A R : ~Holds(u, R)
  BY DEF AuthInit, Init, Holds, NoRow
<1>2. \A c \in Clients : call[c].pc = "idle"
  BY DEF AuthInit, Quiet
<1>3. \A j \in Jtis : ~Valid(j)
  BY DEF AuthInit, Valid, NoToken
<1> QED
  BY <1>1, <1>2, <1>3 DEF Lapses

LEMMA LapsesInvariant ==
    ASSUME OneSession
    PROVE  AuthSpec => [](TypeInv /\ Session /\ Lapses)
<1> DEFINE LInv == KeysInv /\ Gone /\ Lapses
<1>1. AuthInit => LInv
  BY TypedInit, KeysInit, LapsesInit DEF KeysInv, AuthInit, Gone, Quiet
<1>2. LInv /\ [AuthNext]_vars => LInv'
  BY KeysStep, GoneStep, LapsesStep, OneSessionRefresher DEF KeysInv
<1>3. LInv => TypeInv /\ Session /\ Lapses
  BY DEF KeysInv
<1> QED
  BY <1>1, <1>2, <1>3, PTL DEF AuthSpec
=============================================================================
