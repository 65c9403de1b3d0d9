------------------------------- MODULE Access -------------------------------
(***************************************************************************)
(* The path of a request: the access token, the guard, the handler, the    *)
(* audit trail (rbac and audit around the directory's handlers), beside    *)
(* the sessions of Auth, which sign the tokens statement by statement.     *)
(* The row of the trail is sent off when the answer is made and nobody     *)
(* waits for it: it may land late, fail, or go with the process.           *)
(***************************************************************************)
EXTENDS Auth, Directory, Rbac

CONSTANT MaxChanges     \* bound on the changes of a behaviour

ASSUME RoleKeysAssumption == RoleKeys \subseteq RoleKey

VARIABLES who,       \* the claims of the request each handler serves
          writing,   \* rows sent off to the trail
          trail,     \* table AuditLog
          done,      \* the changes made (history)
          lost       \* the changes whose record was lost (history)

auditVars  == <<writing, trail, done, lost>>
accessVars == <<directoryVars, who, auditVars>>
allVars == <<vars, accessVars>>

-----------------------------------------------------------------------------
Claims == [user : UserIds, roles : SUBSET RoleKeys]
NoOne  == [user |-> None, roles |-> {}]

\* AuditEntity of each controller.
Entity == [clients |-> "Client", trucks |-> "Truck", workers |-> "Worker"]

\* A row of the trail: who did what to which row, and what the row was after.
Change == UNION {[actor : UserIds, entity : {Entity[base]}, id : RowsOf[base],
                  action : {"create", "update"},
                  after : [status : {"active", "off"}, key : KeysOf[base] \cup {None}]] :
                     base \in DOMAIN RowsOf}

AccessInit ==
    /\ AuthInit
    /\ DirectoryInit
    /\ who = [s \in Handlers |-> NoOne]
    /\ writing = {} /\ trail = {} /\ done = {} /\ lost = {}

-----------------------------------------------------------------------------
\* JwtAuthGuard and PoliciesGuard; what they turn away leaves no trace.

Admits(R, r) == \E route \in MasterRoutes :
    route.method = r.method /\ route.path = r.path /\ Passes(R, route)

Admit(s, j) ==
    /\ Admits(token[j].roles, edit'[s])
    /\ who' = [who EXCEPT ![s] = [user |-> token[j].user, roles |-> token[j].roles]]

Arrive(s, j) ==
    /\ Valid(j) /\ edit[s].pc = "idle"
    /\ Cardinality(done) + Cardinality({r \in Handlers : edit[r].pc # "idle"}) < MaxChanges
    /\ BeginAny(s)
    /\ Admit(s, j)
    /\ UNCHANGED <<vars, auditVars>>

\* AuditInterceptor.record, as to what the handler did.
ACTION_BY_METHOD == [POST |-> "create", PATCH |-> "update"]
Record(s, r) == [actor |-> who[s].user, entity |-> Entity[r.path[1]], id |-> r.id,
                 action |-> ACTION_BY_METHOD[r.method], after |-> r.cols]

\* The handler's statement commits ...
Commit(s) ==
    /\ Statement(s)
    /\ done' = done \cup {Record(s, edit'[s])}
    /\ UNCHANGED <<vars, who, writing, trail, lost>>

Dismiss(s) == who' = [who EXCEPT ![s] = NoOne]

Refuse(s) ==
    /\ KeyTaken(s)
    /\ Dismiss(s)
    /\ UNCHANGED <<vars, auditVars>>

\* Mutant of Reply: a PATCH is not among the methods recorded.
ReplyPosts(s) ==
    /\ edit[s].pc = "done"
    /\ writing' = writing \cup {Record(s, r) : r \in {q \in {edit[s]} : q.method = "POST"}}
    /\ EndEdit(s) /\ Dismiss(s)
    /\ UNCHANGED <<row, vars, trail, done, lost>>

\* ... it returns, its record is sent off and the answer goes out ...
Reply(s) ==
    /\ edit[s].pc = "done"
    /\ writing' = writing \cup {Record(s, edit[s])}
    /\ EndEdit(s) /\ Dismiss(s)
    /\ UNCHANGED <<row, vars, trail, done, lost>>

\* ... and the record lands, in whatever order.
Land(c) ==
    /\ c \in writing
    /\ writing' = writing \ {c}
    /\ trail' = trail \cup {c}
    /\ UNCHANGED <<directoryVars, vars, who, done, lost>>

-----------------------------------------------------------------------------
\* The insert of a record fails and is logged; a request fails before or after
\* its statement; the process dies with all that is under way.

Unrecorded(slots) == {Record(s, edit[s]) : s \in {r \in slots : edit[r].pc = "done"}}

Fault ==
    /\ \/ \E c \in writing :
             /\ writing' = writing \ {c}
             /\ lost' = lost \cup {c}
             /\ UNCHANGED <<edit, who>>
       \/ \E s \in Handlers :
             /\ edit[s].pc # "idle"
             /\ lost' = lost \cup Unrecorded({s})
             /\ EndEdit(s) /\ Dismiss(s)
             /\ UNCHANGED writing
    /\ UNCHANGED <<row, vars, trail, done>>

Die ==
    /\ Crash /\ Lapsing(lapse)
    /\ edit' = [s \in Handlers |-> NoEdit]
    /\ who' = [s \in Handlers |-> NoOne]
    /\ writing' = {}
    /\ lost' = lost \cup writing \cup Unrecorded(Handlers)
    /\ UNCHANGED <<row, trail, done>>

RequestNext ==
    \/ \E s \in Handlers : Commit(s) \/ Refuse(s) \/ Reply(s) \/ \E j \in Jtis : Arrive(s, j)
    \/ \E c \in writing : Land(c)
    \/ Fault

AccessNext ==
    \/ SessionNext /\ Lapsing(lapse) /\ UNCHANGED accessVars
    \/ Tick /\ UNCHANGED accessVars
    \/ RequestNext
    \/ Die

AccessSpec == AccessInit /\ [][AccessNext]_allVars

-----------------------------------------------------------------------------
\* Every variable holds a value of its type.
AccessOK ==
    /\ row \in [Ids -> MasterRow]
    /\ edit \in [Handlers -> Edit]
    /\ who \in [Handlers -> Claims \cup {NoOne}]
    /\ writing \subseteq Change /\ trail \subseteq Change
    /\ done \subseteq Change /\ lost \subseteq Change

\* Operations roles never receive money: what each token that is about may
\* call shows its holder no money field, unless it carries a financial role.
MoneyHidden == \A j \in Jtis : Signed(j) => ~\E leak \in Leaks : leak[1] = token[j].roles

\* The trade-off of stateless access tokens: with refreshes and logouts one at
\* a time, a request is admitted with claims its user held, active and logged in
\* or logging in, less than a token's lifetime and the duration of one call ago,
\* whether roles were taken away, the user was disabled or logged out since,
\* and whatever refresh or login read the roles while that happened.
PowersLapse == [][\A s \in Handlers : edit[s].pc = "idle" /\ edit'[s].pc # "idle" =>
    lapse[who'[s].user][who'[s].roles] < Ttl + Flight]_allVars

\* "Audit every create/update/delete": each change that is made has its record,
\* landed, under way or known to be lost, however requests overlap and fail;
\* the records of a changed row tell what now stands in it; and the trail tells
\* of nothing but changes that were made, by who made them.
TrailTells ==
    /\ trail \cup writing \cup lost \subseteq done
    /\ done \subseteq UNION {trail, writing, lost, Unrecorded(Handlers)}
    /\ \A i \in Ids : (\E c \in done : c.id = i) =>
          \E c \in done : c.id = i /\ c.after = row[i]
=============================================================================
