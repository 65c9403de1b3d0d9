------------------------------ MODULE Treasury ------------------------------
(***************************************************************************)
(* The treasury module (treasury.service.ts): accounts, the cash ledger    *)
(* and the handlers that post ledger entries for domain events.  No        *)
(* operation of the service opens a transaction, so each statement commits *)
(* by itself and others run in between.  Slots serve requests, one at a    *)
(* time; posters run autoPost, one event at a time.  How many posters      *)
(* there are says how many events can be under way at once.                *)
(***************************************************************************)
EXTENDS Integers, FiniteSets, FiniteSetsExt

CONSTANTS Slots, Duties, Posters,
          AccountIds, EntryIds,
          Sources,    \* (sourceType, sourceId) of the events that may arrive
          Flows,      \* amounts moved, with their direction: outflows below zero
          None        \* not a value of any other set

Kinds == {"createAccount", "updateAccount", "removeAccount",
          "createTransaction", "removeTransaction"}

ASSUME DutiesAssumption == Duties \in [Slots -> SUBSET Kinds]
ASSUME AccountsAssumption == IsFiniteSet(AccountIds)
ASSUME FlowsAssumption == Flows \subseteq Int
ASSUME NoneAssumption == None \notin AccountIds \cup EntryIds \cup Sources

VARIABLES account,  \* table BankAccount
          entry,    \* table Transaction
          req,      \* the request each slot serves
          post      \* the auto-post each poster runs

vars == <<account, entry, req, post>>

-----------------------------------------------------------------------------
\* Rows.  `born` is the rank of createdAt among all accounts ever created.

Account == [status : {"absent", "active", "disabled", "deleted"},
            isDefault : BOOLEAN, born : Nat]

Entry == [state : {"absent", "live", "deleted"},
          account : AccountIds \cup {None}, amount : Int, source : Sources \cup {None}]

Exists(a) == account[a].status \in {"active", "disabled"}
Accounts  == {a \in AccountIds : Exists(a)}
Active    == {a \in AccountIds : account[a].status = "active"}
Defaults  == {a \in Accounts : account[a].isDefault}

Live == {e \in EntryIds : entry[e].state = "live"}
EntriesOf(a) == {e \in Live : entry[e].account = a}
EntriesFor(src) == {e \in Live : entry[e].source = src}

NoAccount(status) == [status |-> status, isDefault |-> FALSE, born |-> 0]
NoEntry(state) == [state |-> state, account |-> None, amount |-> 0, source |-> None]

\* What a request holds between two statements: the account or entry it is
\* about, what its count found and the columns it is to write.
Request == [pc : {"idle", "insertAccount", "demote", "write", "count", "delete",
                  "insertEntry", "eraseEntry"},
            id : AccountIds \cup {None}, entry : EntryIds \cup {None}, first : BOOLEAN,
            amount : Int,
            isDefault : BOOLEAN \cup {None}, status : {"active", "disabled", None}]

Idle == [pc |-> "idle", id |-> None, entry |-> None, first |-> FALSE, amount |-> 0,
         isDefault |-> None, status |-> None]

Posting == [pc : {"idle", "dupe", "default", "fallback", "insert"},
            source : Sources \cup {None}, amount : Int, id : AccountIds \cup {None}]

Resting == [pc |-> "idle", source |-> None, amount |-> 0, id |-> None]

Serves(s, kind) == kind \in Duties[s] /\ req[s].pc = "idle"
Return(s) == req' = [req EXCEPT ![s] = Idle]
Rest(p)   == post' = [post EXCEPT ![p] = Resting]

Init ==
    /\ account = [a \in AccountIds |-> NoAccount("absent")]
    /\ entry = [e \in EntryIds |-> NoEntry("absent")]
    /\ req = [s \in Slots |-> Idle]
    /\ post = [p \in Posters |-> Resting]

-----------------------------------------------------------------------------
\* POST /treasury/accounts: a count, then the row; the first is the default.

\* Mutant of CountAccounts: only active accounts count.
CountActive(s) ==
    /\ Serves(s, "createAccount")
    /\ req' = [req EXCEPT ![s] = [Idle EXCEPT !.pc = "insertAccount",
                                              !.first = (Active = {})]]
    /\ UNCHANGED <<account, entry, post>>

CountAccounts(s) ==
    /\ Serves(s, "createAccount")
    /\ req' = [req EXCEPT ![s] = [Idle EXCEPT !.pc = "insertAccount",
                                              !.first = (Accounts = {})]]
    /\ UNCHANGED <<account, entry, post>>

InsertAccount(s, a) ==
    /\ req[s].pc = "insertAccount"
    /\ account[a].status = "absent"
    /\ account' = [account EXCEPT ![a] = [status |-> "active",
          isDefault |-> req[s].first,
          born |-> Cardinality({b \in AccountIds : account[b].status # "absent"})]]
    /\ Return(s)
    /\ UNCHANGED <<entry, post>>

-----------------------------------------------------------------------------
\* PATCH /treasury/accounts/:id: ensureAccount, the demotion of the other
\* defaults when this one is promoted, the write of the columns given.

StartUpdate(s, a, isDefault, status) ==
    /\ Serves(s, "updateAccount")
    /\ Exists(a)
    /\ req' = [req EXCEPT ![s] = [Idle EXCEPT
                  !.pc = IF isDefault = TRUE THEN "demote" ELSE "write",
                  !.id = a, !.isDefault = isDefault, !.status = status]]
    /\ UNCHANGED <<account, entry, post>>

DemoteOthers(s) ==
    /\ req[s].pc = "demote"
    /\ account' = [a \in AccountIds |->
          IF a # req[s].id THEN [account[a] EXCEPT !.isDefault = FALSE] ELSE account[a]]
    /\ req' = [req EXCEPT ![s].pc = "write"]
    /\ UNCHANGED <<entry, post>>

\* Mutant of WithColumns: a column not given is cleared.
AllColumns(row, r) == [row EXCEPT !.isDefault = r.isDefault, !.status = r.status]

\* The columns the request gives; None leaves the column as it is.
WithColumns(row, r) ==
    [row EXCEPT !.isDefault = IF r.isDefault = None THEN @ ELSE r.isDefault,
                !.status = IF r.status = None THEN @ ELSE r.status]

WriteAccount(s) == LET a == req[s].id IN
    /\ req[s].pc = "write"
    /\ account' = IF Exists(a) THEN [account EXCEPT ![a] = WithColumns(@, req[s])]
                               ELSE account        \* P2025
    /\ Return(s)
    /\ UNCHANGED <<entry, post>>

-----------------------------------------------------------------------------
\* DELETE /treasury/accounts/:id: ensureAccount, a count of its entries, the
\* delete.  The foreign key of Transaction cascades.

StartRemoveAccount(s, a) ==
    /\ Serves(s, "removeAccount")
    /\ Exists(a)
    /\ req' = [req EXCEPT ![s] = [Idle EXCEPT !.pc = "count", !.id = a]]
    /\ UNCHANGED <<account, entry, post>>

\* Mutant of CountEntries: only entries posted for an event count.
CountPosted(s) ==
    /\ req[s].pc = "count"
    /\ IF \E e \in EntriesOf(req[s].id) : entry[e].source # None
       THEN Return(s)
       ELSE req' = [req EXCEPT ![s].pc = "delete"]
    /\ UNCHANGED <<account, entry, post>>

CountEntries(s) ==
    /\ req[s].pc = "count"
    /\ IF EntriesOf(req[s].id) # {}
       THEN Return(s)                              \* 400
       ELSE req' = [req EXCEPT ![s].pc = "delete"]
    /\ UNCHANGED <<account, entry, post>>

DeleteAccount(s) == LET a == req[s].id IN
    /\ req[s].pc = "delete"
    /\ IF Exists(a)
       THEN /\ account' = [account EXCEPT ![a] = NoAccount("deleted")]
            /\ entry' = [e \in EntryIds |->
                  IF e \in EntriesOf(a) THEN NoEntry("deleted") ELSE entry[e]]
       ELSE UNCHANGED <<account, entry>>           \* P2025
    /\ Return(s)
    /\ UNCHANGED post

-----------------------------------------------------------------------------
\* POST and DELETE /treasury/transactions.

StartRecord(s, a, n) ==
    /\ Serves(s, "createTransaction")
    /\ Exists(a)
    /\ req' = [req EXCEPT ![s] = [Idle EXCEPT !.pc = "insertEntry", !.id = a, !.amount = n]]
    /\ UNCHANGED <<account, entry, post>>

Record(s, e) ==
    /\ req[s].pc = "insertEntry"
    /\ IF Exists(req[s].id)
       THEN /\ entry[e].state = "absent"
            /\ entry' = [entry EXCEPT ![e] =
                  [state |-> "live", account |-> req[s].id, amount |-> req[s].amount,
                   source |-> None]]
       ELSE UNCHANGED entry                        \* foreign key
    /\ Return(s)
    /\ UNCHANGED <<account, post>>

StartErase(s, e) ==
    /\ Serves(s, "removeTransaction")
    /\ e \in Live
    /\ req' = [req EXCEPT ![s] = [Idle EXCEPT !.pc = "eraseEntry", !.entry = e]]
    /\ UNCHANGED <<account, entry, post>>

Erase(s) == LET e == req[s].entry IN
    /\ req[s].pc = "eraseEntry"
    /\ entry' = IF e \in Live THEN [entry EXCEPT ![e] = NoEntry("deleted")]
                              ELSE entry           \* P2025
    /\ Return(s)
    /\ UNCHANGED <<account, post>>

-----------------------------------------------------------------------------
\* autoPost: look for an entry of the same source, find the account, insert.
\* Whatever throws is caught and logged.

Receive(p, src, n) ==
    /\ post[p].pc = "idle"
    /\ post' = [post EXCEPT ![p] = [Resting EXCEPT
                  !.pc = "dupe", !.source = src, !.amount = n]]
    /\ UNCHANGED <<account, entry, req>>

\* Mutant of FindDupe: only entries of active accounts are looked at.
FindActiveDupe(p) ==
    /\ post[p].pc = "dupe"
    /\ IF \E e \in EntriesFor(post[p].source) : entry[e].account \in Active
       THEN Rest(p)
       ELSE post' = [post EXCEPT ![p].pc = "default"]
    /\ UNCHANGED <<account, entry, req>>

FindDupe(p) ==
    /\ post[p].pc = "dupe"
    /\ IF EntriesFor(post[p].source) # {}
       THEN Rest(p)
       ELSE post' = [post EXCEPT ![p].pc = "default"]
    /\ UNCHANGED <<account, entry, req>>

\* Mutant of FindDefault: without a default there is no account.
DefaultOrNone(p) ==
    /\ post[p].pc = "default"
    /\ IF Defaults \cap Active = {}
       THEN Rest(p)
       ELSE \E a \in Defaults \cap Active :
               post' = [post EXCEPT ![p].pc = "insert", ![p].id = a]
    /\ UNCHANGED <<account, entry, req>>

\* defaultAccountId: an active default account ...
FindDefault(p) ==
    /\ post[p].pc = "default"
    /\ IF Defaults \cap Active = {}
       THEN post' = [post EXCEPT ![p].pc = "fallback"]
       ELSE \E a \in Defaults \cap Active :
               post' = [post EXCEPT ![p].pc = "insert", ![p].id = a]
    /\ UNCHANGED <<account, entry, req>>

\* ... or else the oldest active one; none, and the post is skipped.
FindOldest(p) ==
    /\ post[p].pc = "fallback"
    /\ IF Active = {}
       THEN Rest(p)
       ELSE \E a \in Active :
               /\ \A b \in Active : account[a].born <= account[b].born
               /\ post' = [post EXCEPT ![p].pc = "insert", ![p].id = a]
    /\ UNCHANGED <<account, entry, req>>

InsertPost(p, e) ==
    /\ post[p].pc = "insert"
    /\ IF Exists(post[p].id)
       THEN /\ entry[e].state = "absent"
            /\ entry' = [entry EXCEPT ![e] = [state |-> "live",
                  account |-> post[p].id, amount |-> post[p].amount,
                  source |-> post[p].source]]
       ELSE UNCHANGED entry                        \* foreign key, logged
    /\ Rest(p)
    /\ UNCHANGED <<account, req>>

\* A statement throws or the process dies.
Fail(s) ==
    /\ req[s].pc # "idle"
    /\ Return(s)
    /\ UNCHANGED <<account, entry, post>>

FailPost(p) ==
    /\ post[p].pc # "idle"
    /\ Rest(p)
    /\ UNCHANGED <<account, entry, req>>

-----------------------------------------------------------------------------
\* What is shown: the net movement of each account, and of the active ones
\* together (the balances they were opened with are left out).

netByAccount(a) == SumFunction([e \in EntriesOf(a) |-> entry[e].amount])

cashPosition == SumFunction([a \in Active |-> netByAccount(a)])

-----------------------------------------------------------------------------
ManagerStep(s) ==
    \/ CountAccounts(s)
    \/ \E a \in AccountIds : InsertAccount(s, a)
    \/ \E a \in AccountIds, d \in BOOLEAN \cup {None},
          st \in {"active", "disabled", None} : StartUpdate(s, a, d, st)
    \/ DemoteOthers(s)
    \/ WriteAccount(s)

LedgerStep(s) ==
    \/ \E a \in AccountIds : StartRemoveAccount(s, a)
    \/ \E a \in AccountIds, n \in Flows : StartRecord(s, a, n)
    \/ CountEntries(s)
    \/ DeleteAccount(s)
    \/ \E e \in EntryIds : Record(s, e) \/ StartErase(s, e)
    \/ Erase(s)

PostStep(p) ==
    \/ FindDupe(p)
    \/ FindDefault(p)
    \/ FindOldest(p)
    \/ \E e \in EntryIds : InsertPost(p, e)

Next ==
    \/ \E s \in Slots : ManagerStep(s) \/ LedgerStep(s) \/ Fail(s)
    \/ \E p \in Posters : PostStep(p) \/ FailPost(p)
    \/ \E p \in Posters, src \in Sources, n \in Flows : Receive(p, src, n)

Spec == Init /\ [][Next]_vars

-----------------------------------------------------------------------------
\* Which requests may be concurrent: the conditions the results below need.

AtMostOne(kinds) == \A s, t \in Slots :
    s # t => Duties[s] \cap kinds = {} \/ Duties[t] \cap kinds = {}

OneManager == AtMostOne({"createAccount", "updateAccount"})
OnePoster  == \A p, q \in Posters : p = q
OneBookkeeper == AtMostOne({"removeAccount", "createTransaction"})

-----------------------------------------------------------------------------
\* Every variable holds a value of its type.
TypeOK ==
    /\ account \in [AccountIds -> Account]
    /\ entry \in [EntryIds -> Entry]
    /\ req \in [Slots -> Request]
    /\ post \in [Posters -> Posting]

\* "Only one default": whatever creations, promotions, failures half-way and
\* deletions happen, at most one account is the default.  Needs one manager
\* (createAccount, updateAccount).
SingleDefault == \A a, b \in Defaults : a = b

\* "Idempotent on (sourceType, sourceId)": a source has at most one entry in
\* the ledger, however often its event arrives, if events are handled one at
\* a time (autoPost).
PostedOnce == \A src \in Sources : \A e, f \in EntriesFor(src) : e = f

\* Between its statements a lone manager keeps a true view: an account to be
\* the first has no predecessor, one being promoted no rival.
ManagerView == \A s \in Slots :
    /\ req[s].pc = "insertAccount" =>
          "createAccount" \in Duties[s] /\ (req[s].first => Accounts = {})
    /\ req[s].pc \in {"demote", "write"} => "updateAccount" \in Duties[s]
    /\ req[s].pc = "write" /\ req[s].isDefault = TRUE => Defaults \subseteq {req[s].id}

\* A lone poster past its look for duplicates handles a source without entry.
PosterView == \A p \in Posters :
    /\ post[p].pc # "idle" => post[p].source \in Sources
    /\ post[p].pc \in {"default", "fallback", "insert"} =>
          EntriesFor(post[p].source) = {}

\* A lone bookkeeper removes an account that holds no entry recorded by hand;
\* the account of an entry exists, by the foreign key.
BookkeeperView ==
    /\ \A e \in Live : entry[e].account \in Accounts
    /\ \A s \in Slots :
          /\ req[s].pc \in {"count", "delete"} => "removeAccount" \in Duties[s]
          /\ req[s].pc = "insertEntry" => "createTransaction" \in Duties[s]
          /\ req[s].pc = "delete" =>
                \A e \in EntriesOf(req[s].id) : entry[e].source # None

\* "Preserves ledger history": an entry recorded by hand leaves the ledger only
\* by its own removal, never with its account (removeAccount).  An entry posted
\* for an event may go: handlers run beside removals whoever keeps the books.
\* Needs one bookkeeper.
LedgerKept == [][\A e \in EntryIds :
    e \in Live /\ entry[e].source = None /\ entry'[e].state = "deleted"
        => entry[e].account \in Accounts']_vars
=============================================================================
