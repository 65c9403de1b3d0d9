-------------------------- MODULE SettlementProofs --------------------------
(***************************************************************************)
(* Theorems about Treasury, for any slots, duties, accounts, entries,      *)
(* sources and posters, and about Settlement, for any clerks, documents    *)
(* and amounts: the ledger agrees with what was invoiced and paid.         *)
(***************************************************************************)
EXTENDS Settlement, Sums

-----------------------------------------------------------------------------
\* The treasury alone.  Values the steps build are in the type sets.

LEMMA IdleTyped == Idle \in Request /\ Idle.pc = "idle"
BY DEF Idle, Request

LEMMA RestingTyped == Resting \in Posting /\ Resting.pc = "idle"
BY DEF Resting, Posting

LEMMA RowsTyped ==
    ASSUME NEW st \in {"absent", "deleted"}
    PROVE  /\ NoAccount(st) \in Account
           /\ NoEntry(st) \in Entry
BY DEF NoAccount, NoEntry, Account, Entry

LEMMA RankTyped ==
    Cardinality({b \in AccountIds : account[b].status # "absent"}) \in Nat
<1>1. IsFiniteSet({b \in AccountIds : account[b].status # "absent"})
  BY AccountsAssumption, FS_Subset
<1> QED
  BY <1>1, FS_CardinalityType

\* Every step keeps the types.
LEMMA TypeStep == TypeOK /\ [Next]_vars => TypeOK'
<1> SUFFICES ASSUME TypeOK, [Next]_vars PROVE TypeOK'
  OBVIOUS
<1> USE DEF TypeOK
<1>1. ASSUME NEW s \in Slots, CountAccounts(s) PROVE TypeOK'
  <2>1. [Idle EXCEPT !.pc = "insertAccount", !.first = (Accounts = {})] \in Request
    BY IdleTyped DEF Request
  <2> QED
    BY <1>1, <2>1 DEF CountAccounts
<1>2. ASSUME NEW s \in Slots, NEW a \in AccountIds, InsertAccount(s, a)
      PROVE  TypeOK'
  <2>1. [status |-> "active", isDefault |-> req[s].first,
         born |-> Cardinality({b \in AccountIds : account[b].status # "absent"})]
           \in Account
    BY RankTyped DEF Account, Request
  <2> QED
    BY <1>2, <2>1, IdleTyped DEF InsertAccount, Return
<1>3. ASSUME NEW s \in Slots, NEW a \in AccountIds, NEW d \in BOOLEAN \cup {None},
             NEW st \in {"active", "disabled", None}, StartUpdate(s, a, d, st)
      PROVE  TypeOK'
  <2>1. [Idle EXCEPT !.pc = IF d = TRUE THEN "demote" ELSE "write",
                     !.id = a, !.isDefault = d, !.status = st] \in Request
    BY IdleTyped DEF Request
  <2> QED
    BY <1>3, <2>1 DEF StartUpdate
<1>4. ASSUME NEW s \in Slots, DemoteOthers(s) PROVE TypeOK'
  <2>1. [req[s] EXCEPT !.pc = "write"] \in Request
    BY DEF Request
  <2>2. \A a \in AccountIds : [account[a] EXCEPT !.isDefault = FALSE] \in Account
    BY DEF Account
  <2> QED
    BY <1>4, <2>1, <2>2 DEF DemoteOthers
<1>5. ASSUME NEW s \in Slots, WriteAccount(s) PROVE TypeOK'
  <2>1. ASSUME NEW a \in AccountIds PROVE WithColumns(account[a], req[s]) \in Account
    <3>1. /\ account[a] \in Account
          /\ req[s].isDefault \in BOOLEAN \cup {None}
          /\ req[s].status \in {"active", "disabled", None}
      BY DEF Request
    <3> QED
      BY <3>1 DEF WithColumns, Account
  <2> QED
    BY <1>5, <2>1, IdleTyped DEF WriteAccount, Return
<1>6. ASSUME NEW s \in Slots, NEW a \in AccountIds, StartRemoveAccount(s, a)
      PROVE  TypeOK'
  <2>1. [Idle EXCEPT !.pc = "count", !.id = a] \in Request
    BY IdleTyped DEF Request
  <2> QED
    BY <1>6, <2>1 DEF StartRemoveAccount
<1>17. ASSUME NEW s \in Slots, NEW a \in AccountIds, NEW n \in Flows, StartRecord(s, a, n)
       PROVE  TypeOK'
  <2>1. [Idle EXCEPT !.pc = "insertEntry", !.id = a, !.amount = n] \in Request
    BY IdleTyped, FlowsAssumption DEF Request
  <2> QED
    BY <1>17, <2>1 DEF StartRecord
<1>7. ASSUME NEW s \in Slots, CountEntries(s) PROVE TypeOK'
  <2>1. [req[s] EXCEPT !.pc = "delete"] \in Request
    BY DEF Request
  <2> QED
    BY <1>7, <2>1, IdleTyped DEF CountEntries, Return
<1>8. ASSUME NEW s \in Slots, DeleteAccount(s) PROVE TypeOK'
  BY <1>8, RowsTyped, IdleTyped DEF DeleteAccount, Return
<1>9. ASSUME NEW s \in Slots, NEW e \in EntryIds, Record(s, e) PROVE TypeOK'
  <2>1. [state |-> "live", account |-> req[s].id, amount |-> req[s].amount,
         source |-> None] \in Entry
    BY DEF Entry, Request
  <2> QED
    BY <1>9, <2>1, IdleTyped DEF Record, Return
<1>10. ASSUME NEW s \in Slots, NEW e \in EntryIds, StartErase(s, e) PROVE TypeOK'
  <2>1. [Idle EXCEPT !.pc = "eraseEntry", !.entry = e] \in Request
    BY IdleTyped DEF Request
  <2> QED
    BY <1>10, <2>1 DEF StartErase
<1>11. ASSUME NEW s \in Slots, Erase(s) \/ Fail(s) PROVE TypeOK'
  BY <1>11, RowsTyped, IdleTyped DEF Erase, Fail, Return
<1>12. ASSUME NEW p \in Posters, NEW src \in Sources, NEW n \in Flows, Receive(p, src, n)
       PROVE  TypeOK'
  <2>1. [Resting EXCEPT !.pc = "dupe", !.source = src, !.amount = n] \in Posting
    BY RestingTyped, FlowsAssumption DEF Posting
  <2> QED
    BY <1>12, <2>1 DEF Receive
<1>13. ASSUME NEW p \in Posters, FindDupe(p) \/ FailPost(p) PROVE TypeOK'
  <2>1. [post[p] EXCEPT !.pc = "default"] \in Posting
    BY DEF Posting
  <2> QED
    BY <1>13, <2>1, RestingTyped DEF FindDupe, FailPost, Rest
<1>14. ASSUME NEW p \in Posters, FindDefault(p) \/ FindOldest(p) PROVE TypeOK'
  <2>1. /\ [post[p] EXCEPT !.pc = "fallback"] \in Posting
        /\ \A a \in AccountIds : [post[p] EXCEPT !.pc = "insert", !.id = a] \in Posting
    BY DEF Posting
  <2>2. Active \subseteq AccountIds
    BY DEF Active
  <2>3. /\ UNCHANGED <<account, entry, req>>
        /\ \/ post' = [post EXCEPT ![p] = Resting]
           \/ post' = [post EXCEPT ![p].pc = "fallback"]
           \/ \E a \in Active : post' = [post EXCEPT ![p].pc = "insert", ![p].id = a]
    BY <1>14, Zenon DEF FindDefault, FindOldest, Rest
  <2>4. CASE \E a \in Active : post' = [post EXCEPT ![p].pc = "insert", ![p].id = a]
    <3>1. PICK a \in Active : post' = [post EXCEPT ![p].pc = "insert", ![p].id = a]
      BY <2>4
    <3> QED
      BY <2>1, <2>2, <2>3, <3>1
  <2> QED
    BY <2>1, <2>3, <2>4, RestingTyped
<1>15. ASSUME NEW p \in Posters, NEW e \in EntryIds, InsertPost(p, e) PROVE TypeOK'
  <2>1. [state |-> "live", account |-> post[p].id, amount |-> post[p].amount,
         source |-> post[p].source] \in Entry
    BY DEF Entry, Posting
  <2> QED
    BY <1>15, <2>1, RestingTyped DEF InsertPost, Rest
<1>16. CASE UNCHANGED vars
  BY <1>16 DEF vars
<1> QED
  BY <1>1, <1>2, <1>3, <1>4, <1>5, <1>6, <1>7, <1>8, <1>9, <1>10, <1>11, <1>12,
     <1>13, <1>14, <1>15, <1>16, <1>17 DEF Next, ManagerStep, LedgerStep, PostStep

\* Every variable holds a value of its type.
THEOREM TypeCorrect == Spec => []TypeOK
<1>1. Init => TypeOK
  BY RowsTyped, IdleTyped, RestingTyped DEF Init, TypeOK
<1> QED
  BY <1>1, TypeStep, PTL DEF Spec

-----------------------------------------------------------------------------
\* One default.

DefaultInv == TypeOK /\ ManagerView /\ SingleDefault

\* A step that makes no account and no default, and starts no write, keeps a
\* manager's view.
LEMMA ManagerViewKept ==
    ASSUME DefaultInv, Accounts' \subseteq Accounts, Defaults' \subseteq Defaults,
           \A x \in Slots : \/ req'[x] = req[x]
                            \/ req'[x].pc \notin {"insertAccount", "demote", "write"}
    PROVE  ManagerView' /\ SingleDefault'
BY DEF DefaultInv, ManagerView, SingleDefault

\* The steps of posters and of the ledger's requests touch no manager.
LEMMA LedgerStepDefault ==
    ASSUME DefaultInv, NEW s \in Slots, LedgerStep(s) \/ Fail(s)
    PROVE  ManagerView' /\ SingleDefault'
<1> USE DEF DefaultInv, TypeOK
<1>1. Accounts' \subseteq Accounts /\ Defaults' \subseteq Defaults
  <2>1. CASE account' = account
    BY <2>1 DEF Accounts, Defaults, Exists
  <2>2. CASE account' = [account EXCEPT ![req[s].id] = NoAccount("deleted")]
    <3>1. \A b \in AccountIds : Exists(b)' => Exists(b) /\ account'[b] = account[b]
      BY <2>2 DEF Exists, NoAccount
    <3> QED
      BY <3>1 DEF Accounts, Defaults
  <2> QED
    BY <2>1, <2>2, Zenon DEF LedgerStep, StartRemoveAccount, StartRecord, CountEntries,
       DeleteAccount, Record, StartErase, Erase, Fail
<1>2. \A x \in Slots : \/ req'[x] = req[x]
                       \/ req'[x].pc \notin {"insertAccount", "demote", "write"}
  <2>1. CASE Return(s)
    BY <2>1, IdleTyped DEF Return
  <2>2. ASSUME NEW a \in AccountIds,
               StartRemoveAccount(s, a) \/ \E n \in Flows : StartRecord(s, a, n)
        PROVE  \A x \in Slots : req'[x] = req[x] \/ req'[x].pc \in {"count", "insertEntry"}
    BY <2>2 DEF StartRemoveAccount, StartRecord, Idle
  <2>3. ASSUME NEW e \in EntryIds, StartErase(s, e)
        PROVE  \A x \in Slots : req'[x] = req[x] \/ req'[x].pc = "eraseEntry"
    BY <2>3 DEF StartErase, Idle
  <2>4. CASE req' = [req EXCEPT ![s].pc = "delete"]
    BY <2>4 DEF Request
  <2>5. CountEntries(s) => Return(s) \/ req' = [req EXCEPT ![s].pc = "delete"]
    BY Zenon DEF CountEntries
  <2> QED
    BY <2>1, <2>2, <2>3, <2>4, <2>5 DEF LedgerStep, DeleteAccount, Record, Erase, Fail
<1> QED
  BY <1>1, <1>2, ManagerViewKept

\* While a manager's request runs in a slot, no other slot runs one.
LEMMA ManagerAlone ==
    ASSUME OneManager, ManagerView, NEW s \in Slots,
           \/ req[s].pc \in {"insertAccount", "demote", "write"}
           \/ Serves(s, "createAccount")
           \/ Serves(s, "updateAccount")
    PROVE  \A x \in Slots \ {s} : req[x].pc \notin {"insertAccount", "demote", "write"}
BY DEF OneManager, AtMostOne, ManagerView, Serves

LEMMA ManagerStepDefault ==
    ASSUME OneManager, DefaultInv, NEW s \in Slots, ManagerStep(s)
    PROVE  ManagerView' /\ SingleDefault'
<1> USE DEF DefaultInv, TypeOK
<1>1. \A x \in Slots \ {s} :
         /\ req'[x] = req[x]
         /\ req'[x].pc \notin {"insertAccount", "demote", "write"}
  <2>1. \A x \in Slots \ {s} : req'[x] = req[x]
    BY DEF ManagerStep, CountAccounts, InsertAccount, StartUpdate, DemoteOthers,
       WriteAccount, Return
  <2>2. \/ req[s].pc \in {"insertAccount", "demote", "write"}
        \/ Serves(s, "createAccount")
        \/ Serves(s, "updateAccount")
    BY DEF ManagerStep, CountAccounts, InsertAccount, StartUpdate, DemoteOthers,
       WriteAccount
  <2> QED
    BY <2>1, <2>2, ManagerAlone
<1>2. CASE CountAccounts(s)
  <2>1. /\ account' = account
        /\ req'[s].pc = "insertAccount" /\ req'[s].first = (Accounts = {})
        /\ "createAccount" \in Duties[s]
    BY <1>2 DEF CountAccounts, Serves, Idle
  <2> QED
    BY <1>1, <2>1 DEF ManagerView, SingleDefault, Accounts, Defaults, Exists
<1>3. ASSUME NEW a \in AccountIds, InsertAccount(s, a)
      PROVE  ManagerView' /\ SingleDefault'
  <2>1. req'[s].pc = "idle"
    BY <1>3, IdleTyped DEF InsertAccount, Return
  <2>2. /\ account'[a].isDefault => Accounts = {}
        /\ \A b \in AccountIds \ {a} : account'[b] = account[b]
    BY <1>3 DEF InsertAccount, ManagerView
  <2>3. SingleDefault'
    <3>1. CASE account'[a].isDefault
      BY <2>2, <3>1 DEF SingleDefault, Defaults, Accounts, Exists
    <3>2. CASE ~ account'[a].isDefault
      BY <2>2, <3>2 DEF SingleDefault, Defaults, Accounts, Exists
    <3> QED
      BY <3>1, <3>2
  <2> QED
    BY <1>1, <2>1, <2>3 DEF ManagerView
<1>4. ASSUME NEW a \in AccountIds, NEW d \in BOOLEAN \cup {None},
             NEW st \in {"active", "disabled", None}, StartUpdate(s, a, d, st)
      PROVE  ManagerView' /\ SingleDefault'
  <2>1. /\ account' = account
        /\ "updateAccount" \in Duties[s]
        /\ \/ req'[s].pc = "demote"
           \/ req'[s].pc = "write" /\ req'[s].isDefault # TRUE
    BY <1>4 DEF StartUpdate, Serves, Idle
  <2> QED
    BY <1>1, <2>1 DEF ManagerView, SingleDefault, Accounts, Defaults, Exists
<1>5. CASE DemoteOthers(s)
  <2>1. \A b \in AccountIds : b # req[s].id => account'[b].isDefault = FALSE
    BY <1>5 DEF DemoteOthers, Account
  <2>2. Defaults' \subseteq {req[s].id}
    BY <2>1 DEF Defaults, Accounts
  <2>3. req'[s].pc = "write" /\ req'[s].id = req[s].id /\ "updateAccount" \in Duties[s]
    BY <1>5 DEF DemoteOthers, Request, ManagerView
  <2> QED
    BY <1>1, <2>2, <2>3 DEF ManagerView, SingleDefault
<1>6. CASE WriteAccount(s)
  <2> DEFINE id == req[s].id
  <2>1. req'[s].pc = "idle"
    BY <1>6, IdleTyped DEF WriteAccount, Return
  <2>2. CASE Exists(id)
    <3>1. account' = [account EXCEPT ![id] = WithColumns(account[id], req[s])]
      BY <1>6, <2>2 DEF WriteAccount
    <3>2. \A b \in AccountIds \ {id} : account'[b] = account[b]
      BY <3>1
    <3>3. CASE req[s].isDefault = TRUE
      <4>1. Defaults \subseteq {id}
        BY <1>6, <3>3 DEF WriteAccount, ManagerView
      <4>2. Defaults' \subseteq {id}
        BY <3>2, <4>1 DEF Defaults, Accounts, Exists
      <4> QED
        BY <1>1, <2>1, <4>2 DEF ManagerView, SingleDefault
    <3>4. CASE req[s].isDefault # TRUE
      <4>1. id \in AccountIds => (account'[id].isDefault => account[id].isDefault)
        <5> SUFFICES ASSUME id \in AccountIds, account'[id].isDefault
                     PROVE  account[id].isDefault
          OBVIOUS
        <5>1. req[s].isDefault \in BOOLEAN \cup {None} /\ account[id] \in Account
          BY DEF Request
        <5>2. account'[id] = WithColumns(account[id], req[s])
          BY <3>1
        <5>3. \/ account'[id].isDefault = account[id].isDefault
              \/ account'[id].isDefault = FALSE
          BY <3>4, <5>1, <5>2 DEF WithColumns, Account
        <5> QED
          BY <5>3
      <4>2. Defaults' \subseteq Defaults
        BY <2>2, <3>2, <4>1 DEF Defaults, Accounts, Exists
      <4> QED
        BY <1>1, <2>1, <4>2 DEF ManagerView, SingleDefault
    <3> QED
      BY <3>3, <3>4
  <2>3. CASE ~Exists(id)
    BY <1>1, <1>6, <2>1, <2>3 DEF WriteAccount, ManagerView, SingleDefault,
       Accounts, Defaults, Exists
  <2> QED
    BY <2>2, <2>3
<1> QED
  BY <1>2, <1>3, <1>4, <1>5, <1>6 DEF ManagerStep

LEMMA DefaultBegins == Init => ManagerView /\ SingleDefault
BY IdleTyped DEF Init, ManagerView, SingleDefault, Defaults, Accounts, Exists, NoAccount

\* At most one account is the default, if accounts are created and updated by
\* one request at a time (treasury.service.ts, createAccount, updateAccount).
THEOREM OneDefault ==
    ASSUME OneManager
    PROVE  Spec => [](SingleDefault /\ ManagerView)
<1>1. Init => ManagerView /\ SingleDefault
  BY DefaultBegins
<1>2. DefaultInv /\ [Next]_vars => (ManagerView /\ SingleDefault)'
  <2> SUFFICES ASSUME DefaultInv, [Next]_vars PROVE ManagerView' /\ SingleDefault'
    OBVIOUS
  <2>1. CASE account' = account /\ req' = req
    BY <2>1, ManagerViewKept DEF Accounts, Defaults, Exists
  <2>2. CASE \/ UNCHANGED vars
             \/ \E p \in Posters :
                   \/ PostStep(p) \/ FailPost(p)
                   \/ \E src \in Sources, n \in Flows : Receive(p, src, n)
    BY <2>1, <2>2 DEF PostStep, FindDupe, FindDefault, FindOldest, InsertPost,
       FailPost, Receive, vars
  <2> QED
    BY <2>2, ManagerStepDefault, LedgerStepDefault DEF Next
<1>3. DefaultInv <=> TypeOK /\ ManagerView /\ SingleDefault
  BY DEF DefaultInv
<1> QED
  BY <1>1, <1>2, <1>3, TypeCorrect, PTL DEF Spec

-----------------------------------------------------------------------------
\* One entry per source.

PostedInv == TypeOK /\ PosterView /\ PostedOnce

\* A step that adds no entry of any source keeps the view of a poster, if the
\* poster only goes on with the source it has or comes from its look.
LEMMA PosterViewKept ==
    ASSUME PostedInv, \A src \in Sources : EntriesFor(src)' \subseteq EntriesFor(src),
           \A q \in Posters :
              \/ post'[q] = post[q]
              \/ post'[q].pc = "idle"
              \/ post'[q].pc = "dupe" /\ post'[q].source \in Sources
              \/ /\ post[q].pc \in {"default", "fallback", "insert"}
                 /\ post'[q].source = post[q].source
              \/ /\ post'[q].source \in Sources
                 /\ EntriesFor(post'[q].source) = {}
    PROVE  PosterView' /\ PostedOnce'
<1>1. PostedOnce'
  BY DEF PostedInv, PostedOnce
<1>2. ASSUME NEW q \in Posters, NEW src, src = post'[q].source, post'[q].pc # "idle"
      PROVE  /\ src \in Sources
             /\ post'[q].pc # "dupe" => EntriesFor(src)' = {}
  <2>1. src \in Sources /\ (post'[q].pc # "dupe" => EntriesFor(src) = {})
    BY <1>2 DEF PostedInv, PosterView, TypeOK, Posting
  <2> QED
    BY <2>1
<1>3. ASSUME NEW q \in Posters, post'[q].pc # "idle"
      PROVE  /\ post'[q].source \in Sources
             /\ post'[q].pc # "dupe" => EntriesFor(post[q].source)' = {}
  BY <1>2, <1>3 DEF EntriesFor
<1> QED
  BY <1>1, <1>3 DEF PosterView, EntriesFor

\* Requests make entries without a source, or remove some.
LEMMA RequestEntries ==
    ASSUME TypeOK, NEW s \in Slots, ManagerStep(s) \/ LedgerStep(s) \/ Fail(s)
    PROVE  /\ \A src \in Sources : EntriesFor(src)' \subseteq EntriesFor(src)
           /\ post' = post
<1>1. post' = post
  BY DEF ManagerStep, CountAccounts, InsertAccount, StartUpdate, DemoteOthers,
     WriteAccount, LedgerStep, StartRemoveAccount, StartRecord, CountEntries,
     DeleteAccount, Record, StartErase, Erase, Fail
<1>2. \/ entry' = entry
      \/ \E e \in EntryIds, a \in AccountIds \cup {None} :
            \E n \in Int : entry' = [entry EXCEPT ![e] =
               [state |-> "live", account |-> a, amount |-> n, source |-> None]]
      \/ \E E \in SUBSET EntryIds :
            entry' = [e \in EntryIds |-> IF e \in E THEN NoEntry("deleted") ELSE entry[e]]
  <2>1. ASSUME NEW e \in EntryIds, Record(s, e)
        PROVE  \/ entry' = entry
               \/ \E a \in AccountIds \cup {None}, n \in Int :
                    entry' = [entry EXCEPT ![e] =
                       [state |-> "live", account |-> a, amount |-> n, source |-> None]]
    BY <2>1 DEF Record, TypeOK, Request
  <2>2. CASE DeleteAccount(s)
    BY <2>2 DEF DeleteAccount, EntriesOf, Live
  <2>3. CASE Erase(s)
    <3>1. CASE req[s].entry \in Live
      <4>1. entry' = [e \in EntryIds |-> IF e \in {req[s].entry} THEN NoEntry("deleted")
                                                               ELSE entry[e]]
        BY <2>3, <3>1 DEF Erase, TypeOK
      <4>2. {req[s].entry} \in SUBSET EntryIds
        BY <3>1 DEF Live
      <4> QED
        BY <4>1, <4>2
    <3>2. CASE req[s].entry \notin Live
      BY <2>3, <3>2 DEF Erase
    <3> QED
      BY <3>1, <3>2
  <2> QED
    BY <2>1, <2>2, <2>3 DEF ManagerStep, CountAccounts, InsertAccount, StartUpdate,
       DemoteOthers, WriteAccount, LedgerStep, StartRemoveAccount, StartRecord,
       CountEntries, StartErase, Fail
<1>3. \A src \in Sources : EntriesFor(src)' \subseteq EntriesFor(src)
  BY <1>2, NoneAssumption DEF EntriesFor, Live, NoEntry, TypeOK
<1> QED
  BY <1>1, <1>3

\* The insert of a lone poster is the only one of its source.
LEMMA InsertPosted ==
    ASSUME OnePoster, PostedInv, NEW p \in Posters, NEW e \in EntryIds, InsertPost(p, e)
    PROVE  PosterView' /\ PostedOnce'
<1> USE DEF PostedInv, TypeOK
<1>1. \A q \in Posters : post'[q].pc = "idle"
  BY RestingTyped DEF OnePoster, InsertPost, Rest
<1>2. PosterView'
  BY <1>1 DEF PosterView
<1>3. post[p].source \in Sources /\ EntriesFor(post[p].source) = {}
  BY DEF InsertPost, PosterView
<1>4. CASE Exists(post[p].id)
  <2>1. entry' = [entry EXCEPT ![e] = [state |-> "live", account |-> post[p].id,
                    amount |-> post[p].amount, source |-> post[p].source]]
    BY <1>4 DEF InsertPost
  <2>2. ASSUME NEW src \in Sources, src # post[p].source
        PROVE  EntriesFor(src)' \subseteq EntriesFor(src)
    BY <2>1, <2>2 DEF EntriesFor, Live
  <2>3. ASSUME NEW src \in Sources, src = post[p].source
        PROVE  EntriesFor(src)' \subseteq {e}
    BY <1>3, <2>1, <2>3 DEF EntriesFor, Live
  <2> QED
    BY <1>2, <2>2, <2>3 DEF PostedOnce
<1>5. CASE ~Exists(post[p].id)
  BY <1>2, <1>5 DEF InsertPost, PostedOnce, EntriesFor, Live
<1> QED
  BY <1>4, <1>5

\* The ledger holds at most one entry per source however often an event is
\* delivered, if events are handled one at a time (autoPost).
THEOREM OneEntryPerSource ==
    ASSUME OnePoster
    PROVE  Spec => [](PostedOnce /\ PosterView)
<1>1. Init => PosterView /\ PostedOnce
  BY RestingTyped DEF Init, PosterView, PostedOnce, EntriesFor, Live, NoEntry
<1>2. PostedInv /\ [Next]_vars => (PosterView /\ PostedOnce)'
  <2> SUFFICES ASSUME PostedInv, [Next]_vars PROVE PosterView' /\ PostedOnce'
    OBVIOUS
  <2> USE DEF PostedInv
  <2>0. CASE entry' = entry /\ post' = post
    BY <2>0, PosterViewKept DEF EntriesFor, Live
  <2>1. ASSUME NEW s \in Slots, ManagerStep(s) \/ LedgerStep(s) \/ Fail(s)
        PROVE  PosterView' /\ PostedOnce'
    BY <2>1, RequestEntries, PosterViewKept
  <2>2. ASSUME NEW p \in Posters, \/ FindDupe(p) \/ FindDefault(p) \/ FindOldest(p)
                                 \/ FailPost(p)
                                 \/ \E src \in Sources, n \in Flows : Receive(p, src, n)
        PROVE  PosterView' /\ PostedOnce'
    <3>1. \A src \in Sources : EntriesFor(src)' \subseteq EntriesFor(src)
      BY <2>2 DEF FindDupe, FindDefault, FindOldest, FailPost, Receive, EntriesFor, Live
    <3>2. \A q \in Posters \ {p} : post'[q] = post[q]
      BY <2>2 DEF FindDupe, FindDefault, FindOldest, FailPost, Receive, Rest, TypeOK
    <3>3. \/ post'[p].pc = "idle"
          \/ post'[p].pc = "dupe" /\ post'[p].source \in Sources
          \/ /\ post[p].pc \in {"default", "fallback", "insert"}
             /\ post'[p].source = post[p].source
          \/ /\ post'[p].source \in Sources
             /\ EntriesFor(post'[p].source) = {}
      <4>1. CASE Rest(p)
        BY <4>1, RestingTyped DEF Rest, TypeOK
      <4>2. CASE FindDupe(p)
        <5>1. CASE EntriesFor(post[p].source) = {}
          <6>1. /\ post' = [post EXCEPT ![p].pc = "default"]
                /\ post[p].pc = "dupe"
            BY <2>2, <4>2, <5>1, Zenon DEF FindDupe
          <6>2. post[p].source \in Sources
            BY <6>1 DEF PosterView
          <6> QED
            BY <5>1, <6>1, <6>2 DEF TypeOK, Posting
        <5>2. CASE EntriesFor(post[p].source) # {}
          BY <4>1, <4>2, <5>2, Zenon DEF FindDupe
        <5> QED
          BY <5>1, <5>2
      <4>3. CASE FindDefault(p) \/ FindOldest(p)
        <5>1. /\ post[p].pc \in {"default", "fallback"}
              /\ \/ Rest(p)
                 \/ post' = [post EXCEPT ![p].pc = "fallback"]
                 \/ \E a \in Active : post' = [post EXCEPT ![p].pc = "insert", ![p].id = a]
          BY <4>3, Zenon DEF FindDefault, FindOldest
        <5> QED
          BY <4>1, <5>1 DEF TypeOK, Posting
      <4>4. ASSUME NEW src \in Sources, NEW n \in Flows, Receive(p, src, n)
            PROVE  post'[p].pc = "dupe" /\ post'[p].source \in Sources
        BY <4>4 DEF Receive, Resting, TypeOK
      <4> QED
        BY <2>2, <4>1, <4>2, <4>3, <4>4 DEF FailPost
    <3> QED
      BY <3>1, <3>2, <3>3, PosterViewKept
  <2> QED
    BY <2>0, <2>1, <2>2, InsertPosted DEF Next, PostStep, vars
<1>3. PostedInv <=> TypeOK /\ PosterView /\ PostedOnce
  BY DEF PostedInv
<1> QED
  BY <1>1, <1>2, <1>3, TypeCorrect, PTL DEF Spec

-----------------------------------------------------------------------------
\* Entries recorded by hand stay.

\* An entry about to be inserted has an account, and an event its source.
Aimed ==
    /\ \A s \in Slots : req[s].pc = "insertEntry" => req[s].id \in AccountIds
    /\ \A p \in Posters :
          /\ post[p].pc # "idle" => post[p].source \in Sources
          /\ post[p].pc = "insert" => post[p].id \in AccountIds

KeptInv == TypeOK /\ Aimed /\ BookkeeperView

LEMMA AimedCorrect == Spec => []Aimed
<1>1. Init => Aimed
  BY IdleTyped, RestingTyped DEF Init, Aimed
<1>2. TypeOK /\ Aimed /\ [Next]_vars => Aimed'
  <2> SUFFICES ASSUME TypeOK, Aimed, [Next]_vars PROVE Aimed'
    OBVIOUS
  <2> USE DEF TypeOK
  <2>1. ASSUME NEW s \in Slots, post' = post,
               \A x \in Slots \ {s} : req'[x] = req[x],
               req'[s].pc = "insertEntry" => req'[s].id \in AccountIds
        PROVE  Aimed'
    BY <2>1 DEF Aimed
  <2>2. ASSUME NEW s \in Slots, ManagerStep(s) \/ LedgerStep(s) \/ Fail(s) PROVE Aimed'
    <3>1. post' = post /\ \A x \in Slots \ {s} : req'[x] = req[x]
      BY <2>2 DEF ManagerStep, CountAccounts, InsertAccount, StartUpdate, DemoteOthers,
         WriteAccount, LedgerStep, StartRemoveAccount, StartRecord, CountEntries,
         DeleteAccount, Record, StartErase, Erase, Fail, Return
    <3>2. ASSUME NEW a \in AccountIds, NEW n \in Flows, StartRecord(s, a, n)
          PROVE  req'[s].id \in AccountIds
      BY <3>2 DEF StartRecord, Idle
    <3>3. ASSUME CountAccounts(s) \/ DemoteOthers(s) PROVE req'[s].pc # "insertEntry"
      BY <3>3 DEF CountAccounts, DemoteOthers, Idle, Request
    <3>4. ASSUME NEW a \in AccountIds, NEW d \in BOOLEAN \cup {None},
                 NEW st \in {"active", "disabled", None}, StartUpdate(s, a, d, st)
          PROVE  req'[s].pc # "insertEntry"
      BY <3>4 DEF StartUpdate, Idle
    <3>5. ASSUME NEW a \in AccountIds, StartRemoveAccount(s, a)
          PROVE  req'[s].pc # "insertEntry"
      BY <3>5 DEF StartRemoveAccount, Idle
    <3>6. ASSUME NEW e \in EntryIds, StartErase(s, e) PROVE req'[s].pc # "insertEntry"
      BY <3>6 DEF StartErase, Idle
    <3>7. CASE Return(s)
      BY <2>1, <3>1, <3>7, IdleTyped DEF Return
    <3>8. CASE req' = [req EXCEPT ![s].pc = "delete"]
      BY <2>1, <3>1, <3>8 DEF Request
    <3>9. CountEntries(s) => Return(s) \/ req' = [req EXCEPT ![s].pc = "delete"]
      BY Zenon DEF CountEntries
    <3> QED
      BY <2>1, <2>2, <3>1, <3>2, <3>3, <3>4, <3>5, <3>6, <3>7, <3>8, <3>9 DEF ManagerStep,
         InsertAccount, WriteAccount, LedgerStep, DeleteAccount, Record, Erase, Fail
  <2>3. ASSUME NEW p \in Posters, req' = req,
               \A q \in Posters \ {p} : post'[q] = post[q],
               \/ post'[p].pc = "idle"
               \/ /\ post'[p].source \in Sources
                  /\ post'[p].pc = "insert" => post'[p].id \in AccountIds
        PROVE  Aimed'
    BY <2>3 DEF Aimed
  <2>4. ASSUME NEW p \in Posters, NEW src \in Sources, NEW n \in Flows, Receive(p, src, n)
        PROVE  Aimed'
    BY <2>3, <2>4 DEF Receive, Resting
  <2>5. ASSUME NEW p \in Posters, PostStep(p) \/ FailPost(p) PROVE Aimed'
    <3>1. req' = req /\ \A q \in Posters \ {p} : post'[q] = post[q]
      BY <2>5 DEF PostStep, FindDupe, FindDefault, FindOldest, InsertPost, FailPost, Rest
    <3>2. post[p].source \in Sources
      BY <2>5 DEF PostStep, FindDupe, FindDefault, FindOldest, InsertPost, FailPost, Aimed
    <3>3. \/ Rest(p)
          \/ \E pc \in {"default", "fallback"} : post' = [post EXCEPT ![p].pc = pc]
          \/ \E a \in Active : post' = [post EXCEPT ![p].pc = "insert", ![p].id = a]
      BY <2>5, Zenon DEF PostStep, FindDupe, FindDefault, FindOldest, InsertPost, FailPost
    <3>4. CASE Rest(p)
      BY <2>3, <3>1, <3>4, RestingTyped DEF Rest
    <3>5. ASSUME NEW pc \in {"default", "fallback"}, post' = [post EXCEPT ![p].pc = pc]
          PROVE  Aimed'
      BY <2>3, <3>1, <3>2, <3>5 DEF Posting
    <3>6. ASSUME NEW a \in Active, post' = [post EXCEPT ![p].pc = "insert", ![p].id = a]
          PROVE  Aimed'
      BY <2>3, <3>1, <3>2, <3>6 DEF Posting, Active
    <3> QED
      BY <3>3, <3>4, <3>5, <3>6
  <2>6. CASE UNCHANGED vars
    BY <2>6 DEF vars, Aimed
  <2> QED
    BY <2>2, <2>4, <2>5, <2>6 DEF Next
<1> QED
  BY <1>1, <1>2, TypeCorrect, PTL DEF Spec

\* A step that leaves the ledger alone, removes no account and starts no
\* delete keeps the bookkeeper's view, as to what its request has become.
LEMMA BookkeeperViewKept ==
    ASSUME KeptInv, NEW s \in Slots, entry' = entry, Accounts \subseteq Accounts',
           \A x \in Slots \ {s} : req'[x] = req[x],
           \/ req'[s].pc \notin {"count", "delete", "insertEntry"}
           \/ req'[s].pc = "count" /\ "removeAccount" \in Duties[s]
           \/ req'[s].pc = "insertEntry" /\ "createTransaction" \in Duties[s]
           \/ /\ req'[s].pc = "delete" /\ "removeAccount" \in Duties[s]
              /\ EntriesOf(req'[s].id) = {}
    PROVE  BookkeeperView'
<1> USE DEF KeptInv, BookkeeperView
<1>1. Live' = Live /\ \A e \in Live : entry'[e].account \in Accounts'
  BY DEF Live
<1>2. ASSUME NEW x \in Slots, req'[x].pc = "delete",
             NEW e \in EntryIds, entry'[e].state = "live",
             entry'[e].account = req'[x].id
      PROVE  entry'[e].source # None
  <2>1. CASE x = s
    <3>1. EntriesOf(req'[s].id) = {}
      BY <1>2, <2>1
    <3> QED
      BY <1>2, <2>1, <3>1 DEF EntriesOf, Live
  <2>2. CASE x # s
    BY <1>2, <2>2 DEF EntriesOf, Live
  <2> QED
    BY <2>1, <2>2
<1>3. ASSUME NEW x \in Slots
      PROVE  /\ req'[x].pc \in {"count", "delete"} => "removeAccount" \in Duties[x]
             /\ req'[x].pc = "insertEntry" => "createTransaction" \in Duties[x]
  BY <1>3
<1> QED
  BY <1>1, <1>2, <1>3 DEF EntriesOf, Live

\* A step that only removes entries, or adds some to accounts that exist while
\* nobody is about to delete one of theirs unless they are of events, keeps it.
LEMMA EntriesChange ==
    ASSUME KeptInv, NEW s \in Slots, account' = account,
           \A x \in Slots \ {s} : req'[x] = req[x],
           req' = req \/ req'[s].pc = "idle",
           \A e \in EntryIds : entry'[e].state = "live" =>
              \/ entry'[e] = entry[e]
              \/ /\ entry'[e].account \in Accounts
                 /\ \/ entry'[e].source # None
                    \/ \A x \in Slots : req'[x].pc # "delete"
    PROVE  BookkeeperView'
<1> USE DEF KeptInv, BookkeeperView
<1>1. Accounts' = Accounts
  BY DEF Accounts, Exists
<1>2. \A x \in Slots : req'[x] = req[x] \/ req'[x].pc = "idle"
  OBVIOUS
<1>3. \A e \in Live' : entry'[e].account \in Accounts'
  BY <1>1 DEF Live
<1>4. ASSUME NEW x \in Slots, req'[x].pc = "delete",
             NEW e \in EntryIds, entry'[e].state = "live",
             entry'[e].account = req'[x].id
      PROVE  entry'[e].source # None
  BY <1>2, <1>4 DEF EntriesOf, Live
<1> QED
  BY <1>2, <1>3, <1>4 DEF EntriesOf, Live

LEMMA BookkeeperStep ==
    ASSUME OneBookkeeper, KeptInv, NEW s \in Slots,
           ManagerStep(s) \/ LedgerStep(s) \/ Fail(s)
    PROVE  BookkeeperView'
<1> USE DEF KeptInv, TypeOK
<1>0. \A x \in Slots \ {s} : req'[x] = req[x]
  BY DEF ManagerStep, CountAccounts, InsertAccount, StartUpdate, DemoteOthers,
     WriteAccount, LedgerStep, StartRemoveAccount, StartRecord, CountEntries,
     DeleteAccount, Record, StartErase, Erase, Fail, Return
<1>1. CASE ManagerStep(s)
  <2>1. entry' = entry
    BY <1>1 DEF ManagerStep, CountAccounts, InsertAccount, StartUpdate,
       DemoteOthers, WriteAccount
  <2>2. req'[s].pc \in {"insertAccount", "demote", "write", "idle"}
    <3>1. CASE CountAccounts(s) \/ DemoteOthers(s)
      BY <3>1 DEF CountAccounts, DemoteOthers, Idle, Request
    <3>2. ASSUME NEW a \in AccountIds, NEW d \in BOOLEAN \cup {None},
                 NEW st \in {"active", "disabled", None}, StartUpdate(s, a, d, st)
          PROVE  req'[s].pc \in {"demote", "write"}
      BY <3>2 DEF StartUpdate, Idle
    <3>3. CASE Return(s)
      BY <3>3, IdleTyped DEF Return
    <3> QED
      BY <1>1, <3>1, <3>2, <3>3 DEF ManagerStep, InsertAccount, WriteAccount
  <2>3. Accounts \subseteq Accounts'
    <3>1. ASSUME NEW a \in AccountIds, InsertAccount(s, a)
          PROVE  \A b \in AccountIds : Exists(b) => Exists(b)'
      BY <3>1 DEF InsertAccount, Exists
    <3>2. CASE DemoteOthers(s)
      BY <3>2 DEF DemoteOthers, Exists, Account, Accounts
    <3>3. CASE WriteAccount(s)
      <4>1. req[s].status \in {"active", "disabled", None}
        BY DEF Request
      <4>2. \A b \in AccountIds : Exists(b) =>
               WithColumns(account[b], req[s]).status \in {"active", "disabled"}
        BY <4>1 DEF WithColumns, Exists, Account
      <4> QED
        BY <3>3, <4>2 DEF WriteAccount, Exists, Accounts
    <3>4. CASE account' = account
      BY <3>4 DEF Accounts, Exists
    <3> QED
      BY <1>1, <3>1, <3>2, <3>3, <3>4 DEF ManagerStep, CountAccounts, StartUpdate,
         Accounts
  <2> QED
    BY <1>0, <2>1, <2>2, <2>3, BookkeeperViewKept
<1>2. ASSUME NEW a \in AccountIds, StartRemoveAccount(s, a) PROVE BookkeeperView'
  <2>1. /\ UNCHANGED <<account, entry>>
        /\ req'[s].pc = "count" /\ "removeAccount" \in Duties[s]
    BY <1>2 DEF StartRemoveAccount, Serves, Idle
  <2> QED
    BY <1>0, <2>1, BookkeeperViewKept DEF Accounts, Exists
<1>3. ASSUME NEW a \in AccountIds, NEW n \in Flows, StartRecord(s, a, n)
      PROVE  BookkeeperView'
  <2>1. /\ UNCHANGED <<account, entry>>
        /\ req'[s].pc = "insertEntry" /\ "createTransaction" \in Duties[s]
    BY <1>3 DEF StartRecord, Serves, Idle
  <2> QED
    BY <1>0, <2>1, BookkeeperViewKept DEF Accounts, Exists
<1>4. CASE CountEntries(s)
  <2>1. UNCHANGED <<account, entry>> /\ "removeAccount" \in Duties[s]
    BY <1>4 DEF CountEntries, BookkeeperView
  <2>2. CASE EntriesOf(req[s].id) = {}
    <3>1. req' = [req EXCEPT ![s].pc = "delete"]
      BY <1>4, <2>2, Zenon DEF CountEntries
    <3>2. req'[s].pc = "delete" /\ req'[s].id = req[s].id
      BY <3>1 DEF Request
    <3>3. EntriesOf(req'[s].id) = {}
      BY <2>2, <3>2
    <3> QED
      BY <1>0, <2>1, <3>2, <3>3, BookkeeperViewKept DEF Accounts, Exists
  <2>3. CASE EntriesOf(req[s].id) # {}
    <3>1. Return(s)
      BY <1>4, <2>3, Zenon DEF CountEntries
    <3>2. req'[s].pc = "idle"
      BY <3>1, IdleTyped DEF Return
    <3> QED
      BY <1>0, <2>1, <3>2, BookkeeperViewKept DEF Accounts, Exists
  <2> QED
    BY <2>2, <2>3
<1>5. CASE DeleteAccount(s)
  <2> DEFINE a == req[s].id
  <2>1. req'[s].pc = "idle"
    BY <1>5, IdleTyped DEF DeleteAccount, Return
  <2>2. CASE Exists(a)
    <3>1. /\ account' = [account EXCEPT ![a] = NoAccount("deleted")]
          /\ entry' = [e \in EntryIds |->
                IF e \in EntriesOf(a) THEN NoEntry("deleted") ELSE entry[e]]
      BY <1>5, <2>2 DEF DeleteAccount
    <3>2. \A e \in EntryIds : entry'[e].state = "live" =>
             entry'[e] = entry[e] /\ entry[e].account # a
      BY <3>1 DEF EntriesOf, Live, NoEntry
    <3>3. Accounts \ {a} \subseteq Accounts'
      BY <3>1 DEF Accounts, Exists
    <3>4. \A e \in Live' : entry'[e].account \in Accounts'
      BY <3>2, <3>3 DEF Live, BookkeeperView
    <3>5. ASSUME NEW x \in Slots, req'[x].pc = "delete",
                 NEW e \in EntryIds, entry'[e].state = "live",
                 entry'[e].account = req'[x].id
          PROVE  entry'[e].source # None
      BY <1>0, <2>1, <3>2, <3>5 DEF EntriesOf, Live, BookkeeperView
    <3> QED
      BY <1>0, <2>1, <3>4, <3>5 DEF EntriesOf, Live, BookkeeperView
  <2>3. CASE ~Exists(a)
    BY <1>0, <1>5, <2>1, <2>3, BookkeeperViewKept DEF DeleteAccount, Accounts, Exists
  <2> QED
    BY <2>2, <2>3
<1>6. ASSUME NEW e \in EntryIds, Record(s, e) PROVE BookkeeperView'
  <2>1. account' = account /\ req'[s].pc = "idle"
    BY <1>6, IdleTyped DEF Record, Return
  <2>2. \A x \in Slots : req'[x].pc # "delete"
    <3>1. "createTransaction" \in Duties[s]
      BY <1>6 DEF Record, BookkeeperView
    <3>2. \A x \in Slots \ {s} : "removeAccount" \notin Duties[x]
      BY <3>1 DEF OneBookkeeper, AtMostOne
    <3> QED
      BY <1>0, <2>1, <3>2 DEF BookkeeperView
  <2>3. \A f \in EntryIds : entry'[f].state = "live" =>
           entry'[f] = entry[f] \/ entry'[f].account \in Accounts
    BY <1>6 DEF Record, Accounts, Aimed
  <2> QED
    BY <1>0, <2>1, <2>2, <2>3, EntriesChange
<1>7. ASSUME NEW e \in EntryIds, StartErase(s, e) PROVE BookkeeperView'
  <2>1. UNCHANGED <<account, entry>> /\ req'[s].pc = "eraseEntry"
    BY <1>7 DEF StartErase, Idle
  <2> QED
    BY <1>0, <2>1, BookkeeperViewKept DEF Accounts, Exists
<1>8. CASE Erase(s) \/ Fail(s)
  <2>1. account' = account /\ req'[s].pc = "idle"
    BY <1>8, IdleTyped DEF Erase, Fail, Return
  <2>2. \A f \in EntryIds : entry'[f].state = "live" => entry'[f] = entry[f]
    BY <1>8 DEF Erase, Fail, NoEntry, Live
  <2> QED
    BY <1>0, <2>1, <2>2, EntriesChange
<1> QED
  BY <1>1, <1>2, <1>3, <1>4, <1>5, <1>6, <1>7, <1>8 DEF LedgerStep

LEMMA PosterStepKept ==
    ASSUME KeptInv, account' = account, req' = req,
           \A e \in EntryIds : entry'[e].state = "live" =>
              \/ entry'[e] = entry[e]
              \/ entry'[e].account \in Accounts /\ entry'[e].source # None
    PROVE  BookkeeperView'
<1>1. Accounts' = Accounts
  BY DEF Accounts, Exists
<1> QED
  BY <1>1 DEF KeptInv, BookkeeperView, EntriesOf, Live

\* What a step of a bookkeeper deletes is recorded for an event, or its
\* account goes on.
LEMMA StepKeeps ==
    ASSUME KeptInv, [Next]_vars,
           NEW e \in Live, entry[e].source = None, entry'[e].state = "deleted"
    PROVE  entry[e].account \in Accounts'
<1> USE DEF KeptInv, TypeOK
<1>1. e \in EntryIds /\ entry[e].state = "live" /\ entry[e].account \in Accounts
  BY DEF Live, BookkeeperView
<1>2. CASE account' = account
  BY <1>1, <1>2 DEF Accounts, Exists
<1>3. CASE entry' = entry
  BY <1>1, <1>3
<1>4. ASSUME NEW s \in Slots, DeleteAccount(s) PROVE entry[e].account \in Accounts'
  <2>1. \A f \in EntriesOf(req[s].id) : entry[f].source # None
    BY <1>4 DEF DeleteAccount, BookkeeperView
  <2>2. e \notin EntriesOf(req[s].id)
    BY <2>1
  <2>3. entry'[e] = entry[e]
    BY <1>1, <1>4, <2>2 DEF DeleteAccount
  <2> QED
    BY <1>1, <2>3
<1> QED
  BY <1>2, <1>3, <1>4 DEF Next, ManagerStep, CountAccounts, InsertAccount, StartUpdate,
     DemoteOthers, WriteAccount, LedgerStep, StartRemoveAccount, StartRecord,
     CountEntries, Record, StartErase, Erase, Fail, PostStep, FindDupe, FindDefault,
     FindOldest, InsertPost, FailPost, Receive, vars

LEMMA BookkeeperCorrect ==
    ASSUME OneBookkeeper
    PROVE  Spec => []BookkeeperView
<1>1. Init => BookkeeperView
  BY IdleTyped DEF Init, BookkeeperView, Live, NoEntry
<1>2. KeptInv /\ [Next]_vars => BookkeeperView'
  <2> SUFFICES ASSUME KeptInv, [Next]_vars PROVE BookkeeperView'
    OBVIOUS
  <2>1. ASSUME NEW p \in Posters, NEW e \in EntryIds, InsertPost(p, e)
        PROVE  BookkeeperView'
    <3>1. UNCHANGED <<account, req>>
      BY <2>1 DEF InsertPost
    <3>2. \A f \in EntryIds : entry'[f].state = "live" =>
             \/ entry'[f] = entry[f]
             \/ entry'[f].account \in Accounts /\ entry'[f].source # None
      BY <2>1, NoneAssumption DEF InsertPost, Accounts, KeptInv, TypeOK, Aimed
    <3> QED
      BY <3>1, <3>2, PosterStepKept
  <2>2. CASE UNCHANGED <<account, entry, req>>
    BY <2>2, PosterStepKept
  <2> QED
    BY <2>1, <2>2, BookkeeperStep DEF Next, PostStep, FindDupe, FindDefault,
       FindOldest, FailPost, Receive, vars
<1>3. KeptInv <=> TypeOK /\ Aimed /\ BookkeeperView
  BY DEF KeptInv
<1> QED
  BY <1>1, <1>2, <1>3, TypeCorrect, AimedCorrect, PTL DEF Spec

\* An entry recorded by hand leaves the ledger only by its own removal, and
\* never with its account, if accounts are removed and entries recorded by one
\* request at a time (treasury.service.ts, removeAccount, createTransaction);
\* handlers of events may run beside.
THEOREM LedgerStands ==
    ASSUME OneBookkeeper
    PROVE  Spec => LedgerKept
<1> DEFINE Stays == \A e \in EntryIds :
    e \in Live /\ entry[e].source = None /\ entry'[e].state = "deleted"
        => entry[e].account \in Accounts'
<1>1. KeptInv /\ [Next]_vars => Stays
  BY StepKeeps
<1>2. KeptInv <=> TypeOK /\ Aimed /\ BookkeeperView
  BY DEF KeptInv
<1> QED
  BY <1>1, <1>2, TypeCorrect, AimedCorrect, BookkeeperCorrect, PTL DEF Spec, LedgerKept

-----------------------------------------------------------------------------
\* Any period book, of which Billing and Payroll keep one each.

CONSTANTS Docs, Items, Moves
VARIABLE book

AnyBook == INSTANCE PeriodBook

\* The void status has no way out: a voided document never comes back into
\* force over items that were issued again since.
VoidIsFinal == Moves["void"] = {}

BookTyped == book \in [Docs -> [status : AnyBook!Statuses \cup {"absent", "deleted"},
                                items : SUBSET Items]]

\* A book holds an item in one document in force at most, through any
\* sequence of issues, moves and discards (the trips of billing.service.ts
\* create/update/remove, and of payroll.service.ts).
THEOREM BookHeldOnce ==
    ASSUME VoidIsFinal, "draft" \in AnyBook!Statuses
    PROVE  AnyBook!Spec => [](BookTyped /\ AnyBook!HeldOnce)
<1>1. AnyBook!Init => BookTyped /\ AnyBook!HeldOnce
  BY DEF AnyBook!Init, BookTyped, AnyBook!HeldOnce, AnyBook!Absent
<1>2. BookTyped /\ AnyBook!HeldOnce /\ [AnyBook!Next]_book => BookTyped' /\ AnyBook!HeldOnce'
  <2> SUFFICES ASSUME BookTyped, AnyBook!HeldOnce, [AnyBook!Next]_book
               PROVE  BookTyped' /\ AnyBook!HeldOnce'
    OBVIOUS
  <2>1. ASSUME NEW d \in Docs, NEW S \in SUBSET Items, AnyBook!Issue(d, S)
        PROVE  BookTyped' /\ AnyBook!HeldOnce'
    <3>1. BookTyped'
      BY <2>1 DEF AnyBook!Issue, BookTyped
    <3>2. \A e \in Docs \ {d} : AnyBook!InForce(e) => S \cap book[e].items = {}
      BY <2>1 DEF AnyBook!Issue, AnyBook!Held
    <3>3. /\ book'[d].items = S
          /\ \A e \in Docs \ {d} : book'[e] = book[e]
      BY <2>1 DEF AnyBook!Issue, BookTyped
    <3>4. AnyBook!HeldOnce'
      BY <3>2, <3>3 DEF AnyBook!HeldOnce, AnyBook!InForce
    <3>5. QED  BY <3>1, <3>4
  <2>2. ASSUME NEW d \in Docs, NEW w \in AnyBook!Statuses, AnyBook!Move(d, w)
        PROVE  BookTyped' /\ AnyBook!HeldOnce'
    <3>1. BookTyped'
      BY <2>2 DEF AnyBook!Move, BookTyped
    <3>2. book[d].status # "void"
      BY <2>2 DEF AnyBook!Move, VoidIsFinal
    <3>3. \A e \in Docs : /\ book'[e].items = book[e].items
                          /\ AnyBook!InForce(e)' => AnyBook!InForce(e)
      BY <2>2, <3>2 DEF AnyBook!Move, AnyBook!InForce, BookTyped
    <3>4. AnyBook!HeldOnce'
      BY <3>3 DEF AnyBook!HeldOnce
    <3>5. QED  BY <3>1, <3>4
  <2>3. ASSUME NEW d \in Docs, AnyBook!Discard(d)
        PROVE  BookTyped' /\ AnyBook!HeldOnce'
    <3>1. BookTyped'
      BY <2>3 DEF AnyBook!Discard, BookTyped
    <3>2. /\ book'[d].items = {}
          /\ \A e \in Docs \ {d} : book'[e] = book[e]
      BY <2>3 DEF AnyBook!Discard, BookTyped
    <3>3. AnyBook!HeldOnce'
      BY <3>2 DEF AnyBook!HeldOnce, AnyBook!InForce
    <3>4. QED  BY <3>1, <3>3
  <2>4. CASE UNCHANGED book
    BY <2>4 DEF BookTyped, AnyBook!HeldOnce, AnyBook!InForce
  <2>5. QED  BY <2>1, <2>2, <2>3, <2>4 DEF AnyBook!Next
<1>3. QED  BY <1>1, <1>2, PTL DEF AnyBook!Spec

-----------------------------------------------------------------------------
\* Billing and Payroll as Settlement has them, with what is proved of each.

BP == INSTANCE BillingProofs WITH Slots <- Billers, Duties <- BillDuties,
                                  Amounts <- Bills, req <- biller

PP == INSTANCE PayrollProofs WITH Slots <- Payers, Duties <- PayDuties, Amounts <- Pays,
                                  trip <- crew, req <- payer, announced <- paidOut

\* Sums, totals and counts are those of the instances in Settlement ...
LEMMA BillSum == \A f, S : B!SumFunctionOnSet(f, S) = BP!SumFunctionOnSet(f, S)
BY Zenon DEF B!SumFunctionOnSet, BP!SumFunctionOnSet, B!FoldFunctionOnSet,
   BP!FoldFunctionOnSet, B!MapThenFoldSet, BP!MapThenFoldSet

LEMMA BillTotal == \A lines : B!Total(lines) = BP!Total(lines)
BY BillSum, Zenon DEF B!Total, BP!Total, B!SumFunction, BP!SumFunction

LEMMA PaySum == \A f, S : P!SumFunctionOnSet(f, S) = PP!SumFunctionOnSet(f, S)
BY Zenon DEF P!SumFunctionOnSet, PP!SumFunctionOnSet, P!FoldFunctionOnSet,
   PP!FoldFunctionOnSet, P!MapThenFoldSet, PP!MapThenFoldSet

LEMMA PayTotal == \A lines : P!Total(lines) = PP!Total(lines)
BY PaySum, Zenon DEF P!Total, PP!Total, P!SumFunction, PP!SumFunction

\* ... and so is every action: one lemma for each, as its definition unfolds.
LEMMA BillEnterTrip ==
    ASSUME NEW t, NEW c, NEW a, B!EnterTrip(t, c, a) PROVE BP!EnterTrip(t, c, a)
BY DEF B!EnterTrip, BP!EnterTrip

LEMMA BillEditTrip ==
    ASSUME NEW t, NEW c, NEW a, B!EditTrip(t, c, a) PROVE BP!EditTrip(t, c, a)
BY DEF B!EditTrip, BP!EditTrip

LEMMA BillDeleteTrip ==
    ASSUME NEW t, B!DeleteTrip(t) PROVE BP!DeleteTrip(t)
BY DEF B!DeleteTrip, BP!DeleteTrip, B!NoTrip, BP!NoTrip

LEMMA BillStartCreate ==
    ASSUME NEW s, NEW c, NEW from, NEW to, B!StartCreate(s, c, from, to)
    PROVE  BP!StartCreate(s, c, from, to)
BY DEF B!StartCreate, BP!StartCreate, B!Invoiced, BP!Invoiced, B!InForce, BP!InForce,
   B!Exists, BP!Exists, B!Statuses, BP!Statuses, B!Transitions, BP!Transitions,
   B!Idle, BP!Idle, B!NoRow, BP!NoRow, B!NoLines, BP!NoLines,
   B!Serves, BP!Serves

LEMMA BillFetchTrips ==
    ASSUME NEW s, B!FetchTrips(s) PROVE BP!FetchTrips(s)
BY DEF B!FetchTrips, BP!FetchTrips, B!Billable, BP!Billable, B!Idle, BP!Idle,
   B!NoRow, BP!NoRow, B!NoLines, BP!NoLines, B!Return, BP!Return

LEMMA BillNumberInvoice ==
    ASSUME NEW s, B!NumberInvoice(s) PROVE BP!NumberInvoice(s)
BY DEF B!NumberInvoice, BP!NumberInvoice, B!NextNumbers, BP!NextNumbers,
   B!LastNumbers, BP!LastNumbers, B!LexRank, BP!LexRank, B!Numbers, BP!Numbers,
   B!Exists, BP!Exists, B!Statuses, BP!Statuses, B!Transitions, BP!Transitions

LEMMA BillInsertInvoice ==
    ASSUME NEW s, NEW i, B!InsertInvoice(s, i) PROVE BP!InsertInvoice(s, i)
BY BillTotal DEF B!InsertInvoice, BP!InsertInvoice, B!Return, BP!Return, B!Idle, BP!Idle,
   B!NoRow, BP!NoRow, B!NoLines, BP!NoLines, B!Numbers, BP!Numbers,
   B!Exists, BP!Exists, B!Statuses, BP!Statuses, B!Transitions, BP!Transitions

LEMMA BillNumberTaken ==
    ASSUME NEW s, B!NumberTaken(s) PROVE BP!NumberTaken(s)
BY DEF B!NumberTaken, BP!NumberTaken, B!Return, BP!Return, B!Idle, BP!Idle,
   B!NoRow, BP!NoRow, B!NoLines, BP!NoLines, B!Numbers, BP!Numbers,
   B!Exists, BP!Exists, B!Statuses, BP!Statuses, B!Transitions, BP!Transitions

LEMMA BillStartUpdate ==
    ASSUME NEW s, NEW i, NEW w, B!StartUpdate(s, i, w) PROVE BP!StartUpdate(s, i, w)
BY DEF B!StartUpdate, BP!StartUpdate, B!Idle, BP!Idle, B!NoRow, BP!NoRow,
   B!NoLines, BP!NoLines, B!Transitions, BP!Transitions, B!Exists, BP!Exists,
   B!Statuses, BP!Statuses, B!Serves, BP!Serves

LEMMA BillWriteUpdate ==
    ASSUME NEW s, B!WriteUpdate(s) PROVE BP!WriteUpdate(s)
BY DEF B!WriteUpdate, BP!WriteUpdate, B!Return, BP!Return, B!Idle, BP!Idle,
   B!NoRow, BP!NoRow, B!NoLines, BP!NoLines, B!PaysNow, BP!PaysNow,
   B!Patched, BP!Patched, B!Exists, BP!Exists, B!Statuses, BP!Statuses,
   B!Transitions, BP!Transitions

LEMMA BillAnnounce ==
    ASSUME NEW s, B!Announce(s) PROVE BP!Announce(s)
BY DEF B!Announce, BP!Announce, B!Return, BP!Return, B!Idle, BP!Idle,
   B!NoRow, BP!NoRow, B!NoLines, BP!NoLines, B!Exists, BP!Exists,
   B!Statuses, BP!Statuses, B!Transitions, BP!Transitions

LEMMA BillStartRemove ==
    ASSUME NEW s, NEW i, B!StartRemove(s, i) PROVE BP!StartRemove(s, i)
BY DEF B!StartRemove, BP!StartRemove, B!Idle, BP!Idle, B!NoRow, BP!NoRow,
   B!NoLines, BP!NoLines, B!Serves, BP!Serves

LEMMA BillDeleteInvoice ==
    ASSUME NEW s, B!DeleteInvoice(s) PROVE BP!DeleteInvoice(s)
BY DEF B!DeleteInvoice, BP!DeleteInvoice, B!Return, BP!Return, B!Idle, BP!Idle,
   B!NoRow, BP!NoRow, B!NoLines, BP!NoLines, B!Exists, BP!Exists,
   B!Statuses, BP!Statuses, B!Transitions, BP!Transitions

LEMMA BillFail ==
    ASSUME NEW s, B!Fail(s) PROVE BP!Fail(s)
BY DEF B!Fail, BP!Fail, B!Return, BP!Return, B!Idle, BP!Idle, B!NoRow, BP!NoRow,
   B!NoLines, BP!NoLines

LEMMA PayEnterTrip ==
    ASSUME NEW t, NEW row, P!EnterTrip(t, row) PROVE PP!EnterTrip(t, row)
BY DEF P!EnterTrip, PP!EnterTrip

LEMMA PayEditTrip ==
    ASSUME NEW t, NEW row, P!EditTrip(t, row) PROVE PP!EditTrip(t, row)
BY DEF P!EditTrip, PP!EditTrip

LEMMA PayDeleteTrip ==
    ASSUME NEW t, P!DeleteTrip(t) PROVE PP!DeleteTrip(t)
BY DEF P!DeleteTrip, PP!DeleteTrip, P!NoTrip, PP!NoTrip

LEMMA PayStartCreate ==
    ASSUME NEW s, NEW from, NEW to, P!StartCreate(s, from, to)
    PROVE  PP!StartCreate(s, from, to)
BY DEF P!StartCreate, PP!StartCreate, P!Covered, PP!Covered, P!InForce, PP!InForce,
   P!Exists, PP!Exists, P!Statuses, PP!Statuses, P!Transitions, PP!Transitions,
   P!TripsOf, PP!TripsOf, P!Idle, PP!Idle, P!Serves, PP!Serves

LEMMA PayFetchTrips ==
    ASSUME NEW s, P!FetchTrips(s) PROVE PP!FetchTrips(s)
BY DEF P!FetchTrips, PP!FetchTrips, P!Idle, PP!Idle, P!Return, PP!Return,
   P!Lines, PP!Lines, P!Payable, PP!Payable, P!LinesFor, PP!LinesFor

LEMMA PayCount == \A S : P!Cardinality(S) = PP!Cardinality(S)
BY Zenon DEF P!Cardinality, PP!Cardinality, P!IsFiniteSet, PP!IsFiniteSet

LEMMA PayNumberRun ==
    ASSUME NEW s, P!NumberRun(s) PROVE PP!NumberRun(s)
BY DEF P!NumberRun, PP!NumberRun, P!NextNumbers, PP!NextNumbers,
   P!LastNumbers, PP!LastNumbers, P!LexRank, PP!LexRank, P!Numbers, PP!Numbers,
   P!Exists, PP!Exists, P!Statuses, PP!Statuses, P!Transitions, PP!Transitions

LEMMA PayInsertRun ==
    ASSUME NEW s, NEW i, P!InsertRun(s, i) PROVE PP!InsertRun(s, i)
BY PayTotal, PayCount DEF P!InsertRun, PP!InsertRun, P!Return, PP!Return, P!Idle, PP!Idle,
   P!WorkersOf, PP!WorkersOf, P!Numbers, PP!Numbers, P!Exists, PP!Exists,
   P!Statuses, PP!Statuses, P!Transitions, PP!Transitions

LEMMA PayNumberTaken ==
    ASSUME NEW s, P!NumberTaken(s) PROVE PP!NumberTaken(s)
BY DEF P!NumberTaken, PP!NumberTaken, P!Return, PP!Return, P!Idle, PP!Idle,
   P!Numbers, PP!Numbers, P!Exists, PP!Exists, P!Statuses, PP!Statuses,
   P!Transitions, PP!Transitions

LEMMA PayStartUpdate ==
    ASSUME NEW s, NEW i, NEW w, P!StartUpdate(s, i, w) PROVE PP!StartUpdate(s, i, w)
BY DEF P!StartUpdate, PP!StartUpdate, P!Idle, PP!Idle, P!Transitions, PP!Transitions,
   P!Exists, PP!Exists, P!Statuses, PP!Statuses, P!Serves, PP!Serves

LEMMA PayWriteUpdate ==
    ASSUME NEW s, P!WriteUpdate(s) PROVE PP!WriteUpdate(s)
BY DEF P!WriteUpdate, PP!WriteUpdate, P!Return, PP!Return, P!Idle, PP!Idle,
   P!PaysNow, PP!PaysNow, P!Exists, PP!Exists, P!Statuses, PP!Statuses,
   P!Transitions, PP!Transitions, P!Changes, PP!Changes

LEMMA PayAnnounce ==
    ASSUME NEW s, P!Announce(s) PROVE PP!Announce(s)
BY DEF P!Announce, PP!Announce, P!Return, PP!Return, P!Idle, PP!Idle,
   P!Exists, PP!Exists, P!Statuses, PP!Statuses, P!Transitions, PP!Transitions

LEMMA PayStartRemove ==
    ASSUME NEW s, NEW i, P!StartRemove(s, i) PROVE PP!StartRemove(s, i)
BY DEF P!StartRemove, PP!StartRemove, P!Idle, PP!Idle, P!Serves, PP!Serves

LEMMA PayDeleteRun ==
    ASSUME NEW s, P!DeleteRun(s) PROVE PP!DeleteRun(s)
BY DEF P!DeleteRun, PP!DeleteRun, P!Return, PP!Return, P!Idle, PP!Idle,
   P!NoRow, PP!NoRow, P!Exists, PP!Exists, P!Statuses, PP!Statuses,
   P!Transitions, PP!Transitions

LEMMA PayFail ==
    ASSUME NEW s, P!Fail(s) PROVE PP!Fail(s)
BY DEF P!Fail, PP!Fail, P!Return, PP!Return, P!Idle, PP!Idle

-----------------------------------------------------------------------------
\* Billing and Payroll within Settlement: what each of them keeps by itself it
\* keeps here, where its requests may also be lost all at once.

Clerks == B!OneClerk /\ P!OneClerk

BillingInv == BP!PostInv /\ BP!FrozenTotals /\ BP!PaidMatchesLines /\ BP!FiniteLines
PayrollInv == PP!PostInv /\ PP!Frozen /\ PP!FiniteLines

BillingLost ==
    /\ biller' = [s \in Billers |-> BP!Idle]
    /\ UNCHANGED <<inv, trip, announced>>
PayrollLost ==
    /\ payer' = [s \in Payers |-> PP!Idle]
    /\ UNCHANGED <<run, crew, paidOut>>

BillingMoves == [BP!Next]_(BP!vars) \/ BillingLost
PayrollMoves == [PP!Next]_(PP!vars) \/ PayrollLost

\* The assumptions of Billing and Payroll are Settlement's.
LEMMA BillingAssumptions ==
    /\ BillDuties \in [Billers -> SUBSET {"create", "update", "remove"}]
    /\ Days \subseteq Int /\ DayOf \in [Trips -> Days]
    /\ Bills \subseteq Nat
    /\ None \notin {"draft", "sent", "paid", "void"} \cup InvoiceIds
    /\ Radix \in Nat \ {0} /\ SeqLimit \in Nat
BY ClerksAssumption, CalendarAssumption, MoneyAssumption, NobodyAssumption,
   NoneAssumption, SourcesAssumption, NumberingAssumption

LEMMA PayrollAssumptions ==
    /\ PayDuties \in [Payers -> SUBSET {"create", "update", "remove"}]
    /\ Days \subseteq Int /\ DayOf \in [Trips -> Days]
    /\ Pays \subseteq Nat
    /\ None \notin {"draft", "approved", "paid", "void"} \cup RunIds \cup Workers
    /\ Radix \in Nat \ {0} /\ SeqLimit \in Nat
BY ClerksAssumption, CalendarAssumption, MoneyAssumption, NobodyAssumption,
   NoneAssumption, SourcesAssumption, NumberingAssumption

\* Whatever Billing does keeps its invariant, and so does the loss of its requests.
LEMMA BillingKept ==
    ASSUME Clerks, BillingInv, BillingMoves
    PROVE  BillingInv'
<1> USE BillingAssumptions
<1>1. CASE [BP!Next]_(BP!vars)
  <2>1. BP!OneClerk
    BY DEF Clerks, B!OneClerk, BP!OneClerk, B!AtMostOne, BP!AtMostOne
  <2>2. BP!TypeOK' /\ BP!Dutiful'
    BY <1>1, BP!TypeStep, BP!DutifulStep DEF BillingInv, BP!PostInv
  <2>3. BP!ClerkView' /\ BP!AnnouncedIsPaid'
    BY <1>1, <2>1, BP!PostStep DEF BillingInv
  <2>4. BP!PaidMatchesLines' /\ BP!FrozenTotals'
    BY <1>1, BP!PaidStep DEF BillingInv, BP!PostInv, BP!PaidInv
  <2>5. BP!FiniteLines'
    BY <1>1, BP!FiniteStep DEF BillingInv, BP!PostInv
  <2> QED
    BY <2>2, <2>3, <2>4, <2>5 DEF BillingInv, BP!PostInv
<1>2. CASE BillingLost
  <2>1. \A s \in Billers : biller'[s] = BP!Idle
    BY <1>2 DEF BillingLost
  <2>2. BP!Idle \in BP!Request /\ BP!Idle.pc = "idle"
    BY BP!IdleTyped
  <2>3. UNCHANGED <<inv, trip, announced>>
    BY <1>2 DEF BillingLost
  <2>4. BP!TypeOK'
    BY <1>2, <2>2, <2>3 DEF BillingLost, BillingInv, BP!PostInv, BP!TypeOK
  <2>5. BP!Dutiful' /\ BP!ClerkView' /\ BP!AnnouncedIsPaid'
    BY <2>1, <2>2, <2>3 DEF BillingInv, BP!PostInv, BP!Dutiful, BP!ClerkView,
       BP!AnnouncedIsPaid
  <2>6. BP!FrozenTotals' /\ BP!PaidMatchesLines' /\ BP!FiniteLines'
    BY <2>1, <2>2, <2>3 DEF BillingInv, BP!FrozenTotals, BP!PaidMatchesLines,
       BP!FiniteLines, BP!Born, BP!Exists
  <2> QED
    BY <2>4, <2>5, <2>6 DEF BillingInv, BP!PostInv
<1> QED
  BY <1>1, <1>2 DEF BillingMoves

\* Payroll likewise.
LEMMA PayrollKept ==
    ASSUME Clerks, PayrollInv, PayrollMoves
    PROVE  PayrollInv'
<1> USE PayrollAssumptions
<1>1. CASE [PP!Next]_(PP!vars)
  <2>1. PP!OneClerk
    BY DEF Clerks, P!OneClerk, PP!OneClerk, P!AtMostOne, PP!AtMostOne
  <2>2. PP!TypeOK' /\ PP!Dutiful'
    BY <1>1, PP!TypeStep, PP!DutifulStep DEF PayrollInv, PP!PostInv
  <2>3. PP!ClerkView' /\ PP!AnnouncedIsPaid'
    BY <1>1, <2>1, PP!PostStep DEF PayrollInv
  <2>4. PP!Frozen'
    BY <1>1, PP!FrozenStep DEF PayrollInv, PP!PostInv
  <2>5. PP!FiniteLines'
    BY <1>1, PP!FiniteStep DEF PayrollInv, PP!PostInv
  <2> QED
    BY <2>2, <2>3, <2>4, <2>5 DEF PayrollInv, PP!PostInv
<1>2. CASE PayrollLost
  <2>1. \A s \in Payers : payer'[s] = PP!Idle
    BY <1>2 DEF PayrollLost
  <2>2. PP!Idle \in PP!Request /\ PP!Idle.pc = "idle"
    BY PP!IdleTyped
  <2>3. UNCHANGED <<run, crew, paidOut>>
    BY <1>2 DEF PayrollLost
  <2>4. PP!TypeOK'
    BY <1>2, <2>2, <2>3 DEF PayrollLost, PayrollInv, PP!PostInv, PP!TypeOK
  <2>5. PP!Dutiful' /\ PP!ClerkView' /\ PP!AnnouncedIsPaid'
    BY <2>1, <2>2, <2>3 DEF PayrollInv, PP!PostInv, PP!Dutiful, PP!ClerkView,
       PP!AnnouncedIsPaid
  <2>6. PP!Frozen' /\ PP!FiniteLines'
    BY <2>1, <2>2, <2>3 DEF PayrollInv, PP!Frozen, PP!FiniteLines, PP!Born, PP!Exists
  <2> QED
    BY <2>4, <2>5, <2>6 DEF PayrollInv, PP!PostInv
<1> QED
  BY <1>1, <1>2 DEF PayrollMoves

\* What a step of Settlement is for Billing and for Payroll.
LEMMA BillingView ==
    ASSUME [SettlementNext]_allVars
    PROVE  BillingMoves
<1>1. ASSUME NEW s \in Billers, BillingStep(s) PROVE BP!Next
  BY <1>1, BillStartCreate, BillFetchTrips, BillNumberInvoice, BillInsertInvoice,
     BillNumberTaken, BillStartUpdate, BillWriteUpdate, BillStartRemove, BillDeleteInvoice
     DEF BillingStep, B!CreateStep, B!RemoveStep, BP!Next, BP!CreateStep, BP!UpdateStep,
     BP!RemoveStep, B!Statuses, BP!Statuses, B!Transitions, BP!Transitions
<1>2. ASSUME NEW s \in Billers, InvoicePaid(s) PROVE BP!Next
  BY <1>2, BillAnnounce DEF InvoicePaid, BP!Next, BP!UpdateStep
<1>3. CASE TripStep
  BY <1>3, BillEnterTrip, BillEditTrip, BillDeleteTrip
     DEF TripStep, BillingMoves, BP!Next, BP!TripStep
<1>4. ASSUME NEW s \in Billers, B!Fail(s) PROVE BP!Next
  BY <1>4, BillFail DEF BP!Next
<1>5. CASE Crash
  BY <1>5 DEF Crash, BillingMoves, BillingLost, B!Idle, BP!Idle, B!NoRow, BP!NoRow,
     B!NoLines, BP!NoLines
<1>6. CASE UNCHANGED billingVars
  BY <1>6 DEF BillingMoves, billingVars, BP!vars
<1>7. CASE RequestStep
  BY <1>1, <1>2, <1>6, <1>7 DEF RequestStep, BillingMoves, PayrollStep, PayrollPaid,
     CostStep, CostCreated, DeskStep, billingVars, BP!vars
<1>8. CASE Failure
  BY <1>4, <1>6, <1>8 DEF Failure, BillingMoves
<1> QED
  BY <1>3, <1>5, <1>6, <1>7, <1>8 DEF SettlementNext, BillingMoves, HandlerStep, allVars,
     billingVars, BP!vars

LEMMA PayrollView ==
    ASSUME [SettlementNext]_allVars
    PROVE  PayrollMoves
<1>1. ASSUME NEW s \in Payers, PayrollStep(s) PROVE PP!Next
  BY <1>1, PayStartCreate, PayFetchTrips, PayNumberRun, PayInsertRun,
     PayNumberTaken, PayStartUpdate, PayWriteUpdate, PayStartRemove, PayDeleteRun
     DEF PayrollStep, P!CreateStep, P!RemoveStep, PP!Next, PP!CreateStep, PP!UpdateStep,
     PP!RemoveStep, P!Statuses, PP!Statuses, P!Transitions, PP!Transitions
<1>2. ASSUME NEW s \in Payers, PayrollPaid(s) PROVE PP!Next
  BY <1>2, PayAnnounce DEF PayrollPaid, PP!Next, PP!UpdateStep
<1>3. CASE TripStep
  BY <1>3, PayEnterTrip, PayEditTrip, PayDeleteTrip
     DEF TripStep, PayrollMoves, PP!Next, PP!TripStep, P!LiveTrip, PP!LiveTrip
<1>4. ASSUME NEW s \in Payers, P!Fail(s) PROVE PP!Next
  BY <1>4, PayFail DEF PP!Next
<1>5. CASE Crash
  BY <1>5 DEF Crash, PayrollMoves, PayrollLost, P!Idle, PP!Idle
<1>6. CASE UNCHANGED payrollVars
  BY <1>6 DEF PayrollMoves, payrollVars, PP!vars
<1>7. CASE RequestStep
  BY <1>1, <1>2, <1>6, <1>7 DEF RequestStep, PayrollMoves, BillingStep, InvoicePaid,
     CostStep, CostCreated, DeskStep, payrollVars, PP!vars
<1>8. CASE Failure
  BY <1>4, <1>6, <1>8 DEF Failure, PayrollMoves
<1> QED
  BY <1>3, <1>5, <1>6, <1>7, <1>8 DEF SettlementNext, PayrollMoves, HandlerStep, allVars,
     payrollVars, PP!vars

-----------------------------------------------------------------------------
\* The ledger within Settlement.  A source is emitted once its event was, which
\* happens once; its handler and then its entry are then the only ones, and carry
\* what it is worth, which never changes again.

Announcing(k) == {s \in Spenders : spender[s].pc = "announce" /\ spender[s].id = k}

Emitted(src) ==
    /\ src \in InvoiceIds => announced[src] > 0
    /\ src \in RunIds => paidOut[src] > 0
    /\ src \in CostIds => cost[src].state # "absent" /\ Announcing(src) = {}

CostsInv ==
    /\ cost \in [CostIds -> C!Cost]
    /\ spender \in [Spenders -> C!Request]
    /\ \A s \in Spenders :
          /\ spender[s].pc = "insert" => spender[s].amount \in Spends
          /\ spender[s].pc \in {"announce", "delete"} =>
                spender[s].id \in CostIds /\ cost[spender[s].id].state # "absent"
          /\ spender[s].pc = "announce" =>
                spender[s].amount = cost[spender[s].id].amount
    /\ \A s, x \in Spenders :
          spender[s].pc = "announce" /\ spender[x].pc = "announce"
             /\ spender[s].id = spender[x].id => s = x

\* Desks open accounts and change them.
DesksManage == \A d \in Slots : Duties[d] \subseteq {"createAccount", "updateAccount"}

DeskView == \A d \in Slots : req[d].pc \in {"idle", "insertAccount", "demote", "write"}

Busy(p) == post[p].pc # "idle"

HandlerView ==
    /\ \A p \in Posters : Busy(p) =>
          /\ post[p].source \in Sources
          /\ Emitted(post[p].source) /\ EntriesFor(post[p].source) = {}
          /\ post[p].amount = Worth(post[p].source)
          /\ post[p].pc = "insert" => post[p].id \in Accounts
    /\ \A p, q \in Posters :
          Busy(p) /\ Busy(q) /\ post[p].source = post[q].source => p = q

EntryView ==
    /\ IsFiniteSet(Live)
    /\ \A e \in Live :
          /\ entry[e].source \in Sources /\ Emitted(entry[e].source)
          /\ entry[e].amount = Worth(entry[e].source)
          /\ entry[e].account \in Accounts

LedgerInv == TypeOK /\ DeskView /\ HandlerView /\ EntryView /\ PostedOnce

\* Nothing emitted changes its worth.
Steady == \A src \in Sources : Emitted(src) => Emitted(src)' /\ Worth(src)' = Worth(src)

\* A step of the treasury that changes neither entries nor handlers.
LEMMA QuietKept ==
    ASSUME LedgerInv, Steady, TypeOK', DeskView', post' = post, entry' = entry,
           Accounts \subseteq Accounts'
    PROVE  LedgerInv'
<1> USE DEF LedgerInv
<1>1. Live' = Live /\ \A src : EntriesFor(src)' = EntriesFor(src)
  BY DEF Live, EntriesFor
<1>2. \A p : Busy(p)' <=> Busy(p)
  BY DEF Busy
<1>3. HandlerView'
  <2>1. \A p \in Posters : post[p].pc = "insert" => post[p].id \in Accounts'
    BY DEF HandlerView, Busy
  <2> QED
    BY <1>1, <1>2, <2>1 DEF HandlerView, Steady
<1>4. EntryView'
  BY <1>1 DEF EntryView, Steady
<1>5. PostedOnce'
  BY <1>1 DEF PostedOnce
<1> QED
  BY <1>3, <1>4, <1>5

\* A desk opens or changes an account, which stays.
LEMMA DeskKept ==
    ASSUME DesksManage, LedgerInv, Steady, NEW d \in Slots,
           ManagerStep(d) \/ LedgerStep(d) \/ Fail(d)
    PROVE  LedgerInv'
<1> USE DEF LedgerInv
<1>1. TypeOK'
  BY TypeStep DEF Next
<1>2. /\ req[d].pc \in {"idle", "insertAccount", "demote", "write"}
      /\ Duties[d] \subseteq {"createAccount", "updateAccount"}
  BY DEF DesksManage, DeskView
<1>3. ~ LedgerStep(d)
  BY <1>2 DEF LedgerStep, StartRemoveAccount, StartRecord, CountEntries, DeleteAccount,
     Record, StartErase, Erase, Serves
<1>4. /\ entry' = entry /\ post' = post
      /\ \A x \in Slots \ {d} : req'[x] = req[x]
  BY <1>3 DEF ManagerStep, CountAccounts, InsertAccount, StartUpdate, DemoteOthers,
     WriteAccount, Fail, Return, TypeOK
<1>5. req'[d].pc \in {"idle", "insertAccount", "demote", "write"}
  <2>1. ASSUME Return(d) PROVE req'[d].pc = "idle"
    BY <2>1, IdleTyped DEF Return, TypeOK
  <2>2. ASSUME CountAccounts(d) PROVE req'[d].pc = "insertAccount"
    <3> DEFINE r == [Idle EXCEPT !.pc = "insertAccount", !.first = (Accounts = {})]
    <3>1. r.pc = "insertAccount"
      BY IdleTyped DEF Request
    <3>2. req' = [req EXCEPT ![d] = r]
      BY <2>2 DEF CountAccounts
    <3> HIDE DEF r
    <3> QED
      BY <3>1, <3>2 DEF TypeOK
  <2>3. ASSUME NEW a, NEW def, NEW st, StartUpdate(d, a, def, st)
        PROVE  req'[d].pc \in {"demote", "write"}
    <3> DEFINE r == [Idle EXCEPT !.pc = IF def = TRUE THEN "demote" ELSE "write",
                                 !.id = a, !.isDefault = def, !.status = st]
    <3>1. r.pc \in {"demote", "write"}
      BY IdleTyped DEF Request
    <3>2. req' = [req EXCEPT ![d] = r]
      BY <2>3 DEF StartUpdate
    <3> HIDE DEF r
    <3> QED
      BY <3>1, <3>2 DEF TypeOK
  <2>4. ASSUME DemoteOthers(d) PROVE req'[d].pc = "write"
    BY <2>4 DEF DemoteOthers, TypeOK, Request
  <2> QED
    BY <1>3, <2>1, <2>2, <2>3, <2>4 DEF ManagerStep, InsertAccount, WriteAccount, Fail
<1>6. DeskView'
  BY <1>4, <1>5 DEF DeskView
<1>7. Accounts \subseteq Accounts'
  <2> SUFFICES ASSUME NEW b \in AccountIds, Exists(b) PROVE Exists(b)'
    BY DEF Accounts
  <2>1. ASSUME NEW a \in AccountIds, InsertAccount(d, a) PROVE Exists(b)'
    BY <2>1 DEF InsertAccount, Exists, TypeOK
  <2>2. ASSUME DemoteOthers(d) PROVE Exists(b)'
    BY <2>2 DEF DemoteOthers, Exists, TypeOK, Account
  <2>3. ASSUME WriteAccount(d) PROVE Exists(b)'
    <3>1. \A row \in Account : row.status \in {"active", "disabled"} =>
             WithColumns(row, req[d]).status \in {"active", "disabled"}
      BY DEF WithColumns, Account, TypeOK, Request
    <3> QED
      BY <2>3, <3>1 DEF WriteAccount, Exists, TypeOK
  <2>4. ASSUME account' = account PROVE Exists(b)'
    BY <2>4 DEF Exists
  <2> QED
    BY <1>3, <2>1, <2>2, <2>3, <2>4 DEF ManagerStep, CountAccounts, StartUpdate, Fail
<1> QED
  BY <1>1, <1>4, <1>6, <1>7, QuietKept

\* A handler goes on with its source, or ends.
LEMMA HandlerKept ==
    ASSUME LedgerInv, Steady, TypeOK', UNCHANGED <<account, entry, req>>, NEW p \in Posters,
           \A q \in Posters \ {p} : post'[q] = post[q],
           \/ post'[p].pc = "idle"
           \/ /\ Busy(p) /\ post'[p].source = post[p].source
              /\ post'[p].amount = post[p].amount
              /\ post'[p].pc = "insert" => post'[p].id \in Accounts
    PROVE  LedgerInv'
<1> USE DEF LedgerInv
<1>1. Live' = Live /\ Accounts' = Accounts /\ \A src : EntriesFor(src)' = EntriesFor(src)
  BY DEF Live, EntriesFor, Accounts, Exists
<1>2. \A q \in Posters : Busy(q)' =>
         /\ Busy(q) /\ post'[q].source = post[q].source
         /\ post'[q].amount = post[q].amount
         /\ post'[q].pc = "insert" => post'[q].id \in Accounts
  BY DEF Busy, HandlerView
<1>3. HandlerView'
  BY <1>1, <1>2 DEF HandlerView, Steady
<1>4. EntryView'
  BY <1>1 DEF EntryView, Steady
<1>5. PostedOnce' /\ DeskView'
  BY <1>1 DEF PostedOnce, DeskView
<1> QED
  BY <1>3, <1>4, <1>5

\* The entry takes the place of its handler.
LEMMA InsertKept ==
    ASSUME LedgerInv, Steady, TypeOK', NEW p \in Posters, NEW e \in EntryIds,
           InsertPost(p, e), Exists(post[p].id)
    PROVE  LedgerInv'
<1> USE DEF LedgerInv
<1>1. PICK src \in Sources, a \in AccountIds :
        /\ src = post[p].source /\ a = post[p].id /\ post[p].amount = Worth(src)
        /\ Emitted(src) /\ EntriesFor(src) = {}
        /\ \A q \in Posters \ {p} : Busy(q) => post[q].source # src
  BY DEF HandlerView, Busy, InsertPost, Accounts
<1> DEFINE row == [state |-> "live", account |-> a, amount |-> post[p].amount,
                   source |-> src]
<1>2. /\ entry' = [entry EXCEPT ![e] = row] /\ entry[e].state = "absent"
      /\ UNCHANGED <<account, req>>
  BY <1>1 DEF InsertPost
<1>3. /\ \A q \in Posters \ {p} : post'[q] = post[q]
      /\ post'[p].pc = "idle"
  BY RestingTyped DEF InsertPost, Rest, TypeOK
<1>4. a \in Accounts
  BY <1>1 DEF Accounts
<1>5. /\ entry'[e].state = "live" /\ entry'[e].account = a /\ entry'[e].source = src
      /\ entry'[e].amount = Worth(src)
      /\ \A f \in EntryIds \ {e} : entry'[f] = entry[f]
      /\ e \notin Live
  BY <1>1, <1>2 DEF TypeOK, Live
<1>6. Live' = Live \cup {e}
  <2>1. \A f \in EntryIds : f \in Live' <=> f = e \/ f \in Live
    BY <1>5 DEF Live
  <2>2. Live' \subseteq EntryIds /\ Live \subseteq EntryIds
    BY DEF Live
  <2> QED
    BY <2>1, <2>2
<1>7. \A f \in Live : f \in EntryIds \ {e} /\ entry'[f] = entry[f]
  BY <1>5 DEF Live
<1>8. EntriesFor(src)' = {e}
  <2>1. \A f \in Live : entry[f].source # src
    BY <1>1 DEF EntriesFor
  <2> QED
    BY <1>5, <1>6, <1>7, <2>1 DEF EntriesFor
<1>9. \A other \in Sources : other # src => EntriesFor(other)' = EntriesFor(other)
  BY <1>5, <1>6, <1>7 DEF EntriesFor
<1>10. Accounts' = Accounts
  BY <1>2 DEF Accounts, Exists
<1>11. HandlerView'
  <2>1. \A q \in Posters : Busy(q)' =>
           q # p /\ Busy(q) /\ post'[q] = post[q] /\ post[q].source # src
    BY <1>1, <1>3 DEF Busy
  <2> QED
    BY <1>9, <1>10, <2>1 DEF HandlerView, Steady
<1>12. EntryView'
  <2>1. IsFiniteSet(Live')
    BY <1>6, FS_AddElement DEF EntryView
  <2> QED
    BY <1>1, <1>4, <1>5, <1>6, <1>7, <1>10, <2>1 DEF EntryView, Steady
<1>13. PostedOnce'
  <2>1. \A other \in Sources : \A f, g \in EntriesFor(other)' : f = g
    BY <1>8, <1>9 DEF PostedOnce
  <2> QED
    BY <2>1 DEF PostedOnce
<1>14. DeskView'
  BY <1>2 DEF DeskView
<1> QED
  BY <1>11, <1>12, <1>13, <1>14

\* A handler looks for a duplicate, finds an account, inserts or fails.
LEMMA PosterKept ==
    ASSUME LedgerInv, Steady, NEW p \in Posters, PostStep(p) \/ FailPost(p)
    PROVE  LedgerInv'
<1> USE DEF LedgerInv
<1>1. TypeOK'
  BY TypeStep DEF Next
<1>2. ASSUME Rest(p), UNCHANGED <<account, entry, req>> PROVE LedgerInv'
  <2>1. post'[p].pc = "idle" /\ \A q \in Posters \ {p} : post'[q] = post[q]
    BY <1>2, RestingTyped DEF Rest, TypeOK
  <2> QED
    BY <1>1, <1>2, <2>1, HandlerKept
<1>3. ASSUME FindDupe(p) \/ FindDefault(p) \/ FindOldest(p) PROVE LedgerInv'
  <2>1. CASE Rest(p)
    BY <1>2, <1>3, <2>1 DEF FindDupe, FindDefault, FindOldest
  <2>2. CASE ~ Rest(p)
    <3>1. /\ post[p] \in Posting /\ post \in [Posters -> Posting]
          /\ Active \subseteq Accounts
      BY DEF TypeOK, Active, Accounts, Exists
    <3>2. /\ post'[p].source = post[p].source /\ post'[p].amount = post[p].amount
          /\ post'[p].pc = "insert" => post'[p].id \in Accounts
          /\ \A q \in Posters \ {p} : post'[q] = post[q]
      <4>1. ASSUME NEW step, post' = [post EXCEPT ![p].pc = step], step # "insert"
            PROVE  <3>2!:
        BY <3>1, <4>1 DEF Posting
      <4>2. ASSUME NEW a \in Active, post' = [post EXCEPT ![p].pc = "insert", ![p].id = a]
            PROVE  <3>2!:
        BY <3>1, <4>2 DEF Posting
      <4> QED
        BY <1>3, <2>2, <4>1, <4>2 DEF FindDupe, FindDefault, FindOldest
    <3>3. Busy(p) /\ UNCHANGED <<account, entry, req>>
      BY <1>3 DEF FindDupe, FindDefault, FindOldest, Busy
    <3> QED
      BY <1>1, <3>2, <3>3, HandlerKept
  <2> QED
    BY <2>1, <2>2
<1>4. ASSUME NEW e \in EntryIds, InsertPost(p, e) PROVE LedgerInv'
  BY <1>1, <1>2, <1>4, InsertKept DEF InsertPost
<1> QED
  BY <1>2, <1>3, <1>4 DEF PostStep, FailPost

\* The handler of an event begins.
LEMMA ReceiveKept ==
    ASSUME LedgerInv, Steady, NEW p \in Posters, NEW src \in Sources, NEW n \in Int,
           Receive(p, src, n), ~ Emitted(src), Emitted(src)', n = Worth(src)'
    PROVE  LedgerInv'
<1> USE DEF LedgerInv
<1> DEFINE r == [Resting EXCEPT !.pc = "dupe", !.source = src, !.amount = n]
<1>1. /\ r \in Posting /\ r.pc = "dupe" /\ r.source = src /\ r.amount = n
  BY RestingTyped DEF Posting
<1>2. post' = [post EXCEPT ![p] = r] /\ UNCHANGED <<account, entry, req>>
  BY DEF Receive
<1> HIDE DEF r
<1>3. post'[p] = r /\ \A q \in Posters \ {p} : post'[q] = post[q]
  BY <1>2 DEF TypeOK
<1>4. TypeOK' /\ DeskView'
  BY <1>1, <1>2 DEF TypeOK, DeskView
<1>5. Live' = Live /\ Accounts' = Accounts /\ \A s : EntriesFor(s)' = EntriesFor(s)
  BY <1>2 DEF Live, EntriesFor, Accounts, Exists
<1>6. EntriesFor(src) = {} /\ \A q \in Posters : Busy(q) => post[q].source # src
  BY DEF HandlerView, EntryView, EntriesFor
<1>7. HandlerView'
  <2>1. \A q \in Posters \ {p} : Busy(q)' => Busy(q)
    BY <1>3 DEF Busy
  <2>2. \A q \in Posters : Busy(q)' =>
           /\ post'[q].source \in Sources
           /\ post'[q].pc = "insert" => post'[q].id \in Accounts'
    BY <1>1, <1>3, <1>5, <2>1 DEF HandlerView
  <2>3. ASSUME NEW q \in Posters, Busy(q)', NEW s \in Sources, s = post'[q].source
        PROVE  Emitted(s)' /\ EntriesFor(s)' = {} /\ post'[q].amount = Worth(s)'
    BY <1>1, <1>3, <1>5, <1>6, <2>1, <2>3 DEF HandlerView, Steady
  <2>4. \A q, x \in Posters :
           Busy(q)' /\ Busy(x)' /\ post'[q].source = post'[x].source => q = x
    BY <1>1, <1>3, <1>6, <2>1 DEF HandlerView
  <2> QED
    BY <2>2, <2>3, <2>4 DEF HandlerView
<1>8. EntryView' /\ PostedOnce'
  BY <1>2, <1>5 DEF EntryView, PostedOnce, Steady
<1> QED
  BY <1>4, <1>7, <1>8

\* All handlers and desks are lost.
LEMMA LostKept ==
    ASSUME LedgerInv, Steady, UNCHANGED <<account, entry>>,
           req' = [d \in Slots |-> Idle], post' = [p \in Posters |-> Resting]
    PROVE  LedgerInv'
<1> USE DEF LedgerInv
<1>1. TypeOK' /\ DeskView'
  BY IdleTyped, RestingTyped DEF TypeOK, DeskView
<1>2. Live' = Live /\ Accounts' = Accounts /\ \A s : EntriesFor(s)' = EntriesFor(s)
  BY DEF Live, EntriesFor, Accounts, Exists
<1>3. HandlerView'
  BY RestingTyped DEF HandlerView, Busy
<1>4. EntryView' /\ PostedOnce'
  BY <1>2 DEF EntryView, PostedOnce, Steady
<1> QED
  BY <1>1, <1>3, <1>4

-----------------------------------------------------------------------------
\* What is emitted is settled, at a worth that stays.

\* What the documents say of a source, by the table it is from.
LEMMA InvoiceSource ==
    ASSUME NEW i \in InvoiceIds
    PROVE  /\ i \in Sources
           /\ Emitted(i) <=> announced[i] > 0
           /\ Emitted(i)' <=> announced'[i] > 0
           /\ Settled(i) <=> inv[i].status = "paid"
           /\ Worth(i) = inv[i].amountPaid
           /\ Worth(i)' = inv'[i].amountPaid
<1>1. i \in Sources /\ i \notin RunIds /\ i \notin CostIds
  BY SourcesAssumption
<1> QED
  BY <1>1 DEF Emitted, Settled, Worth

LEMMA RunSource ==
    ASSUME NEW i \in RunIds
    PROVE  /\ i \in Sources
           /\ Emitted(i) <=> paidOut[i] > 0
           /\ Emitted(i)' <=> paidOut'[i] > 0
           /\ Settled(i) <=> run[i].status = "paid"
           /\ Worth(i) = 0 - P!Total(run[i].lines)
           /\ Worth(i)' = 0 - P!Total(run'[i].lines)
<1>1. i \in Sources /\ i \notin InvoiceIds /\ i \notin CostIds
  BY SourcesAssumption
<1> QED
  BY <1>1 DEF Emitted, Settled, Worth

LEMMA CostSource ==
    ASSUME NEW k \in CostIds
    PROVE  /\ k \in Sources
           /\ Emitted(k) <=> cost[k].state # "absent" /\ Announcing(k) = {}
           /\ Emitted(k)' <=> cost'[k].state # "absent" /\ Announcing(k)' = {}
           /\ Settled(k) <=> cost[k].state # "absent"
           /\ Worth(k) = 0 - cost[k].amount
           /\ Worth(k)' = 0 - cost'[k].amount
<1>1. k \in Sources /\ k \notin InvoiceIds /\ k \notin RunIds
  BY SourcesAssumption
<1> QED
  BY <1>1 DEF Emitted, Settled, Worth

\* The amounts of the events are numbers, those of the documents.
LEMMA InvoiceWorth ==
    ASSUME BillingInv, NEW i \in InvoiceIds, inv[i].status = "paid"
    PROVE  inv[i].amountPaid = inv[i].total /\ inv[i].total \in Int
<1>1. BP!Exists(i)
  BY DEF BP!Exists, BP!Statuses, BP!Transitions
<1>2. inv[i].total \in Int
  BY <1>1, BP!TotalTyped, BillingAssumptions DEF BillingInv, BP!PostInv
<1> QED
  BY <1>1, <1>2 DEF BillingInv, BP!PaidMatchesLines

LEMMA RunWorth ==
    ASSUME PayrollInv, NEW i \in RunIds, run[i].status = "paid"
    PROVE  run[i].total = P!Total(run[i].lines) /\ run[i].total \in Int
<1>1. PP!Exists(i)
  BY DEF PP!Exists, PP!Statuses, PP!Transitions
<1>2. run[i].total = P!Total(run[i].lines)
  BY <1>1, PayTotal DEF PayrollInv, PP!Frozen
<1>3. run[i].lines \in SUBSET PP!Line
  BY DEF PayrollInv, PP!PostInv, PP!TypeOK, PP!Run
<1>4. PP!IsFiniteSet(run[i].lines)
  BY DEF PayrollInv, PP!FiniteLines
<1>5. PP!Total(run[i].lines) \in Int
  BY <1>3, <1>4, PP!StatedIsTotal, PayrollAssumptions
<1> QED
  BY <1>2, <1>5, PayTotal

LEMMA CostWorth ==
    ASSUME CostsInv, NEW k \in CostIds, cost[k].state # "absent"
    PROVE  cost[k].amount \in Int
<1>1. cost[k].amount \in Spends
  BY DEF CostsInv, C!Cost, C!NoCost
<1>2. \A n \in Spends : n \in Int
  BY MoneyAssumption
<1> QED
  BY <1>1, <1>2

\* Whatever is emitted has been paid for good (AnnouncedIsPaid) or entered.
LEMMA EmittedSettled ==
    ASSUME BillingInv, PayrollInv, CostsInv, NEW src \in Sources, Emitted(src)
    PROVE  Settled(src) /\ Worth(src) \in Int
<1>1. CASE src \in InvoiceIds
  <2>1. inv[src].status = "paid"
    BY <1>1, InvoiceSource DEF BillingInv, BP!PostInv, BP!AnnouncedIsPaid
  <2> QED
    BY <1>1, <2>1, InvoiceSource, InvoiceWorth
<1>2. CASE src \in RunIds
  <2>1. run[src].status = "paid"
    BY <1>2, RunSource DEF PayrollInv, PP!PostInv, PP!AnnouncedIsPaid
  <2>2. Settled(src) /\ Worth(src) = 0 - run[src].total /\ run[src].total \in Int
    BY <1>2, <2>1, RunSource, RunWorth
  <2> QED
    BY <2>2
<1>3. CASE src \in CostIds
  <2>1. Settled(src) /\ Worth(src) = 0 - cost[src].amount /\ cost[src].amount \in Int
    BY <1>3, CostSource, CostWorth
  <2> QED
    BY <2>1
<1> QED
  BY <1>1, <1>2, <1>3, SourcesAssumption

\* A paid invoice stays, its amount as it was recorded.
LEMMA InvoiceSteady ==
    ASSUME Clerks, BillingInv, BillingMoves, NEW i \in InvoiceIds, announced[i] > 0
    PROVE  announced'[i] > 0 /\ inv'[i].amountPaid = inv[i].amountPaid
<1>1. announced \in [InvoiceIds -> Nat] /\ inv[i].status = "paid"
  BY DEF BillingInv, BP!PostInv, BP!TypeOK, BP!AnnouncedIsPaid
<1>2. announced' = announced \/ \E s \in Billers : BP!Announce(s)
  BY DEF BillingMoves, BillingLost, BP!vars, BP!Next, BP!TripStep, BP!EnterTrip, BP!EditTrip,
     BP!DeleteTrip, BP!CreateStep, BP!StartCreate, BP!FetchTrips, BP!NumberInvoice,
     BP!InsertInvoice, BP!NumberTaken, BP!UpdateStep, BP!StartUpdate, BP!WriteUpdate,
     BP!RemoveStep, BP!StartRemove, BP!DeleteInvoice, BP!Fail
<1>3. announced'[i] > 0
  BY <1>1, <1>2 DEF BP!Announce
<1>4. inv'[i].status = "paid"
  BY <1>3, BillingKept DEF BillingInv, BP!PostInv, BP!AnnouncedIsPaid
<1>5. CASE BP!Next
  <2>1. BP!RowKept(i) \/ BP!RowMade(i)
    BY <1>5, BP!RowsChange, BillingAssumptions DEF BillingInv, BP!PostInv, BP!PaidInv
  <2>2. inv'[i].amountPaid \in {inv[i].amountPaid, inv[i].total}
    BY <1>1, <1>4, <2>1 DEF BP!RowKept, BP!RowMade
  <2> QED
    BY <1>1, <1>3, <2>2, InvoiceWorth
<1> QED
  BY <1>3, <1>5 DEF BillingMoves, BillingLost, BP!vars

\* A paid run stays, its lines frozen.
LEMMA RunSteady ==
    ASSUME Clerks, PayrollInv, PayrollMoves, NEW i \in RunIds, paidOut[i] > 0
    PROVE  paidOut'[i] > 0 /\ run'[i].lines = run[i].lines
<1>1. paidOut \in [RunIds -> Nat] /\ run[i].status = "paid"
  BY DEF PayrollInv, PP!PostInv, PP!TypeOK, PP!AnnouncedIsPaid
<1>2. CASE run' = run /\ paidOut' = paidOut
  BY <1>2
<1>3. ASSUME NEW s \in Payers, PP!Effect(s)
      PROVE  paidOut'[i] > 0 /\ (run'[i].status = "paid" => run'[i].lines = run[i].lines)
  BY <1>1, <1>3 DEF PP!Effect, PP!BeganCreate, PP!BeganUpdate, PP!BeganRemove, PP!Fetched,
     PP!Numbered, PP!Returned, PP!Inserted, PP!Moved, PP!Posted, PP!Discarded, PP!Quiet,
     PP!Others, PP!NoRow
<1>4. CASE [PP!Next]_(PP!vars)
  <2>1. (PP!Quiet /\ payer' = payer) \/ \E s \in Payers : PP!Effect(s)
    BY <1>4, PP!StepEffect, PayrollAssumptions DEF PayrollInv, PP!PostInv
  <2>2. paidOut'[i] > 0 => run'[i].status = "paid"
    BY PayrollKept DEF PayrollInv, PP!PostInv, PP!AnnouncedIsPaid
  <2> QED
    BY <1>2, <1>3, <2>1, <2>2 DEF PP!Quiet
<1> QED
  BY <1>2, <1>4 DEF PayrollMoves, PayrollLost

\* What a step does to the costs: one request proceeds, all are lost or none does.
CostMoves ==
    \/ \E s \in Spenders : C!CostStep(s) \/ C!Announce(s) \/ C!Fail(s)
    \/ UNCHANGED costVars
    \/ UNCHANGED cost /\ spender' = [s \in Spenders |-> C!Idle]

LEMMA CostIdleTyped == C!Idle \in C!Request /\ C!Idle.pc = "idle"
BY DEF C!Idle, C!Request

\* A cost stays what it was entered as; only an insert adds to those announcing.
LEMMA CostsRest ==
    ASSUME CostsInv, spender' \in [Spenders -> C!Request], cost' = cost,
           \A x \in Spenders :
              \/ spender'[x] = spender[x]
              \/ spender'[x].pc = "idle"
              \/ spender'[x].pc = "insert" /\ spender'[x].amount \in Spends
              \/ /\ spender'[x].pc = "delete" /\ spender'[x].id \in CostIds
                 /\ cost[spender'[x].id].state = "live"
    PROVE  /\ CostsInv'
           /\ \A k \in CostIds : Emitted(k) => Emitted(k)' /\ cost'[k].amount = cost[k].amount
<1>1. CostsInv'
  BY DEF CostsInv
<1>2. \A k \in CostIds : Announcing(k)' \subseteq Announcing(k)
  BY DEF Announcing
<1> QED
  BY <1>1, <1>2, CostSource

\* An inserted cost is announced by its own request, or never.
LEMMA CostsKept ==
    ASSUME CostsInv, CostMoves
    PROVE  /\ CostsInv'
           /\ \A k \in CostIds : Emitted(k) => Emitted(k)' /\ cost'[k].amount = cost[k].amount
<1> DEFINE Goal == /\ CostsInv'
                   /\ \A k \in CostIds :
                         Emitted(k) => Emitted(k)' /\ cost'[k].amount = cost[k].amount
<1>0. cost \in [CostIds -> C!Cost] /\ spender \in [Spenders -> C!Request]
  BY DEF CostsInv
<1>1. CASE UNCHANGED costVars
  BY <1>0, <1>1, CostsRest DEF costVars
<1>2. CASE UNCHANGED cost /\ spender' = [s \in Spenders |-> C!Idle]
  <2>1. \A x \in Spenders : spender'[x].pc = "idle"
    BY <1>2, CostIdleTyped
  <2>2. spender' \in [Spenders -> C!Request]
    BY <1>2, CostIdleTyped
  <2> QED
    BY <1>2, <2>1, <2>2, CostsRest
<1>3. ASSUME NEW s \in Spenders, C!Return(s), cost' = cost PROVE Goal
  <2>1. spender'[s].pc = "idle" /\ \A x \in Spenders \ {s} : spender'[x] = spender[x]
    BY <1>0, <1>3, CostIdleTyped DEF C!Return
  <2>2. spender' \in [Spenders -> C!Request]
    BY <1>0, <1>3, CostIdleTyped DEF C!Return
  <2> QED
    BY <1>3, <2>1, <2>2, CostsRest
<1>4. ASSUME NEW s \in Spenders, NEW n \in Spends, C!StartCreate(s, n) PROVE Goal
  <2> DEFINE r == [C!Idle EXCEPT !.pc = "insert", !.amount = n]
  <2>1. r \in C!Request /\ r.pc = "insert" /\ r.amount = n
    BY CostIdleTyped DEF C!Request
  <2>2. spender' = [spender EXCEPT ![s] = r] /\ cost' = cost
    BY <1>4 DEF C!StartCreate
  <2> HIDE DEF r
  <2>3. spender'[s] = r /\ \A x \in Spenders \ {s} : spender'[x] = spender[x]
    BY <1>0, <2>2
  <2>4. spender' \in [Spenders -> C!Request]
    BY <1>0, <2>1, <2>2
  <2> QED
    BY <2>1, <2>2, <2>3, <2>4, CostsRest
<1>5. ASSUME NEW s \in Spenders, NEW k \in CostIds, C!StartRemove(s, k) PROVE Goal
  <2> DEFINE r == [C!Idle EXCEPT !.pc = "delete", !.id = k]
  <2>1. r \in C!Request /\ r.pc = "delete" /\ r.id = k
    BY CostIdleTyped DEF C!Request
  <2>2. spender' = [spender EXCEPT ![s] = r] /\ cost' = cost /\ cost[k].state = "live"
    BY <1>5 DEF C!StartRemove
  <2> HIDE DEF r
  <2>3. spender'[s] = r /\ \A x \in Spenders \ {s} : spender'[x] = spender[x]
    BY <1>0, <2>2
  <2>4. spender' \in [Spenders -> C!Request]
    BY <1>0, <2>1, <2>2
  <2> QED
    BY <2>1, <2>2, <2>3, <2>4, CostsRest
<1>6. ASSUME NEW s \in Spenders, NEW k \in CostIds, C!InsertCost(s, k) PROVE Goal
  <2>1. /\ cost[k].state = "absent" /\ spender[s].pc = "insert"
        /\ spender[s].amount \in Spends
    BY <1>6 DEF C!InsertCost, CostsInv
  <2>2. /\ cost'[k] = [state |-> "live", amount |-> spender[s].amount]
        /\ \A j \in CostIds \ {k} : cost'[j] = cost[j]
    BY <1>0, <1>6 DEF C!InsertCost
  <2>3. /\ spender'[s].pc = "announce" /\ spender'[s].id = k
        /\ spender'[s].amount = spender[s].amount
        /\ \A x \in Spenders \ {s} : spender'[x] = spender[x]
    BY <1>0, <1>6 DEF C!InsertCost, C!Request
  <2>4. cost' \in [CostIds -> C!Cost] /\ spender' \in [Spenders -> C!Request]
    <3>1. [state |-> "live", amount |-> spender[s].amount] \in C!Cost
      BY <2>1 DEF C!Cost
    <3>2. [spender[s] EXCEPT !.pc = "announce", !.id = k] \in C!Request
      BY <1>0 DEF C!Request
    <3> QED
      BY <1>0, <1>6, <3>1, <3>2 DEF C!InsertCost
  <2>5. \A x \in Spenders : spender[x].pc = "announce" => spender[x].id # k
    BY <2>1 DEF CostsInv
  <2>6. \A j \in CostIds : cost[j].state # "absent" =>
           j # k /\ cost'[j] = cost[j] /\ Announcing(j)' = Announcing(j)
    BY <2>1, <2>2, <2>3 DEF Announcing
  <2>7. CostsInv'
    <3>1. \A x \in Spenders :
             /\ spender'[x].pc = "insert" => spender'[x].amount \in Spends
             /\ spender'[x].pc \in {"announce", "delete"} =>
                   spender'[x].id \in CostIds /\ cost'[spender'[x].id].state # "absent"
             /\ spender'[x].pc = "announce" =>
                   spender'[x].amount = cost'[spender'[x].id].amount
      BY <2>1, <2>2, <2>3 DEF CostsInv
    <3>2. \A y, x \in Spenders :
             spender'[y].pc = "announce" /\ spender'[x].pc = "announce"
                /\ spender'[y].id = spender'[x].id => y = x
      BY <2>3, <2>5 DEF CostsInv
    <3> QED
      BY <2>4, <3>1, <3>2 DEF CostsInv
  <2> QED
    BY <2>6, <2>7, CostSource
<1>7. ASSUME NEW s \in Spenders, C!DeleteCost(s) PROVE Goal
  <2>1. PICK k \in CostIds : k = spender[s].id /\ cost[k].state # "absent"
    BY <1>7 DEF C!DeleteCost, CostsInv
  <2>2. cost' = [cost EXCEPT ![k].state = "deleted"]
    BY <1>7, <2>1 DEF C!DeleteCost
  <2>3. /\ cost' \in [CostIds -> C!Cost]
        /\ \A j \in CostIds : cost'[j].amount = cost[j].amount
        /\ \A j \in CostIds : cost'[j].state = "absent" <=> cost[j].state = "absent"
    <3>1. cost[k] \in [state : {"live", "deleted"}, amount : Spends]
      BY <1>0, <2>1 DEF C!Cost, C!NoCost
    <3>2. /\ cost'[k] \in [state : {"live", "deleted"}, amount : Spends]
          /\ cost'[k].amount = cost[k].amount /\ cost'[k].state = "deleted"
          /\ \A j \in CostIds \ {k} : cost'[j] = cost[j]
      BY <1>0, <2>2, <3>1
    <3>3. cost' \in [CostIds -> C!Cost]
      BY <1>0, <2>2, <3>2 DEF C!Cost
    <3> QED
      BY <2>1, <3>2, <3>3
  <2>4. /\ spender' \in [Spenders -> C!Request]
        /\ spender'[s].pc = "idle" /\ \A x \in Spenders \ {s} : spender'[x] = spender[x]
    BY <1>0, <1>7, CostIdleTyped DEF C!DeleteCost, C!Return
  <2>5. CostsInv'
    <3>1. \A x \in Spenders :
             /\ spender'[x].pc = "insert" => spender'[x].amount \in Spends
             /\ spender'[x].pc \in {"announce", "delete"} =>
                   spender'[x].id \in CostIds /\ cost'[spender'[x].id].state # "absent"
             /\ spender'[x].pc = "announce" =>
                   spender'[x].amount = cost'[spender'[x].id].amount
      BY <2>3, <2>4 DEF CostsInv
    <3>2. \A y, x \in Spenders :
             spender'[y].pc = "announce" /\ spender'[x].pc = "announce"
                /\ spender'[y].id = spender'[x].id => y = x
      BY <2>4 DEF CostsInv
    <3> QED
      BY <2>3, <2>4, <3>1, <3>2 DEF CostsInv
  <2>6. \A j \in CostIds : Announcing(j)' \subseteq Announcing(j)
    BY <2>4 DEF Announcing
  <2> QED
    BY <2>3, <2>5, <2>6, CostSource
<1> QED
  BY <1>1, <1>2, <1>3, <1>4, <1>5, <1>6, <1>7 DEF CostMoves, C!CostStep, C!Announce, C!Fail

\* What a step of Settlement is for the costs.
LEMMA CostView ==
    ASSUME [SettlementNext]_allVars
    PROVE  CostMoves
<1>1. CASE UNCHANGED costVars
  BY <1>1 DEF CostMoves
<1>2. CASE Crash
  BY <1>2 DEF Crash, CostMoves
<1>3. CASE RequestStep
  BY <1>1, <1>3 DEF RequestStep, CostMoves, BillingStep, InvoicePaid, PayrollStep,
     PayrollPaid, CostStep, CostCreated, DeskStep
<1>4. CASE Failure
  BY <1>1, <1>4 DEF Failure, CostMoves
<1> QED
  BY <1>1, <1>2, <1>3, <1>4 DEF SettlementNext, TripStep, HandlerStep, allVars

\* No step of Settlement changes the worth of what is emitted.
LEMMA StepSteady ==
    ASSUME Clerks, BillingInv, PayrollInv, CostsInv, [SettlementNext]_allVars
    PROVE  Steady
<1> SUFFICES ASSUME NEW src \in Sources, Emitted(src)
             PROVE  Emitted(src)' /\ Worth(src)' = Worth(src)
  BY DEF Steady
<1>1. CASE src \in InvoiceIds
  BY <1>1, BillingView, InvoiceSteady, InvoiceSource
<1>2. CASE src \in RunIds
  BY <1>2, PayrollView, RunSteady, RunSource
<1>3. CASE src \in CostIds
  BY <1>3, CostView, CostsKept, CostSource
<1> QED
  BY <1>1, <1>2, <1>3, SourcesAssumption

-----------------------------------------------------------------------------
\* Each event finds its source not yet emitted, and carries what it is worth.

\* Steps of the others do not touch the treasury.
LEMMA StillKept ==
    ASSUME LedgerInv, Steady, UNCHANGED treasuryVars
    PROVE  LedgerInv'
<1>1. TypeOK' /\ DeskView' /\ Accounts' = Accounts
  BY DEF treasuryVars, LedgerInv, TypeOK, DeskView, Accounts, Exists
<1> QED
  BY <1>1, QuietKept DEF treasuryVars

LEMMA InvoicePaidKept ==
    ASSUME BillingInv, LedgerInv, Steady, NEW s \in Billers, InvoicePaid(s)
    PROVE  LedgerInv'
<1>1. PICK i \in InvoiceIds : i = biller[s].id
  BY DEF InvoicePaid, B!Announce, BillingInv, BP!PostInv, BP!Dutiful
<1>2. /\ inv[i].status = "paid" /\ announced[i] = 0 /\ inv' = inv
      /\ announced \in [InvoiceIds -> Nat]
  BY <1>1 DEF InvoicePaid, B!Announce, BillingInv, BP!PostInv, BP!ClerkView, BP!TypeOK
<1>3. CASE announced' # announced
  <2>1. PICK p \in Posters : Receive(p, i, inv[i].total)
    BY <1>1, <1>3 DEF InvoicePaid, Emit
  <2>2. announced' = [announced EXCEPT ![i] = @ + 1]
    BY <1>1, <1>3 DEF InvoicePaid, B!Announce
  <2>3. ~ Emitted(i) /\ Emitted(i)'
    BY <1>2, <2>2, InvoiceSource
  <2>4. inv[i].total \in Int /\ inv[i].total = Worth(i)'
    BY <1>2, InvoiceSource, InvoiceWorth
  <2> QED
    BY <2>1, <2>3, <2>4, InvoiceSource, ReceiveKept
<1> QED
  BY <1>3, StillKept DEF InvoicePaid

LEMMA PayrollPaidKept ==
    ASSUME PayrollInv, LedgerInv, Steady, NEW s \in Payers, PayrollPaid(s)
    PROVE  LedgerInv'
<1>1. PICK i \in RunIds : i = payer[s].id
  BY DEF PayrollPaid, P!Announce, PayrollInv, PP!PostInv, PP!Dutiful
<1>2. /\ run[i].status = "paid" /\ paidOut[i] = 0 /\ run' = run
      /\ paidOut \in [RunIds -> Nat]
  BY <1>1 DEF PayrollPaid, P!Announce, PayrollInv, PP!PostInv, PP!ClerkView, PP!TypeOK
<1>3. CASE paidOut' # paidOut
  <2>1. PICK p \in Posters : Receive(p, i, 0 - run[i].total)
    BY <1>1, <1>3 DEF PayrollPaid, Emit
  <2>2. paidOut' = [paidOut EXCEPT ![i] = @ + 1]
    BY <1>1, <1>3 DEF PayrollPaid, P!Announce
  <2>3. ~ Emitted(i) /\ Emitted(i)'
    BY <1>2, <2>2, RunSource
  <2>4. run[i].total \in Int /\ 0 - run[i].total = Worth(i)'
    BY <1>2, RunSource, RunWorth
  <2>5. 0 - run[i].total \in Int
    BY <2>4
  <2> QED
    BY <2>1, <2>3, <2>4, <2>5, RunSource, ReceiveKept
<1> QED
  BY <1>3, StillKept DEF PayrollPaid

LEMMA CostCreatedKept ==
    ASSUME CostsInv, LedgerInv, Steady, NEW s \in Spenders, CostCreated(s)
    PROVE  LedgerInv'
<1>1. spender[s].pc = "announce" /\ spender' = [spender EXCEPT ![s] = C!Idle] /\ cost' = cost
  BY DEF CostCreated, C!Announce, C!Return
<1>2. PICK k \in CostIds : k = spender[s].id /\ cost[k].state # "absent"
                           /\ spender[s].amount = cost[k].amount
  BY <1>1 DEF CostsInv
<1>3. PICK p \in Posters : Receive(p, k, 0 - cost[k].amount)
  BY <1>2 DEF CostCreated, Emit
<1>4. ~ Emitted(k)
  BY <1>1, <1>2, CostSource DEF Announcing
<1>5. Emitted(k)'
  <2>1. spender'[s].pc = "idle" /\ \A x \in Spenders \ {s} : spender'[x] = spender[x]
    BY <1>1, CostIdleTyped DEF CostsInv
  <2>2. Announcing(k)' = {}
    BY <1>1, <1>2, <2>1 DEF Announcing, CostsInv
  <2> QED
    BY <1>1, <1>2, <2>2, CostSource
<1>6. cost[k].amount \in Int /\ 0 - cost[k].amount = Worth(k)'
  BY <1>1, <1>2, CostSource, CostWorth
<1>7. 0 - cost[k].amount \in Int
  BY <1>6
<1> QED
  BY <1>3, <1>4, <1>5, <1>6, <1>7, CostSource, ReceiveKept

-----------------------------------------------------------------------------
\* The books agree.

SettlementInv == BillingInv /\ PayrollInv /\ CostsInv /\ LedgerInv

\* The ledger's invariant is kept by every step of Settlement ...
LEMMA LedgerStepKept ==
    ASSUME Clerks, DesksManage, SettlementInv, [SettlementNext]_allVars
    PROVE  LedgerInv'
<1> USE DEF SettlementInv
<1>1. Steady
  BY StepSteady
<1>2. CASE UNCHANGED treasuryVars
  BY <1>1, <1>2, StillKept
<1>3. CASE Crash
  BY <1>1, <1>3, LostKept DEF Crash
<1>4. CASE Failure
  BY <1>1, <1>2, <1>4, DeskKept, PosterKept DEF Failure
<1>5. CASE RequestStep
  BY <1>1, <1>2, <1>5, DeskKept, InvoicePaidKept, PayrollPaidKept, CostCreatedKept
     DEF RequestStep, BillingStep, PayrollStep, CostStep, DeskStep
<1>6. ASSUME NEW p \in Posters, HandlerStep(p) PROVE LedgerInv'
  BY <1>1, <1>6, PosterKept DEF HandlerStep
<1> QED
  BY <1>2, <1>3, <1>4, <1>5, <1>6 DEF SettlementNext, TripStep, allVars

\* ... and so are all parts of the invariant.
LEMMA SettlementKept ==
    ASSUME Clerks, DesksManage
    PROVE  SettlementInv /\ [SettlementNext]_allVars => SettlementInv'
<1> SUFFICES ASSUME SettlementInv, [SettlementNext]_allVars PROVE SettlementInv'
  OBVIOUS
<1> QED
  BY LedgerStepKept, BillingView, BillingKept, PayrollView, PayrollKept, CostView, CostsKept
     DEF SettlementInv

\* Nothing is billed, owed or booked at first.
LEMMA SettlementBegins == SettlementInit => SettlementInv
<1> SUFFICES ASSUME SettlementInit PROVE SettlementInv
  OBVIOUS
<1>1. BP!Init
  BY DEF SettlementInit, B!Init, BP!Init, B!NoRow, BP!NoRow, B!NoLines, BP!NoLines,
     B!NoTrip, BP!NoTrip, B!Idle, BP!Idle
<1>2. BillingInv
  <2>1. BP!TypeOK /\ BP!Dutiful
    BY <1>1, BP!NoRowTyped, BP!IdleTyped, BillingAssumptions
       DEF BP!Init, BP!TypeOK, BP!TripRow, BP!Dutiful
  <2>2. BP!ClerkView /\ BP!AnnouncedIsPaid
    BY <1>1, BP!IdleTyped, BillingAssumptions DEF BP!Init, BP!ClerkView, BP!AnnouncedIsPaid
  <2>3. BP!FrozenTotals /\ BP!PaidMatchesLines
    BY <1>1, BP!IdleTyped, BillingAssumptions DEF BP!Init, BP!FrozenTotals,
       BP!PaidMatchesLines, BP!Exists, BP!NoRow, BP!Statuses, BP!Transitions
  <2>4. BP!FiniteLines
    <3>1. BP!Born = {}
      BY <1>1 DEF BP!Init, BP!Born, BP!NoTrip
    <3>2. \A i \in InvoiceIds : DOMAIN inv[i].lines = {}
      BY <1>1, BP!NoLinesTyped, BillingAssumptions DEF BP!Init, BP!NoRow
    <3>3. \A s \in Billers : biller[s].pc = "idle"
      BY <1>1, BP!IdleTyped, BillingAssumptions DEF BP!Init
    <3>4. BP!IsFiniteSet({})
      BY BP!FS_EmptySet, BillingAssumptions
    <3> QED
      BY <3>1, <3>2, <3>3, <3>4 DEF BP!FiniteLines
  <2> QED
    BY <2>1, <2>2, <2>3, <2>4 DEF BillingInv, BP!PostInv
<1>3. PP!Init
  BY DEF SettlementInit, P!Init, PP!Init, P!NoRow, PP!NoRow, P!NoTrip, PP!NoTrip,
     P!Idle, PP!Idle
<1>4. PayrollInv
  <2>1. PP!TypeOK /\ PP!Dutiful
    BY <1>3, PP!NoRowTyped, PP!IdleTyped, PayrollAssumptions DEF PP!Init, PP!TypeOK, PP!Dutiful
  <2>2. PP!ClerkView /\ PP!AnnouncedIsPaid
    BY <1>3, PP!IdleTyped, PayrollAssumptions DEF PP!Init, PP!ClerkView, PP!AnnouncedIsPaid
  <2>3. PP!Frozen
    BY <1>3 DEF PP!Init, PP!Frozen, PP!Exists, PP!NoRow, PP!Statuses, PP!Transitions
  <2>4. PP!FiniteLines
    <3>1. PP!Born = {}
      BY <1>3 DEF PP!Init, PP!Born, PP!NoTrip
    <3>2. \A i \in RunIds : run[i].lines = {}
      BY <1>3, PP!NoRowTyped, PayrollAssumptions DEF PP!Init
    <3>3. \A s \in Payers : payer[s].pc = "idle"
      BY <1>3, PP!IdleTyped, PayrollAssumptions DEF PP!Init
    <3>4. PP!IsFiniteSet({})
      BY PP!FS_EmptySet, PayrollAssumptions
    <3> QED
      BY <3>1, <3>2, <3>3, <3>4 DEF PP!FiniteLines
  <2> QED
    BY <2>1, <2>2, <2>3, <2>4 DEF PayrollInv, PP!PostInv
<1>5. CostsInv
  BY CostIdleTyped DEF SettlementInit, C!Init, CostsInv, C!Cost, C!NoCost
<1>6. LedgerInv
  <2>1. TypeOK
    BY IdleTyped, RestingTyped
       DEF SettlementInit, Init, TypeOK, Account, Entry, NoAccount, NoEntry
  <2>2. DeskView /\ HandlerView
    BY IdleTyped, RestingTyped DEF SettlementInit, Init, DeskView, HandlerView, Busy
  <2>3. Live = {}
    BY DEF SettlementInit, Init, Live, NoEntry
  <2>4. EntryView /\ PostedOnce
    BY <2>3, FS_EmptySet DEF EntryView, PostedOnce, EntriesFor
  <2> QED
    BY <2>1, <2>2, <2>4 DEF LedgerInv
<1> QED
  BY <1>2, <1>4, <1>5, <1>6 DEF SettlementInv

\* The entries add up account by account, and source by source.
LEMMA BooksAddUp == SettlementInv => BooksAgree
<1> SUFFICES ASSUME SettlementInv PROVE BooksAgree
  OBVIOUS
<1> USE DEF SettlementInv, LedgerInv
<1>1. /\ IsFiniteSet(Live)
      /\ \A e \in Live : /\ entry[e].source \in Sources /\ Emitted(entry[e].source)
                         /\ entry[e].amount = Worth(entry[e].source)
                         /\ entry[e].account \in Accounts
  BY DEF EntryView
<1>2. PICK moved : moved = [e \in Live |-> entry[e].amount]
  OBVIOUS
<1>3. \A e \in Live : moved[e] = entry[e].amount /\ moved[e] \in Int
  BY <1>2 DEF TypeOK, Entry, Live
<1>4. ASSUME NEW part \in SUBSET Live
      PROVE  /\ SumFunction([e \in part |-> entry[e].amount]) = SumFunctionOnSet(moved, part)
             /\ SumFunctionOnSet(moved, part) \in Int
  <2>1. PICK own : own = [e \in part |-> entry[e].amount]
    OBVIOUS
  <2>2. \A e \in part : own[e] \in Int /\ own[e] = moved[e] /\ moved[e] \in Int
    BY <1>3, <2>1
  <2>3. IsFiniteSet(part)
    BY <1>1, FS_Subset
  <2>4. SumFunctionOnSet(own, part) = SumFunctionOnSet(moved, part)
    BY <2>2, <2>3, SumSame
  <2>5. SumFunction(own) = SumFunctionOnSet(own, part)
    BY <2>1 DEF SumFunction
  <2> QED
    BY <2>1, <2>2, <2>3, <2>4, <2>5, SumInt
<1>5. IsFiniteSet(Accounts) /\ Active \subseteq Accounts
  BY AccountsAssumption, FS_Subset DEF Accounts, Active, Exists
<1>6. PICK net : net = [a \in Accounts |-> netByAccount(a)]
  OBVIOUS
<1>7. \A a \in Accounts : /\ net[a] = SumFunctionOnSet(moved, EntriesOf(a))
                          /\ net[a] = netByAccount(a) /\ net[a] \in Int
  <2>1. \A a \in Accounts : EntriesOf(a) \in SUBSET Live
    BY DEF EntriesOf
  <2> QED
    BY <1>4, <1>6, <2>1 DEF netByAccount
<1>8. ASSUME NEW part \in SUBSET Accounts
      PROVE  SumFunction([a \in part |-> netByAccount(a)]) = SumFunctionOnSet(net, part)
  <2>1. PICK own : own = [a \in part |-> netByAccount(a)]
    OBVIOUS
  <2>2. \A a \in part : own[a] \in Int /\ own[a] = net[a]
    BY <1>7, <2>1
  <2>3. IsFiniteSet(part)
    BY <1>5, FS_Subset
  <2>4. SumFunctionOnSet(own, part) = SumFunctionOnSet(net, part)
    BY <2>2, <2>3, SumSame
  <2> QED
    BY <2>1, <2>4 DEF SumFunction
<1>9. cashPosition + SumFunction([a \in Accounts \ Active |-> netByAccount(a)])
         = SumFunctionOnSet(net, Accounts)
  <2>1. cashPosition = SumFunctionOnSet(net, Active)
    BY <1>5, <1>8 DEF cashPosition
  <2>2. PICK rest : rest = Accounts \ Active
    OBVIOUS
  <2>3. SumFunction([a \in rest |-> netByAccount(a)]) = SumFunctionOnSet(net, rest)
    BY <1>8, <2>2
  <2>4. /\ Active \cup rest = Accounts /\ Active \cap rest = {}
        /\ IsFiniteSet(Active) /\ IsFiniteSet(rest)
    BY <1>5, <2>2, FS_Subset
  <2>5. SumFunctionOnSet(net, Active \cup rest)
           = SumFunctionOnSet(net, Active) + SumFunctionOnSet(net, rest)
    BY <1>7, <2>4, SumUnion
  <2> QED
    BY <2>1, <2>2, <2>3, <2>4, <2>5
<1>10. SumFunctionOnSet(net, Accounts) = SumFunctionOnSet(moved, Live)
  <2>1. PICK Of \in [Accounts -> SUBSET Live] : \A a \in Accounts : Of[a] = EntriesOf(a)
    <3> DEFINE of == [a \in Accounts |-> EntriesOf(a)]
    <3>1. of \in [Accounts -> SUBSET Live] /\ \A a \in Accounts : of[a] = EntriesOf(a)
      BY DEF EntriesOf
    <3> HIDE DEF of
    <3> QED
      BY <3>1
  <2>2. \A e \in Live : \E a \in Accounts : e \in Of[a]
    BY <1>1, <2>1 DEF EntriesOf
  <2>3. \A a, b \in Accounts : \A e \in Live : e \in Of[a] /\ e \in Of[b] => a = b
    BY <2>1 DEF EntriesOf
  <2>4. \A a \in Accounts : net[a] = SumFunctionOnSet(moved, Of[a])
    BY <1>7, <2>1
  <2> QED
    BY <1>1, <1>3, <1>5, <2>2, <2>3, <2>4, SumOfParts, SMTT(60)
<1>11. PICK worth : worth = [src \in Booked |-> Worth(src)]
  OBVIOUS
<1>12. SumFunctionOnSet(worth, Booked) = SumFunctionOnSet(moved, Live)
  <2>1. PICK source \in [Live -> Booked] : \A e \in Live : source[e] = entry[e].source
    <3> DEFINE of == [e \in Live |-> entry[e].source]
    <3>1. of \in [Live -> Booked] /\ \A e \in Live : of[e] = entry[e].source
      BY <1>1 DEF Booked, EntriesFor
    <3> HIDE DEF of
    <3> QED
      BY <3>1
  <2>2. \A src \in Booked : \E e \in Live : source[e] = src
    BY <2>1 DEF Booked, EntriesFor
  <2>3. \A e, f \in Live : source[e] = source[f] => e = f
    BY <1>1, <2>1 DEF PostedOnce, EntriesFor
  <2>4. IsFiniteSet(Booked)
    BY <1>1, <2>2, ImageFinite
  <2>5. \A e \in Live : moved[e] \in Int /\ worth[source[e]] = moved[e]
    BY <1>1, <1>3, <1>11, <2>1
  <2> QED
    BY <1>1, <2>2, <2>3, <2>4, <2>5, SumRenamed, SMTT(60)
<1>13. \A src \in Booked : Settled(src)
  BY <1>1, EmittedSettled DEF Booked, EntriesFor
<1>14. SumFunction([src \in Booked |-> Worth(src)]) = SumFunctionOnSet(worth, Booked)
  BY <1>11 DEF SumFunction
<1> QED
  BY <1>9, <1>10, <1>12, <1>13, <1>14 DEF BooksAgree

\* The cash ledger tells what happened: every entry stands for an invoice or a
\* payroll that is paid or a cost that was entered, one entry at most for each,
\* and the cash position is what those documents say (update, create, autoPost,
\* cashPosition).  Whatever number of requests and handlers runs, whatever fails.
THEOREM BooksStand ==
    ASSUME Clerks, DesksManage
    PROVE  SettlementSpec => []BooksAgree
<1>1. SettlementInv /\ [SettlementNext]_allVars => SettlementInv'
  BY SettlementKept
<1> QED
  BY <1>1, SettlementBegins, BooksAddUp, PTL DEF SettlementSpec

-----------------------------------------------------------------------------
\* Crashes, failures and handlers take nothing from what Billing and Payroll
\* promise: a request that is lost leaves nothing half done that counts.

Creators == B!OneCreator /\ P!OneCreator

BillingOnce == BP!CreatorView /\ BP!UpdaterView /\ BP!BilledOnce
PayrollOnce == PP!CreatorView /\ PP!UpdaterView /\ PP!Apart /\ PP!Singles

LEMMA BillingOnceKept ==
    ASSUME Clerks, Creators, BillingInv, BillingOnce, BillingMoves
    PROVE  BillingOnce'
<1> USE BillingAssumptions
<1>1. CASE [BP!Next]_(BP!vars)
  <2>1. BP!OneCreator /\ BP!OneUpdater
    BY DEF Clerks, Creators, B!OneClerk, B!OneCreator, BP!OneCreator, BP!OneUpdater,
       B!AtMostOne, BP!AtMostOne
  <2>2. BP!OnceInv
    BY DEF BillingInv, BillingOnce, BP!PostInv, BP!OnceInv
  <2> QED
    BY <1>1, <2>1, <2>2, BP!OnceStep DEF BillingOnce
<1>2. CASE BillingLost
  <2>1. \A s \in Billers : biller'[s].pc = "idle"
    BY <1>2, BP!IdleTyped DEF BillingLost
  <2>2. inv' = inv
    BY <1>2 DEF BillingLost
  <2> QED
    BY <2>1, <2>2 DEF BillingOnce, BP!CreatorView, BP!UpdaterView, BP!BilledOnce,
       BP!InForce, BP!Exists
<1> QED
  BY <1>1, <1>2 DEF BillingMoves

LEMMA PayrollOnceKept ==
    ASSUME Clerks, Creators, PayrollInv, PayrollOnce, PayrollMoves
    PROVE  PayrollOnce'
<1> USE PayrollAssumptions
<1>1. CASE [PP!Next]_(PP!vars)
  <2>1. PP!OneCreator /\ PP!OneUpdater
    BY DEF Clerks, Creators, P!OneClerk, P!OneCreator, PP!OneCreator, PP!OneUpdater,
       P!AtMostOne, PP!AtMostOne
  <2>2. PP!OnceInv
    BY DEF PayrollInv, PayrollOnce, PP!PostInv, PP!OnceInv
  <2> QED
    BY <1>1, <2>1, <2>2, PP!OnceStep DEF PayrollOnce
<1>2. CASE PayrollLost
  <2>1. \A s \in Payers : payer'[s].pc = "idle"
    BY <1>2, PP!IdleTyped DEF PayrollLost
  <2>2. run' = run
    BY <1>2 DEF PayrollLost
  <2> QED
    BY <2>1, <2>2 DEF PayrollOnce, PP!CreatorView, PP!UpdaterView, PP!Apart, PP!Singles,
       PP!InForce, PP!Exists
<1> QED
  BY <1>1, <1>2 DEF PayrollMoves

\* Treasury within Settlement keeps to one default account, handlers or not.
Managed == ManagerView /\ SingleDefault

LEMMA ManagedKept ==
    ASSUME OneManager, TypeOK, Managed, [SettlementNext]_allVars
    PROVE  Managed'
<1>1. DefaultInv
  BY DEF Managed, DefaultInv
<1>2. CASE account' = account /\ req' = req
  BY <1>1, <1>2, ManagerViewKept DEF Managed, Accounts, Defaults, Exists
<1>3. CASE Crash
  <2>1. account' = account /\ \A x \in Slots : req'[x].pc = "idle"
    BY <1>3, IdleTyped DEF Crash
  <2> QED
    BY <1>1, <2>1, ManagerViewKept DEF Managed, Accounts, Defaults, Exists
<1>4. ASSUME NEW d \in Slots, ManagerStep(d) \/ LedgerStep(d) \/ Fail(d) PROVE Managed'
  BY <1>1, <1>4, ManagerStepDefault, LedgerStepDefault DEF Managed
<1>5. CASE \E p \in Posters : \/ PostStep(p) \/ FailPost(p)
                              \/ \E src, n : Receive(p, src, n)
  BY <1>2, <1>5 DEF PostStep, FindDupe, FindDefault, FindOldest, InsertPost,
     FailPost, Receive
<1>6. ASSUME NEW src, NEW n, Emit(src, n) PROVE Managed'
  BY <1>5, <1>6 DEF Emit
<1>7. CASE UNCHANGED treasuryVars
  BY <1>2, <1>7 DEF treasuryVars
<1>8. CASE RequestStep
  BY <1>4, <1>6, <1>7, <1>8 DEF RequestStep, BillingStep, InvoicePaid, PayrollStep,
     PayrollPaid, CostStep, CostCreated, DeskStep
<1>9. CASE Failure
  BY <1>4, <1>5, <1>7, <1>9 DEF Failure
<1> QED
  BY <1>3, <1>5, <1>7, <1>8, <1>9 DEF SettlementNext, TripStep, HandlerStep, allVars

\* The invariant with what single creations and a single manager add to it.
FaultInv == SettlementInv /\ BillingOnce /\ PayrollOnce /\ Managed

LEMMA FaultInvCorrect ==
    ASSUME Clerks, Creators, DesksManage, OneManager
    PROVE  SettlementSpec => []FaultInv
<1>1. SettlementInit => BillingOnce /\ PayrollOnce /\ Managed
  <2> SUFFICES ASSUME SettlementInit PROVE BillingOnce /\ PayrollOnce /\ Managed
    OBVIOUS
  <2>1. BP!Init
    BY DEF SettlementInit, B!Init, BP!Init, B!NoRow, BP!NoRow, B!NoLines, BP!NoLines,
       B!NoTrip, BP!NoTrip, B!Idle, BP!Idle
  <2>2. PP!Init
    BY DEF SettlementInit, P!Init, PP!Init, P!NoRow, PP!NoRow, P!NoTrip, PP!NoTrip,
       P!Idle, PP!Idle
  <2>3. BillingOnce /\ PayrollOnce
    BY <2>1, <2>2, BP!OnceBegins, PP!OnceBegins, BillingAssumptions, PayrollAssumptions
       DEF BillingOnce, PayrollOnce
  <2>4. Managed
    BY DefaultBegins DEF SettlementInit, Managed
  <2> QED
    BY <2>3, <2>4
<1>2. SettlementInv /\ [SettlementNext]_allVars => SettlementInv'
  BY SettlementKept
<1>3. FaultInv /\ [SettlementNext]_allVars => (BillingOnce /\ PayrollOnce /\ Managed)'
  BY BillingView, PayrollView, BillingOnceKept, PayrollOnceKept, ManagedKept
     DEF FaultInv, SettlementInv, LedgerInv
<1>4. FaultInv <=> SettlementInv /\ BillingOnce /\ PayrollOnce /\ Managed
  BY DEF FaultInv
<1> QED
  BY <1>1, <1>2, <1>3, <1>4, SettlementBegins, PTL DEF SettlementSpec

\* No trip is billed twice, nobody is paid twice for one role of one trip, what
\* is paid is what the lines say and is announced once, and there is one default
\* account (create, update of billing.service.ts and of payroll.service.ts,
\* updateAccount), though any request or the whole process may die between two
\* statements and the treasury's handlers run beside them.
THEOREM FaultsHarmless ==
    ASSUME Clerks, Creators, DesksManage, OneManager
    PROVE  SettlementSpec => [](/\ B!BilledOnce /\ B!PaidMatchesLines /\ B!AnnouncedIsPaid
                                /\ P!PaidOnce /\ P!AnnouncedIsPaid /\ SingleDefault)
<1>1. FaultInv => /\ B!BilledOnce /\ B!PaidMatchesLines /\ B!AnnouncedIsPaid
                  /\ P!PaidOnce /\ P!AnnouncedIsPaid /\ SingleDefault
  <2> SUFFICES ASSUME FaultInv
               PROVE  /\ B!BilledOnce /\ B!PaidMatchesLines /\ B!AnnouncedIsPaid
                      /\ P!PaidOnce /\ P!AnnouncedIsPaid /\ SingleDefault
    OBVIOUS
  <2> USE DEF FaultInv
  <2>1. B!BilledOnce
    BY DEF BillingOnce, B!BilledOnce, BP!BilledOnce, B!InForce, BP!InForce, B!Exists,
       BP!Exists, B!Statuses, BP!Statuses, B!Transitions, BP!Transitions
  <2>2. B!PaidMatchesLines
    BY BillTotal DEF SettlementInv, BillingInv, B!PaidMatchesLines, BP!PaidMatchesLines,
       B!Exists, BP!Exists, B!Statuses, BP!Statuses, B!Transitions, BP!Transitions
  <2>3. B!AnnouncedIsPaid
    BY DEF SettlementInv, BillingInv, BP!PostInv, B!AnnouncedIsPaid, BP!AnnouncedIsPaid
  <2>4. PP!PaidOnce
    BY PP!PaidOnceParts, PayrollAssumptions DEF PayrollOnce
  <2>5. P!PaidOnce
    BY <2>4 DEF P!PaidOnce, PP!PaidOnce, P!InForce, PP!InForce, P!Exists, PP!Exists,
       P!Statuses, PP!Statuses, P!Transitions, PP!Transitions
  <2>6. P!AnnouncedIsPaid
    BY DEF SettlementInv, PayrollInv, PP!PostInv, P!AnnouncedIsPaid, PP!AnnouncedIsPaid
  <2>7. SingleDefault
    BY DEF Managed
  <2> QED
    BY <2>1, <2>2, <2>3, <2>5, <2>6, <2>7
<1> QED
  BY <1>1, FaultInvCorrect, PTL

\* The invoices and the runs of the whole process are period books still: a
\* crash finds each document before or after its one writing statement.
THEOREM SettlementImplementsBooks ==
    ASSUME Clerks, Creators, DesksManage, OneManager
    PROVE  SettlementSpec => B!ImplementsBook /\ P!ImplementsBook
<1>1. SettlementInit => B!Book!Init /\ P!Book!Init
  <2> SUFFICES ASSUME SettlementInit PROVE B!Book!Init /\ P!Book!Init
    OBVIOUS
  <2>1. B!Book!Init
    <3>1. \A i \in InvoiceIds : inv[i] = B!NoRow("absent")
      BY DEF SettlementInit, B!Init
    <3>2. B!NoRow("absent").status = "absent" /\ DOMAIN B!NoRow("absent").lines = {}
      BY DEF B!NoRow, B!NoLines
    <3> QED
      BY <3>1, <3>2 DEF B!Book!Init, B!Book!Absent
  <2>2. P!Book!Init
    <3>1. \A i \in RunIds : run[i] = P!NoRow("absent")
      BY DEF SettlementInit, P!Init
    <3>2. P!NoRow("absent").status = "absent" /\ P!NoRow("absent").lines = {}
      BY DEF P!NoRow
    <3> QED
      BY <3>1, <3>2 DEF P!Book!Init, P!Book!Absent, P!TripsOf
  <2> QED
    BY <2>1, <2>2
<1>2. FaultInv /\ [SettlementNext]_allVars =>
         [B!Book!Next]_([i \in InvoiceIds |-> [status |-> inv[i].status,
                                               items |-> DOMAIN inv[i].lines]])
  <2> SUFFICES ASSUME FaultInv, [SettlementNext]_allVars
               PROVE  B!Book!Next \/ inv' = inv
    OBVIOUS
  <2> USE BillingAssumptions
  <2>1. CASE [BP!Next]_(BP!vars)
    <3>1. BP!BookInv
      BY DEF FaultInv, SettlementInv, BillingInv, BillingOnce, BP!PostInv, BP!BookInv
    <3>2. BP!Book!Next \/ inv' = inv
      BY <2>1, <3>1, BP!BookStep
    <3>3. BP!Book!Next => B!Book!Next
      BY DEF BP!Book!Next, B!Book!Next, BP!Book!Issue, B!Book!Issue, BP!Book!Move,
         B!Book!Move, BP!Book!Discard, B!Book!Discard, BP!Book!Held, B!Book!Held,
         BP!Book!InForce, B!Book!InForce, BP!Book!Statuses, B!Book!Statuses,
         BP!Transitions, B!Transitions
    <3> QED
      BY <3>2, <3>3
  <2>2. CASE BillingLost
    BY <2>2 DEF BillingLost
  <2> QED
    BY <2>1, <2>2, BillingView DEF BillingMoves
<1>3. FaultInv /\ [SettlementNext]_allVars =>
         [P!Book!Next]_([i \in RunIds |-> [status |-> run[i].status,
                                           items |-> P!TripsOf(run[i].lines)]])
  <2> SUFFICES ASSUME FaultInv, [SettlementNext]_allVars
               PROVE  P!Book!Next \/ run' = run
    OBVIOUS
  <2> USE PayrollAssumptions
  <2>1. CASE [PP!Next]_(PP!vars)
    <3>1. PP!BookInv
      BY DEF FaultInv, SettlementInv, PayrollInv, PayrollOnce, PP!PostInv, PP!BookInv
    <3>2. PP!Book!Next \/ run' = run
      BY <2>1, <3>1, PP!BookStep
    <3>3. PP!Book!Next => P!Book!Next
      BY DEF PP!Book!Next, P!Book!Next, PP!Book!Issue, P!Book!Issue, PP!Book!Move,
         P!Book!Move, PP!Book!Discard, P!Book!Discard, PP!Book!Held, P!Book!Held,
         PP!Book!InForce, P!Book!InForce, PP!Book!Statuses, P!Book!Statuses,
         PP!Transitions, P!Transitions, PP!TripsOf, P!TripsOf
    <3> QED
      BY <3>2, <3>3
  <2>2. CASE PayrollLost
    BY <2>2 DEF PayrollLost
  <2> QED
    BY <2>1, <2>2, PayrollView DEF PayrollMoves
<1> QED
  BY <1>1, <1>2, <1>3, FaultInvCorrect, PTL DEF SettlementSpec, B!ImplementsBook,
     P!ImplementsBook, B!Book!Spec, P!Book!Spec

-----------------------------------------------------------------------------
\* No payment is forgotten: what is settled is in the ledger, or its event or
\* its handler is still to come, or a fault took them.

Awaits(src) ==
    \/ \E s \in Billers  : biller[s].pc = "announce" /\ biller[s].id = src
    \/ \E s \in Payers   : payer[s].pc = "announce" /\ payer[s].id = src
    \/ \E s \in Spenders : spender[s].pc = "announce" /\ spender[s].id = src

InHand(src) == \E p \in Posters : Busy(p) /\ post[p].source = src

Accounted(src) == Settled(src) => src \in Booked \cup lost \/ Awaits(src) \/ InHand(src)

\* The request that pays an invoice announces it next.
LEMMA InvoiceTurnsPaid ==
    ASSUME BillingInv, BillingMoves, NEW i \in InvoiceIds,
           inv[i].status # "paid", inv'[i].status = "paid"
    PROVE  \E s \in Billers : biller'[s].pc = "announce" /\ biller'[s].id = i
<1>1. inv \in [InvoiceIds -> BP!Invoice] /\ biller \in [Billers -> BP!Request]
  BY DEF BillingInv, BP!PostInv, BP!TypeOK
<1>2. inv' # inv /\ BP!Next
  BY DEF BillingMoves, BillingLost, BP!vars
<1>3. PICK s \in Billers : BP!WriteUpdate(s) \/ BP!DeleteInvoice(s)
                           \/ \E j \in InvoiceIds : BP!InsertInvoice(s, j)
  BY <1>2 DEF BP!Next, BP!TripStep, BP!EnterTrip, BP!EditTrip, BP!DeleteTrip,
     BP!CreateStep, BP!StartCreate, BP!FetchTrips, BP!NumberInvoice, BP!NumberTaken,
     BP!UpdateStep, BP!StartUpdate, BP!Announce, BP!RemoveStep, BP!StartRemove, BP!Fail
<1>4. CASE \E j \in InvoiceIds : BP!InsertInvoice(s, j)
  BY <1>1, <1>4 DEF BP!InsertInvoice
<1>5. CASE BP!DeleteInvoice(s)
  BY <1>1, <1>2, <1>5 DEF BP!DeleteInvoice, BP!NoRow
<1>6. CASE BP!WriteUpdate(s)
  <2>1. biller[s].id = i /\ BP!Exists(i) /\ inv'[i] = BP!Patched(inv[i], biller[s])
    BY <1>1, <1>2, <1>6 DEF BP!WriteUpdate
  <2>2. inv[i].status = biller[s].seen.status
    BY <1>6, <2>1 DEF BP!WriteUpdate, BillingInv, BP!PostInv, BP!ClerkView
  <2>3. biller[s].want = "paid"
    BY <1>1, <2>1, <2>2 DEF BP!Patched, BP!Invoice
  <2>4. BP!PaysNow(biller[s])
    BY <2>2, <2>3 DEF BP!PaysNow
  <2>5. biller' = [biller EXCEPT ![s] = [BP!Idle EXCEPT !.pc = "announce", !.id = i]]
    BY <1>6, <2>1, <2>4 DEF BP!WriteUpdate
  <2> QED
    BY <1>1, <2>5 DEF BP!Idle
<1> QED
  BY <1>3, <1>4, <1>5, <1>6

LEMMA RunTurnsPaid ==
    ASSUME PayrollInv, PayrollMoves, NEW i \in RunIds,
           run[i].status # "paid", run'[i].status = "paid"
    PROVE  \E s \in Payers : payer'[s].pc = "announce" /\ payer'[s].id = i
<1>1. run \in [RunIds -> PP!Run] /\ payer \in [Payers -> PP!Request]
  BY DEF PayrollInv, PP!PostInv, PP!TypeOK
<1>2. run' # run /\ PP!Next
  BY DEF PayrollMoves, PayrollLost, PP!vars
<1>3. PICK s \in Payers : PP!WriteUpdate(s) \/ PP!DeleteRun(s)
                          \/ \E j \in RunIds : PP!InsertRun(s, j)
  BY <1>2 DEF PP!Next, PP!TripStep, PP!EnterTrip, PP!EditTrip, PP!DeleteTrip,
     PP!CreateStep, PP!StartCreate, PP!FetchTrips, PP!NumberRun, PP!NumberTaken,
     PP!UpdateStep, PP!StartUpdate, PP!Announce, PP!RemoveStep, PP!StartRemove, PP!Fail
<1>4. CASE \E j \in RunIds : PP!InsertRun(s, j)
  BY <1>1, <1>4 DEF PP!InsertRun
<1>5. CASE PP!DeleteRun(s)
  BY <1>1, <1>2, <1>5 DEF PP!DeleteRun, PP!NoRow
<1>6. CASE PP!WriteUpdate(s)
  <2>1. /\ payer[s].id = i /\ PP!Exists(i) /\ PP!Changes(payer[s])
        /\ payer[s].want = "paid"
    BY <1>1, <1>2, <1>6 DEF PP!WriteUpdate
  <2>2. PP!PaysNow(payer[s])
    BY <2>1 DEF PP!PaysNow, PP!Changes
  <2>3. payer' = [payer EXCEPT ![s] = [PP!Idle EXCEPT !.pc = "announce", !.id = i]]
    BY <1>6, <2>1, <2>2 DEF PP!WriteUpdate
  <2> QED
    BY <1>1, <2>3 DEF PP!Idle
<1> QED
  BY <1>3, <1>4, <1>5, <1>6

LEMMA CostTurnsLive ==
    ASSUME CostsInv, CostMoves, NEW k \in CostIds,
           cost[k].state = "absent", cost'[k].state # "absent"
    PROVE  \E s \in Spenders : spender'[s].pc = "announce" /\ spender'[s].id = k
<1>1. cost \in [CostIds -> C!Cost] /\ spender \in [Spenders -> C!Request]
  BY DEF CostsInv
<1>2. PICK s \in Spenders : C!DeleteCost(s) \/ \E j \in CostIds : C!InsertCost(s, j)
  BY DEF CostMoves, C!CostStep, C!StartCreate, C!StartRemove, C!Announce, C!Fail, costVars
<1>3. CASE C!DeleteCost(s)
  BY <1>1, <1>3 DEF C!DeleteCost, CostsInv
<1>4. ASSUME NEW j \in CostIds, C!InsertCost(s, j)
      PROVE  spender'[s].pc = "announce" /\ spender'[s].id = k
  <2>1. j = k
    BY <1>1, <1>4 DEF C!InsertCost
  <2> QED
    BY <1>1, <1>4, <2>1 DEF C!InsertCost, C!Request
<1> QED
  BY <1>2, <1>3, <1>4

\* What is newly settled awaits its event.
LEMMA SettlingAwaits ==
    ASSUME SettlementInv, [SettlementNext]_allVars, NEW src \in Sources,
           ~ Settled(src), Settled(src)'
    PROVE  Awaits(src)'
<1> USE DEF SettlementInv
<1>1. CASE src \in InvoiceIds
  <2>1. inv[src].status # "paid" /\ inv'[src].status = "paid"
    BY <1>1, SourcesAssumption DEF Settled
  <2> QED
    BY <1>1, <2>1, BillingView, InvoiceTurnsPaid DEF Awaits
<1>2. CASE src \in RunIds
  <2>1. run[src].status # "paid" /\ run'[src].status = "paid"
    BY <1>2, SourcesAssumption DEF Settled
  <2> QED
    BY <1>2, <2>1, PayrollView, RunTurnsPaid DEF Awaits
<1>3. CASE src \in CostIds
  <2>1. cost[src].state = "absent" /\ cost'[src].state # "absent"
    BY <1>3, SourcesAssumption DEF Settled
  <2> QED
    BY <1>3, <2>1, CostView, CostTurnsLive DEF Awaits
<1> QED
  BY <1>1, <1>2, <1>3, SourcesAssumption

\* Neither desks nor handlers touch an entry that is in the ledger.
LEMMA EntriesStay ==
    ASSUME DesksManage, LedgerInv, [SettlementNext]_allVars, NEW e \in Live
    PROVE  entry'[e] = entry[e]
<1> USE DEF LedgerInv
<1>1. ASSUME NEW d \in Slots, DeskStep(d) PROVE entry' = entry
  <2>1. ~ LedgerStep(d)
    BY <1>1 DEF DesksManage, DeskView, LedgerStep, StartRemoveAccount, StartRecord,
       CountEntries, DeleteAccount, Record, StartErase, Erase, Serves
  <2> QED
    BY <1>1, <2>1 DEF DeskStep, ManagerStep, CountAccounts, InsertAccount, StartUpdate,
       DemoteOthers, WriteAccount
<1>2. ASSUME NEW p \in Posters, HandlerStep(p) PROVE entry'[e] = entry[e]
  <2>1. e \in EntryIds /\ entry[e].state = "live"
    BY DEF Live
  <2> QED
    BY <1>2, <2>1 DEF HandlerStep, PostStep, FindDupe, FindDefault, FindOldest, InsertPost,
       TypeOK
<1>3. ASSUME NEW src, NEW n, Emit(src, n) PROVE entry' = entry
  BY <1>3 DEF Emit, Receive
<1>4. CASE RequestStep
  BY <1>1, <1>3, <1>4 DEF RequestStep, BillingStep, InvoicePaid, PayrollStep, PayrollPaid,
     CostStep, CostCreated, treasuryVars
<1>5. CASE Failure
  BY <1>5 DEF Failure, Fail, FailPost, treasuryVars
<1> QED
  BY <1>2, <1>4, <1>5 DEF SettlementNext, TripStep, Crash, allVars, treasuryVars

LEMMA BookedStays ==
    ASSUME DesksManage, LedgerInv, [SettlementNext]_allVars, NEW src \in Booked
    PROVE  src \in Booked'
<1>1. PICK e \in Live : entry[e].source = src
  BY DEF Booked, EntriesFor
<1>2. entry'[e] = entry[e]
  BY EntriesStay
<1>3. e \in Live' /\ entry'[e].source = src
  BY <1>1, <1>2 DEF Live
<1> QED
  BY <1>3 DEF Booked, EntriesFor

\* The handler of an event takes its source in hand at once.
LEMMA EmitTakes ==
    ASSUME TypeOK, NEW src, NEW n, Emit(src, n)
    PROVE  InHand(src)'
<1>1. PICK p \in Posters : Receive(p, src, n)
  BY DEF Emit
<1> DEFINE r == [Resting EXCEPT !.pc = "dupe", !.source = src, !.amount = n]
<1>2. r.pc = "dupe" /\ r.source = src
  BY RestingTyped DEF Posting
<1>3. post' = [post EXCEPT ![p] = r]
  BY <1>1 DEF Receive
<1> HIDE DEF r
<1> QED
  BY <1>2, <1>3 DEF TypeOK, InHand, Busy

\* A request waits for its announcement until it is made or lost.
LEMMA InvoiceAwaits ==
    ASSUME BillingInv, TypeOK, [SettlementNext]_allVars,
           NEW s \in Billers, biller[s].pc = "announce",
           NEW src \in Sources, src = biller[s].id
    PROVE  biller'[s] = biller[s] \/ InHand(src)' \/ src \in lost'
<1>0. biller \in [Billers -> BP!Request]
  BY DEF BillingInv, BP!PostInv, BP!TypeOK
<1>1. ASSUME NEW x \in Billers, BillingStep(x) PROVE biller'[s] = biller[s]
  BY <1>0, <1>1 DEF BillingStep, B!CreateStep, B!StartCreate, B!FetchTrips, B!NumberInvoice,
     B!InsertInvoice, B!NumberTaken, B!StartUpdate, B!WriteUpdate, B!RemoveStep,
     B!StartRemove, B!DeleteInvoice, B!Return, B!Serves
<1>2. ASSUME NEW x \in Billers, InvoicePaid(x)
      PROVE  biller'[s] = biller[s] \/ InHand(src)'
  <2>1. CASE x # s
    BY <1>0, <1>2, <2>1 DEF InvoicePaid, B!Announce, B!Return
  <2>2. CASE x = s
    <3>1. src \in InvoiceIds
      BY DEF BillingInv, BP!PostInv, BP!Dutiful
    <3>2. inv[src].status = "paid" /\ announced \in [InvoiceIds -> Nat]
      BY <3>1 DEF BillingInv, BP!PostInv, BP!ClerkView, BP!TypeOK
    <3>3. announced' = [announced EXCEPT ![src] = @ + 1]
      BY <1>2, <2>2, <3>1, <3>2 DEF InvoicePaid, B!Announce, B!Exists, B!Statuses,
         B!Transitions
    <3>4. announced' # announced
      <4>1. announced'[src] = announced[src] + 1 /\ announced[src] \in Nat
        BY <3>1, <3>2, <3>3
      <4> QED
        BY <4>1
    <3>5. Emit(src, inv[src].total)
      BY <1>2, <2>2, <3>1, <3>4 DEF InvoicePaid
    <3> QED
      BY <3>1, <3>5, EmitTakes
  <2> QED
    BY <2>1, <2>2
<1>3. CASE Failure
  BY <1>0, <1>3 DEF Failure, B!Fail, B!Return, Awaited, billingVars
<1>4. CASE Crash
  BY <1>4 DEF Crash, Awaited
<1>5. CASE TripStep
  BY <1>5 DEF TripStep, B!EnterTrip, B!EditTrip, B!DeleteTrip
<1>6. CASE RequestStep
  BY <1>1, <1>2, <1>6 DEF RequestStep, PayrollStep, PayrollPaid, CostStep, CostCreated,
     DeskStep, billingVars
<1> QED
  BY <1>3, <1>4, <1>5, <1>6 DEF SettlementNext, HandlerStep, allVars, billingVars

LEMMA RunAwaits ==
    ASSUME PayrollInv, TypeOK, [SettlementNext]_allVars,
           NEW s \in Payers, payer[s].pc = "announce",
           NEW src \in Sources, src = payer[s].id
    PROVE  payer'[s] = payer[s] \/ InHand(src)' \/ src \in lost'
<1>0. payer \in [Payers -> PP!Request]
  BY DEF PayrollInv, PP!PostInv, PP!TypeOK
<1>1. ASSUME NEW x \in Payers, PayrollStep(x) PROVE payer'[s] = payer[s]
  BY <1>0, <1>1 DEF PayrollStep, P!CreateStep, P!StartCreate, P!FetchTrips, P!NumberRun,
     P!InsertRun, P!NumberTaken, P!StartUpdate, P!WriteUpdate, P!RemoveStep,
     P!StartRemove, P!DeleteRun, P!Return, P!Serves
<1>2. ASSUME NEW x \in Payers, PayrollPaid(x)
      PROVE  payer'[s] = payer[s] \/ InHand(src)'
  <2>1. CASE x # s
    BY <1>0, <1>2, <2>1 DEF PayrollPaid, P!Announce, P!Return
  <2>2. CASE x = s
    <3>1. src \in RunIds
      BY DEF PayrollInv, PP!PostInv, PP!Dutiful
    <3>2. run[src].status = "paid" /\ paidOut \in [RunIds -> Nat]
      BY <3>1 DEF PayrollInv, PP!PostInv, PP!ClerkView, PP!TypeOK
    <3>3. paidOut' = [paidOut EXCEPT ![src] = @ + 1]
      BY <1>2, <2>2, <3>1, <3>2 DEF PayrollPaid, P!Announce, P!Exists, P!Statuses,
         P!Transitions
    <3>4. paidOut' # paidOut
      <4>1. paidOut'[src] = paidOut[src] + 1 /\ paidOut[src] \in Nat
        BY <3>1, <3>2, <3>3
      <4> QED
        BY <4>1
    <3>5. Emit(src, 0 - run[src].total)
      BY <1>2, <2>2, <3>1, <3>4 DEF PayrollPaid
    <3> QED
      BY <3>1, <3>5, EmitTakes
  <2> QED
    BY <2>1, <2>2
<1>3. CASE Failure
  BY <1>0, <1>3 DEF Failure, P!Fail, P!Return, Awaited, payrollVars
<1>4. CASE Crash
  BY <1>4 DEF Crash, Awaited
<1>5. CASE TripStep
  BY <1>5 DEF TripStep, P!EnterTrip, P!EditTrip, P!DeleteTrip
<1>6. CASE RequestStep
  BY <1>1, <1>2, <1>6 DEF RequestStep, BillingStep, InvoicePaid, CostStep, CostCreated,
     DeskStep, payrollVars
<1> QED
  BY <1>3, <1>4, <1>5, <1>6 DEF SettlementNext, HandlerStep, allVars, payrollVars

LEMMA CostAwaits ==
    ASSUME CostsInv, TypeOK, [SettlementNext]_allVars,
           NEW s \in Spenders, spender[s].pc = "announce",
           NEW src \in Sources, src = spender[s].id
    PROVE  spender'[s] = spender[s] \/ InHand(src)' \/ src \in lost'
<1>0. spender \in [Spenders -> C!Request]
  BY DEF CostsInv
<1>1. ASSUME NEW x \in Spenders, CostStep(x) PROVE spender'[s] = spender[s]
  BY <1>0, <1>1 DEF CostStep, C!CostStep, C!StartCreate, C!InsertCost, C!StartRemove,
     C!DeleteCost, C!Return
<1>2. ASSUME NEW x \in Spenders, CostCreated(x)
      PROVE  spender'[s] = spender[s] \/ InHand(src)'
  <2>1. CASE x # s
    BY <1>0, <1>2, <2>1 DEF CostCreated, C!Announce, C!Return
  <2>2. CASE x = s
    <3>1. Emit(src, 0 - spender[s].amount)
      BY <1>2, <2>2 DEF CostCreated
    <3> QED
      BY <3>1, EmitTakes
  <2> QED
    BY <2>1, <2>2
<1>3. CASE Failure
  BY <1>0, <1>3 DEF Failure, C!Fail, C!Return, Awaited, costVars
<1>4. CASE Crash
  BY <1>4 DEF Crash, Awaited
<1>5. CASE RequestStep
  BY <1>1, <1>2, <1>5 DEF RequestStep, BillingStep, InvoicePaid, PayrollStep, PayrollPaid,
     DeskStep, costVars
<1> QED
  BY <1>3, <1>4, <1>5 DEF SettlementNext, TripStep, HandlerStep, allVars, costVars

\* A handler has its source in hand until its entry is there or it is lost:
\* with an active account it finds one, and that one stays.
LEMMA HandLands ==
    ASSUME LedgerInv, [SettlementNext]_allVars, Active # {},
           NEW p \in Posters, Busy(p), NEW src \in Sources, src = post[p].source
    PROVE  InHand(src)' \/ src \in Booked' \cup lost'
<1> USE DEF LedgerInv
<1>1. CASE post'[p] = post[p]
  BY <1>1 DEF InHand, Busy
<1>2. ASSUME NEW q \in Posters, q # p, PostStep(q) \/ FailPost(q) PROVE post'[p] = post[p]
  BY <1>2 DEF PostStep, FindDupe, FindDefault, FindOldest, InsertPost, FailPost, Rest, TypeOK
<1>3. CASE HandlerStep(p)
  <2>1. EntriesFor(src) = {} /\ (post[p].pc = "insert" => post[p].id \in Accounts)
    BY DEF HandlerView
  <2>2. ASSUME NEW step, step # "idle", post' = [post EXCEPT ![p].pc = step]
        PROVE  InHand(src)'
    BY <2>2 DEF InHand, Busy, TypeOK, Posting
  <2>3. ASSUME NEW a, post' = [post EXCEPT ![p].pc = "insert", ![p].id = a]
        PROVE  InHand(src)'
    BY <2>3 DEF InHand, Busy, TypeOK, Posting
  <2>4. ASSUME NEW e \in EntryIds, InsertPost(p, e) PROVE src \in Booked'
    <3>1. Exists(post[p].id)
      BY <2>1, <2>4 DEF InsertPost, Accounts
    <3>2. entry' = [entry EXCEPT ![e] = [state |-> "live", account |-> post[p].id,
                       amount |-> post[p].amount, source |-> src]]
      BY <2>4, <3>1 DEF InsertPost
    <3>3. entry'[e].state = "live" /\ entry'[e].source = src
      BY <3>2 DEF TypeOK
    <3> QED
      BY <3>3 DEF Booked, EntriesFor, Live
  <2> QED
    BY <1>3, <2>1, <2>2, <2>3, <2>4 DEF HandlerStep, PostStep, FindDupe, FindDefault,
       FindOldest
<1>4. ASSUME NEW x, NEW n, Emit(x, n) PROVE post'[p] = post[p]
  BY <1>4 DEF Emit, Receive, Busy
<1>5. CASE RequestStep
  BY <1>1, <1>4, <1>5 DEF RequestStep, BillingStep, InvoicePaid, PayrollStep, PayrollPaid,
     CostStep, CostCreated, DeskStep, ManagerStep, LedgerStep, CountAccounts, InsertAccount,
     StartUpdate, DemoteOthers, WriteAccount, StartRemoveAccount, StartRecord, CountEntries,
     DeleteAccount, Record, StartErase, Erase, treasuryVars
<1>6. CASE Failure
  <2>1. CASE FailPost(p) /\ lost' = lost \cup Handled({p})
    BY <2>1 DEF Handled, Busy
  <2> QED
    BY <1>1, <1>2, <1>6, <2>1 DEF Failure, Fail, treasuryVars
<1>7. CASE Crash
  BY <1>7 DEF Crash, Handled, Busy
<1> QED
  BY <1>1, <1>2, <1>3, <1>5, <1>6, <1>7 DEF SettlementNext, TripStep, HandlerStep, allVars,
     treasuryVars

\* What is accounted for stays so, while there is an account to post to.
LEMMA AccountedKept ==
    ASSUME DesksManage, SettlementInv, [SettlementNext]_allVars, NEW src \in Sources,
           Accounted(src), Settled(src) => Active # {}
    PROVE  Accounted(src)'
<1> USE DEF SettlementInv
<1>1. TypeOK
  BY DEF LedgerInv
<1>2. CASE ~ Settled(src)
  BY <1>2, SettlingAwaits DEF Accounted
<1>3. CASE Settled(src) /\ src \in Booked
  BY <1>3, BookedStays DEF Accounted
<1>4. CASE src \in lost
  <2>1. src \in lost'
    BY <1>4 DEF SettlementNext, RequestStep, BillingStep, InvoicePaid, PayrollStep,
       PayrollPaid, CostStep, CostCreated, DeskStep, TripStep, HandlerStep, Failure, Crash,
       allVars
  <2> QED
    BY <2>1 DEF Accounted
<1>5. CASE Awaits(src)
  <2>1. ASSUME NEW s \in Billers, biller[s].pc = "announce", biller[s].id = src
        PROVE  Awaits(src)' \/ InHand(src)' \/ src \in lost'
    BY <1>1, <2>1, InvoiceAwaits DEF Awaits
  <2>2. ASSUME NEW s \in Payers, payer[s].pc = "announce", payer[s].id = src
        PROVE  Awaits(src)' \/ InHand(src)' \/ src \in lost'
    BY <1>1, <2>2, RunAwaits DEF Awaits
  <2>3. ASSUME NEW s \in Spenders, spender[s].pc = "announce", spender[s].id = src
        PROVE  Awaits(src)' \/ InHand(src)' \/ src \in lost'
    BY <1>1, <2>3, CostAwaits DEF Awaits
  <2> QED
    BY <1>5, <2>1, <2>2, <2>3 DEF Awaits, Accounted
<1>6. CASE Settled(src) /\ InHand(src)
  <2>1. InHand(src)' \/ src \in Booked' \cup lost'
    BY <1>6, HandLands DEF InHand
  <2> QED
    BY <2>1 DEF Accounted
<1> QED
  BY <1>2, <1>3, <1>4, <1>5, <1>6 DEF Accounted

\* Each payment is in the ledger, or a request or a handler is there that will
\* bring it, or a fault took that one: of a source that is settled only while some
\* account is active none is forgotten (update, create, autoPost).  It is what
\* PaidIsPosted says, but for the progress that takes fairness.
THEOREM NoPaymentForgotten ==
    ASSUME Clerks, DesksManage, NEW src \in Sources
    PROVE  SettlementSpec /\ [](Settled(src) => Active # {}) => []Accounted(src)
<1>1. SettlementInit => Accounted(src)
  <2> SUFFICES ASSUME SettlementInit PROVE ~ Settled(src)
    BY DEF Accounted
  <2> QED
    BY SourcesAssumption DEF SettlementInit, B!Init, B!NoRow, P!Init, P!NoRow, C!Init,
       C!NoCost, Settled
<1>2. SettlementInv /\ [SettlementNext]_allVars => SettlementInv'
  BY SettlementKept
<1>3. SettlementInv /\ Accounted(src) /\ (Settled(src) => Active # {})
         /\ [SettlementNext]_allVars => Accounted(src)'
  BY AccountedKept
<1> QED
  BY <1>1, <1>2, <1>3, SettlementBegins, PTL DEF SettlementSpec
=============================================================================
