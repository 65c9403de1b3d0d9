----------------------------- MODULE PeriodBook -----------------------------
(***************************************************************************)
(* What a period document (an invoice, a payroll run) promises its reader, *)
(* with requests taking effect at once.  A book is a set of documents; a   *)
(* document is issued as a draft that freezes a non-empty set of items     *)
(* (trips) no other document in force holds, moves along the declared      *)
(* status flow, releases its items when it is voided and may be discarded  *)
(* while it is a draft only.  Billing and Payroll implement this module.   *)
(***************************************************************************)
CONSTANTS Docs,    \* document identities, never reused
          Items,   \* what a document freezes
          Moves    \* the status flow: [status -> statuses it may change to]

VARIABLE book      \* [Docs -> [status, items]]

Statuses == DOMAIN Moves

Absent == [status |-> "absent", items |-> {}]

InForce(d) == book[d].status \in Statuses \ {"void"}

Held == UNION {book[d].items : d \in {e \in Docs : InForce(e)}}

Init == book = [d \in Docs |-> Absent]

\* Issue draft d over the items S.
Issue(d, S) ==
    /\ book[d].status = "absent"
    /\ S # {}
    /\ S \cap Held = {}
    /\ book' = [book EXCEPT ![d] = [status |-> "draft", items |-> S]]

\* Change the status of d along the flow; its items stay what they were.
Move(d, w) ==
    /\ book[d].status \in Statuses
    /\ w \in Moves[book[d].status]
    /\ book' = [book EXCEPT ![d].status = w]

\* Delete a draft.
Discard(d) ==
    /\ book[d].status = "draft"
    /\ book' = [book EXCEPT ![d] = [status |-> "deleted", items |-> {}]]

Next == \E d \in Docs :
    \/ \E S \in SUBSET Items : Issue(d, S)
    \/ \E w \in Statuses : Move(d, w)
    \/ Discard(d)

Spec == Init /\ [][Next]_book

-----------------------------------------------------------------------------
\* The promise in one line: no item is held by two documents in force.
HeldOnce == \A d, e \in Docs :
    InForce(d) /\ InForce(e) /\ d # e => book[d].items \cap book[e].items = {}
=============================================================================
