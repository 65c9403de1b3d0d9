----------------------------- MODULE MCBilling -----------------------------
(***************************************************************************)
(* Small instances of Billing for TLC.                                     *)
(***************************************************************************)
EXTENDS Billing, TLC

CONSTANTS s1, s2, t1, t2

\* One slot creates while the other updates and removes.
CreatorAndClerk == (s1 :> {"create"}) @@ (s2 :> {"update", "remove"})
\* Two creations at a time, by slots that also change statuses.
TwoCreators == (s1 :> {"create"}) @@ (s2 :> {"create", "update"})
\* Two status changes at a time, by slots one of which also creates.
TwoUpdaters == (s1 :> {"create", "update"}) @@ (s2 :> {"update"})
\* A status change and a deletion at a time.
UpdaterAndRemover == (s1 :> {"create", "update"}) @@ (s2 :> {"remove"})

\* The second trip is driven a day after the first.
TwoDays == (t1 :> 1) @@ (t2 :> 2)
\* Both trips are driven on the same day.
SameDay == (t1 :> 1) @@ (t2 :> 1)

\* The bound: a third invoice only over a single trip charged 1, so that the
\* numbers overflow.
Scope ==
    \/ Cardinality({i \in InvoiceIds : inv[i].status # "absent"}) <= 2
    \/ trip[t2].state = "unborn" /\ trip[t1].bill # 2

InvoiceSymmetry == Permutations(InvoiceIds)
=============================================================================
