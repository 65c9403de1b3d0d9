----------------------------- MODULE MCPayroll -----------------------------
(***************************************************************************)
(* Small instances of Payroll for TLC.                                     *)
(***************************************************************************)
EXTENDS Payroll, TLC

CONSTANTS s1, s2, t1, t2, w1, w2

\* One slot creates while the other updates and removes.
CreatorAndClerk == (s1 :> {"create"}) @@ (s2 :> {"update", "remove"})
\* Two creations at a time.
TwoCreators == (s1 :> {"create"}) @@ (s2 :> {"create"})

\* Both trips are driven on the same day.
SameDay == (t1 :> 1) @@ (t2 :> 1)
\* There is one trip.
OneTrip == t1 :> 1

\* The bound.  Either two runs over two trips of one worker, or a third run
\* over one trip, so that the numbers overflow; or a lone creation over two
\* trips of two workers, the first driven by w1.
Opened  == {i \in RunIds : run[i].status # "absent"}
Uniform == \A t \in Trips : trip[t].state = "live" =>
    trip[t].driver = w1 /\ trip[t].helper # w2
Scope ==
    \/ Uniform /\ (Cardinality(Opened) <= 2 \/ trip[t2].state = "unborn")
    \/ /\ req[s2] = Idle
       /\ trip[t1].driver \in {w1, None}
       /\ \A t \in Trips : trip[t].state # "deleted"
       /\ Cardinality(Opened) <= 1
       /\ \A i \in Opened : run[i].status = "draft"

Symmetry == Permutations(RunIds)
=============================================================================
