---------------------------- MODULE MCSettlement ----------------------------
(***************************************************************************)
(* Small instances of Settlement for TLC.                                  *)
(***************************************************************************)
EXTENDS Settlement, TLC

CONSTANTS s1, s2, q1, d1, t1

\* One slot does everything, in Billing and in Payroll.
Alone == s1 :> {"create", "update", "remove"}
Payer == q1 :> {"create", "update", "remove"}
\* Two status changes at a time in Billing.
TwoUpdaters == (s1 :> {"create", "update"}) @@ (s2 :> {"update"})

\* The desk opens accounts ...
Opener == d1 :> {"createAccount"}
\* ... and changes them too.
Manager == d1 :> {"createAccount", "updateAccount"}

OneDay == t1 :> 1

\* The bound: the rows of the ledger are numbered and taken in order; a trip
\* has no helper, and is deleted only before any cost is entered; accounts are
\* changed, once opened, only while there is no payroll.
InOrder == \A e \in EntryIds :
    entry[e].state # "absent" => \A f \in EntryIds : f < e => entry[f].state # "absent"
Changed ==
    \/ \E d \in Slots : req[d].pc \in {"demote", "write"}
    \/ \E a \in Accounts : ~account[a].isDefault \/ account[a].status = "disabled"
Scope ==
    /\ InOrder
    /\ \A t \in Trips : crew[t].helper = None
    /\ (\E t \in Trips : crew[t].state = "deleted") => \A k \in CostIds : cost[k] = C!NoCost
    /\ Changed => \A r \in RunIds : run[r].status = "absent"

ScopedNext == SettlementNext /\ Scope'
ScopedSpec == SettlementInit /\ [][ScopedNext]_allVars /\ Fairness
=============================================================================
