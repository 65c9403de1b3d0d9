------------------------------- MODULE Costs -------------------------------
(***************************************************************************)
(* Costs of trucks (costs.service.ts): a cost is inserted and announced,   *)
(* and removed by a request that looks for it first.  Nothing announces a  *)
(* removal.  Slots are requests in flight, as in Billing; the truck of a   *)
(* new cost is there for good, as no truck is ever deleted.                *)
(***************************************************************************)
CONSTANTS Slots, CostIds, Amounts,
          None      \* not a value of any other set

VARIABLES cost,     \* table TruckCost
          req       \* the request each slot serves

vars == <<cost, req>>

-----------------------------------------------------------------------------
NoCost == [state |-> "absent", amount |-> 0]

\* A deleted row keeps its amount (history).
Cost == [state : {"live", "deleted"}, amount : Amounts] \cup {NoCost}

Request == [pc : {"idle", "insert", "announce", "delete"},
            id : CostIds \cup {None}, amount : Amounts \cup {0}]

Idle == [pc |-> "idle", id |-> None, amount |-> 0]

Return(s) == req' = [req EXCEPT ![s] = Idle]

Init ==
    /\ cost = [i \in CostIds |-> NoCost]
    /\ req = [s \in Slots |-> Idle]

-----------------------------------------------------------------------------
\* POST /truck-costs.
StartCreate(s, n) ==
    /\ req[s].pc = "idle"
    /\ req' = [req EXCEPT ![s] = [Idle EXCEPT !.pc = "insert", !.amount = n]]
    /\ UNCHANGED cost

InsertCost(s, i) ==
    /\ req[s].pc = "insert"
    /\ cost[i].state = "absent"
    /\ cost' = [cost EXCEPT ![i] = [state |-> "live", amount |-> req[s].amount]]
    /\ req' = [req EXCEPT ![s].pc = "announce", ![s].id = i]

\* COST_CREATED, with the row as it was inserted.
Announce(s) ==
    /\ req[s].pc = "announce"
    /\ Return(s)
    /\ UNCHANGED cost

\* DELETE /truck-costs/:id.
StartRemove(s, i) ==
    /\ req[s].pc = "idle"
    /\ cost[i].state = "live"
    /\ req' = [req EXCEPT ![s] = [Idle EXCEPT !.pc = "delete", !.id = i]]
    /\ UNCHANGED cost

\* (P2025 when the row is gone.)
DeleteCost(s) ==
    /\ req[s].pc = "delete"
    /\ cost' = [cost EXCEPT ![req[s].id].state = "deleted"]
    /\ Return(s)

Fail(s) ==
    /\ req[s].pc # "idle"
    /\ Return(s)
    /\ UNCHANGED cost

CostStep(s) ==
    \/ \E n \in Amounts : StartCreate(s, n)
    \/ \E i \in CostIds : InsertCost(s, i) \/ StartRemove(s, i)
    \/ DeleteCost(s)
=============================================================================
