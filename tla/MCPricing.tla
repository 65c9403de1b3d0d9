----------------------------- MODULE MCPricing -----------------------------
(***************************************************************************)
(* Small instances of Pricing for TLC.                                     *)
(***************************************************************************)
EXTENDS Pricing, FiniteSets, TLC

CONSTANTS s1, s2, k1, m1, m2

\* One person closes rates while another records trips.
CloserAndRecorder == (s1 :> {"close"}) @@ (s2 :> {"record"})

OneCard == k1 :> m1

OnePrice == {[bill |-> 3, driverPay |-> 2, helperPay |-> 1]}

\* Nothing asked for, and a trip for nothing.
NothingOrFree ==
    {[bill |-> None, driverPay |-> None, helperPay |-> None],
     [bill |-> 0, driverPay |-> None, helperPay |-> 1]}

\* Where the choice is left to the code, without overrides: one rate, revised, or
\* of two clients and with routes; or two rates of one client, neither revised nor
\* disabled.  Elsewhere: one rate that is at most closed.  The clock stops with
\* the trip.
LeftToCode ==
    /\ \A s \in Slots : req[s].pc \notin {"idle", "close"} =>
          req[s].rate = None /\ \A c \in Columns : req[s].asked[c] = None
    /\ \A t \in Trips : Entered(t) =>
          ~trip[t].explicit /\ \A c \in Columns : trip[t].asked[c] = None
NoRoute ==
    /\ \A r \in Rates : rate[r].label = None
    /\ \A s \in Slots : req[s].client # m2 /\ req[s].label = None
    /\ \A t \in Trips : trip[t].client # m2 /\ trip[t].label = None
Unrevised == \A r \in Rates : ~fate[r].revised
OneRate == Cardinality({r \in Rates : Created(r)}) <= 1
Scope ==
    /\ \A t \in Trips : Entered(t) => trip[t].created = now
    /\ \/ OneRate /\ LeftToCode /\ (Unrevised \/ NoRoute)
       \/ Unrevised /\ NoRoute /\ (LeftToCode \/ OneRate) /\ card[k1] # "disabled"

Symmetry == Permutations(Rates)
=============================================================================
