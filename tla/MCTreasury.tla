----------------------------- MODULE MCTreasury -----------------------------
(***************************************************************************)
(* Small instances of Treasury for TLC.                                    *)
(***************************************************************************)
EXTENDS Treasury, TLC

CONSTANTS s1, s2

\* One slot opens and changes accounts, the other does the rest.
ManagerAndBookkeeper ==
    (s1 :> {"createAccount", "updateAccount"}) @@
    (s2 :> {"removeAccount", "createTransaction", "removeTransaction"})
\* Two managers at a time.
TwoManagers == (s1 :> {"createAccount", "updateAccount"}) @@ (s2 :> {"updateAccount"})
\* A removal while a transaction is entered.
RemoverAndRecorder ==
    (s1 :> {"createAccount", "removeAccount"}) @@ (s2 :> {"createTransaction"})

Symmetry == Permutations(AccountIds) \cup Permutations(EntryIds)
=============================================================================
