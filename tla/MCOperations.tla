--------------------------- MODULE MCOperations ---------------------------
(***************************************************************************)
(* Small instances of Operations for TLC.                                  *)
(***************************************************************************)
EXTENDS Operations, TLC

CONSTANTS s1, s2

\* Two recorders.
TwoRecorders == (s1 :> {"open", "record"}) @@ (s2 :> {"record"})
\* One person who records and deletes.
OnePerson == (s1 :> {"open", "record", "drop"}) @@ (s2 :> {})

Symmetry == Permutations(Logs) \cup Permutations(Trips)
=============================================================================
