------------------------------- MODULE MCAuth -------------------------------
(***************************************************************************)
(* Small instances of Auth for TLC: races of the sessions of one user.     *)
(***************************************************************************)
EXTENDS Auth, TLC

CONSTANTS s1, s2, c1, c2

\* One slot creates the user, and its roles stay as they are.
OneCreator == s1 :> {"create"}
\* Two slots give it other roles at a time.
TwoSetters == (s1 :> {"create", "setRoles"}) @@ (s2 :> {"setRoles"})

\* A refresh under way does not keep the user from logging out.
TwoTabs == (c1 :> {"login", "refresh"}) @@ (c2 :> {"logout"})
\* Two tabs refresh with the same cookie.
TwoRefreshers == (c1 :> {"login", "refresh"}) @@ (c2 :> {"refresh"})

Spelling(b, n) == n
=============================================================================
