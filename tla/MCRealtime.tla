----------------------------- MODULE MCRealtime ------------------------------
EXTENDS Realtime, TLC

CONSTANTS c1, c2, s1, s2, u1

\* Two sessions of one user with a connection each.
MCSessionOf == c1 :> s1 @@ c2 :> s2
MCUserOf    == s1 :> u1 @@ s2 :> u1
=============================================================================
