-------------------------- MODULE MCIncidentControl --------------------------
EXTENDS IncidentControl, TLC
Symmetry == Permutations(Logs) \cup Permutations(Events) \cup Permutations(Threads) \cup Permutations(Users) \cup Permutations(Cameras)
=============================================================================
