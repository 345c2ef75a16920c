----------------------------- MODULE MCAccounts -----------------------------
EXTENDS Accounts, TLC
CONSTANTS a, b, r1, r2, k1, k2
Symmetry == Permutations({r1, r2})
=============================================================================
