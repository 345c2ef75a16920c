-------------------------- MODULE MCEngineDelivery ---------------------------
EXTENDS EngineDelivery, TLC
Symmetry == Permutations(Cameras) \cup Permutations(Channels)
=============================================================================
