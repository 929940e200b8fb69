--------------------------- MODULE MCMessageQueue ---------------------------
EXTENDS MessageQueue, TLC

Symmetry == Permutations(Devices) \cup Permutations(Ids) \cup Permutations(Bodies)
=============================================================================
