--------------------------- MODULE MCRateLimiter ---------------------------
EXTENDS RateLimiter, TLC

Symmetry == Permutations(Threads) \cup Permutations(Devices)
=============================================================================
