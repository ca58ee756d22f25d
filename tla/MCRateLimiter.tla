--------------------------- MODULE MCRateLimiter ---------------------------
EXTENDS RateLimiterProperties, TLC

Symmetry == Permutations(Logins)
=============================================================================
