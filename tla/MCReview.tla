------------------------------- MODULE MCReview -------------------------------
EXTENDS ReviewProperties, TLC

CONSTANTS t1, t2
MCClients == {t1, t2}
Symmetry == Permutations(MCClients)
===============================================================================
