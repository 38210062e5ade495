------------------------------- MODULE MCTasks -------------------------------
EXTENDS TaskProperties, TLC

CONSTANTS t1, t2, c1, c2
MCRequests == {t1, t2}
MCCallers == {c1, c2}
=============================================================================
