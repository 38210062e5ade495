--------------------------- MODULE MCReceiptStore ----------------------------
EXTENDS StoreProperties, TLC
CONSTANTS w1, w2
MCWriters == {w1, w2}
Symmetry == Permutations(Writers)
=============================================================================
