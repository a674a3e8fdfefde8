--------------------------- MODULE MCModelCatalog ---------------------------
EXTENDS ModelCatalog, TLC
CONSTANTS a, b, x, y, h1, h2
MCSymmetry == Permutations(Handler) \cup Permutations(Machine)
=============================================================================
