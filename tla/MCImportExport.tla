--------------------------- MODULE MCImportExport ---------------------------
EXTENDS ImportExport, TLC

Symmetry == Permutations(Uuids)
=============================================================================
