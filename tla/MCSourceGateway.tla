--------------------------- MODULE MCSourceGateway ---------------------------
EXTENDS SourceGateway, TLC

Symmetric == Permutations(Callers)
=============================================================================
