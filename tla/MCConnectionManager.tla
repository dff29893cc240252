------------------------ MODULE MCConnectionManager ------------------------
EXTENDS ConnectionManager, TLC

CONSTANTS C1, C2, B1, B2

\* Callers and buckets are interchangeable model values.
Symmetry == Permutations({C1, C2}) \cup Permutations({B1, B2})
=============================================================================
