------------------------------ MODULE MCDocuments ------------------------------
\* Documents for TLC: ids, texts and principals are interchangeable.
EXTENDS Documents, TLC

Interchangeable == Permutations(Doc) \cup Permutations(Content) \cup Permutations(Principal)
=============================================================================
