------------------------- MODULE MCLazySignatures -------------------------
(* Signatures with two hashed parts, one of which needs an embedded        *)
(* signature, for TLC.                                                     *)
EXTENDS LazySignatures, TLC

MCOrders == {[h \in Hashed |-> IF h \in Signing THEN 1 ELSE 2],
             [h \in Hashed |-> IF h \in Signing THEN 2 ELSE 1]}
MCFitting == {S \in SUBSET Backsigs : Cardinality(S) <= 1}
MCOffered == {s \in Signatures : s.h \notin Signing => s.emb = {}}
Symmetry == Permutations(Vectors) \cup Permutations(Threads)
============================================================================
