----------------------------- MODULE MCCertMerge -----------------------------
(* A certificate with a user ID, a subkey and an unknown component, an        *)
(* approval by somebody else over the user ID, and a binding of the subkey.   *)
EXTENDS CertMerge, TLC

CONSTANTS laptop, phone

MCOrder == <<"bob", "subkey", "future">>

Symmetry == Permutations(Holders)

MCOver ==
    [s \in Sigs |-> IF s = "approve_bob" THEN "bob" ELSE "subkey"]
==============================================================================
