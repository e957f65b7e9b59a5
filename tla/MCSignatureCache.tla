------------------------- MODULE MCSignatureCache -------------------------
(* A small instance of SignatureCache for TLC. *)
EXTENDS SignatureCache

(* Two values per bucket, as if a value had one bit below the bucket bits. *)
MCBucket(v) == v \div 2
=============================================================================
