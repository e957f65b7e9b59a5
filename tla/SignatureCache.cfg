\* Three restores, two of which contend for the buckets, a verifier that
\* verifies again and again, and a dump that runs meanwhile.
CONSTANTS
  Value = {1, 2}
  Valid = {1}
  Malformed = Malformed
  Saved = {{1, 2, Malformed}}
  NBuckets = 2
  Bucket <- MCBucket
  Verifiers = {t1}
  Restorers = {r1, r2, r3}
  Dumpers = {d1}
  Nobody = Nobody
SPECIFICATION Spec
INVARIANTS
  OnlyTrusted
  LockOrder
  InsertionsExact
  DumpExactly
PROPERTIES
  EverybodyReturns
