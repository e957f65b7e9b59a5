\* Two vectors that are appended and cloned while two threads verify and
\* iterate, with every index.  A subkey that can sign: one signature needs an
\* embedded signature to be good, the other does not verify.  There are two
\* embedded signatures, and an area has room for one of them.
SPECIFICATION Spec
CONSTANTS
  Hashed = {h1, h2}
  Backsigs = {b1, b2}
  Fitting <- MCFitting
  Offered <- MCOffered
  GoodHashed = {h1}
  Signing = {h1}
  GoodBacksigs = {b1}
  Subkey = TRUE
  Orders <- MCOrders
  Vectors = {v1, v2}
  Threads = {t1, t2}
  MaxLen = 2
  Width = 2
  OutOfBounds = TRUE
INVARIANTS TypeOK StatesTrue HandedOut NothingLost
SYMMETRY Symmetry
CHECK_DEADLOCK FALSE
