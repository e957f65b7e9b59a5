\* A body of up to almost four times the buffer size, read in pieces of
\* any size up to twice the buffer size.
SPECIFICATION Spec
CONSTANTS
  MaxLength = 11
  buffer_size = 3
  Quiet = TRUE
  MaxRead = 6
  OverflowChecks = TRUE
  Word = 16
INVARIANTS HeldBack EndIsVerified CheckedOnce NoPanic
PROPERTIES CallsReturn
CHECK_DEADLOCK FALSE
