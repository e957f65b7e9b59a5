\* A text with both kinds of line endings.
SPECIFICATION Spec
CONSTANTS
  Byte = {"CR", "LF", "x"}
  MaxLength = 3
  MaxPiece = 3
  Mixed = TRUE
INVARIANTS HashedIsNormalized
CHECK_DEADLOCK FALSE
