\* Texts with one kind of line ending, written and read in every way.
SPECIFICATION Spec
CONSTANTS
  Byte = {"CR", "LF", "SP", "DASH", "FROM", "MARK", "UDASH"}
  MaxLength = 5
  MaxPiece = 5
  Mixed = FALSE
INVARIANTS SignedIsNormalized CleartextVerifies BodyIsText
CHECK_DEADLOCK FALSE
