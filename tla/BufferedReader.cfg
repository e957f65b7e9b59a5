\* All readers over a source that chops at will and may fail twice.
CONSTANTS
  Length = 4
  MaxErrors = 2
  MaxAmount = 3
  Extra = 1
  BufSize = 2
  Kinds = {"generic", "limitor", "reserve", "dup"}
  Params = {0, 2, 5}
  Terminals = {3}
SPECIFICATION Spec
INVARIANTS
  DropEofDropsAll
  ErrorsInOrder
PROPERTIES LoopsEnd ImplementsByteStream
