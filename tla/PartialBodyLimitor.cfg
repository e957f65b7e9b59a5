\* Another packet follows, and the caller reads with data_consume(), as
\* io::Read::read() does.
SPECIFICATION Spec
CONSTANTS
  Length = 5
  MaxWrite = 5
  MaxAmount = 4
  Following = 2
  Calls = {"data", "data_consume"}
  buffer_threshold = 2
  max_chunk_size = 4
  OneOctet = 0
  TwoOctets = 1
INVARIANTS LimitorHeld
CHECK_DEADLOCK FALSE
