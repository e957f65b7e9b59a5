\* A body of up to six bytes, a threshold of two and chunks of up to four,
\* read with every operation up to the end of the input.
SPECIFICATION Spec
CONSTANTS
  Length = 6
  MaxWrite = 6
  MaxAmount = 4
  Following = 0
  Calls = {"data", "data_hard", "data_consume", "data_consume_hard"}
  buffer_threshold = 2
  max_chunk_size = 4
  OneOctet = 0
  TwoOctets = 1
INVARIANTS WellChunked TruncationDetected HashedIsBody
PROPERTIES LoopsEnd ImplementsByteStream
CHECK_DEADLOCK FALSE
