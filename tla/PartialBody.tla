---------------------------- MODULE PartialBody ----------------------------
(***************************************************************************)
(* OpenPGP's partial body encoding: the writer PartialBodyFilter, which    *)
(* cuts a body of unknown length into chunks, and the reader               *)
(* BufferedReaderPartialBodyFilter, which puts them together again.        *)
(*                                                                         *)
(* The body is the bytes 1, 2, 3, ...: byte k is the number k, so that a   *)
(* lost, repeated or misplaced byte shows.  The stream between the two is  *)
(* a sequence of symbols: the header of a chunk, a byte of the body, or a  *)
(* byte of the packet that follows.  A header is one symbol; the last one, *)
(* which may have two or five octets, may also be cut in its middle.       *)
(*                                                                         *)
(* The two loops, write_out() and do_fill_buffer(), take one action for    *)
(* each round; every other operation is one action.                        *)
(***************************************************************************)
EXTENDS Integers, Sequences, SequencesExt

CONSTANTS
  Length,       \* bound: the length of the body
  MaxWrite,     \* bound: the longest write
  MaxAmount,    \* bound: the largest amount that a caller of the reader asks for
  Following,    \* bytes of the next packet that follow in the stream
  Calls,        \* the operations that the caller of the reader uses
  buffer_threshold,
  max_chunk_size,
  OneOctet,     \* the largest length that fits into one octet,
  TwoOctets     \* and into two; longer ones take five

PowersOfTwo == {2 ^ i : i \in 0 .. 30}

(* The checks of with_limits(). *)
ASSUME LimitsAssumption ==
  buffer_threshold \in PowersOfTwo /\ max_chunk_size \in PowersOfTwo

(* Of a length of five octets the second is zero: the last chunk is not    *)
(* longer than the threshold, which is 4 MiB by default.                   *)
ASSUME OctetsAssumption ==
  {OneOctet, TwoOctets} \subseteq Nat /\ OneOctet <= TwoOctets /\ buffer_threshold < 2 ^ 24

ASSUME BoundsAssumption ==
  /\ {Length, MaxWrite, MaxAmount, Following} \subseteq Nat
  /\ Calls \subseteq {"data", "data_hard", "data_consume", "data_consume_hard"}

VARIABLES
  w,        \* the writer: its buffer, the part of the slice that write_out()
            \* still has to write, its position, and what it is doing
  stream,   \* what the writer has written
  r,        \* the reader: whether it exists, the position in the stream,
            \* partial_body_length, last, buffer (if some), cursor, hash_headers
  torn,     \* where a header begins that was cut in its middle, or 0
  tripped,  \* parse_new_format() has failed in it: its first octet is gone
  lost,     \* HashedReader has lost its cookie, and the hash with it
  fill,     \* the call that waits for do_fill_buffer()
  out,      \* the bytes that the caller of the reader has consumed
  result    \* the last call and what it returned

(* History variables: what has been consumed of the reader below with      *)
(* hashing enabled, and how many bytes the caller has been shown and has   *)
(* not consumed.                                                           *)
VARIABLES hashed, seen

vars == <<w, stream, r, torn, tripped, lost, fill, out, result, hashed, seen>>

Lesser(a, b) == IF a <= b THEN a ELSE b
Bytes(i, j) == [k \in 1 .. j - i + 1 |-> [tag |-> "byte", n |-> i + k - 1]]
Header(tag, n) == [tag |-> tag, n |-> n]
IsHeader(x) == x.tag \in {"partial", "full"}
Take(s, n) == SubSeq(s, 1, Lesser(n, Len(s)))
Drop(s, n) == SubSeq(s, n + 1, Len(s))

NoFill == [on |-> FALSE, amount |-> 0, hard |-> FALSE, consume |-> FALSE, buf |-> <<>>]
NoResult == [call |-> "none", amount |-> 0, err |-> FALSE, data |-> <<>>]

Init ==
  /\ w = [buffer |-> <<>>, other |-> <<>>, position |-> 0, op |-> "idle"]
  /\ stream = <<>>
  /\ r = [open |-> FALSE, pos |-> 0, partial_body_length |-> 0, last |-> FALSE,
          some |-> FALSE, buffer |-> <<>>, cursor |-> 0, hash_headers |-> FALSE,
          cut |-> FALSE]
  /\ torn = 0 /\ tripped = FALSE /\ lost = FALSE
  /\ fill = NoFill /\ out = <<>> /\ result = NoResult
  /\ hashed = <<>> /\ seen = 0

-----------------------------------------------------------------------------
(* The writer. *)

WriterOnly == UNCHANGED <<r, torn, tripped, lost, fill, out, result, hashed, seen>>

(* write(): a slice that fills the buffer goes to write_out(), a shorter   *)
(* one is only buffered.                                                   *)
Write(n) ==
  LET buf == Bytes(w.position + 1, w.position + n)
      direct == n >= buffer_threshold - Len(w.buffer)
  IN  /\ w.op = "idle" /\ w.position + n <= Length
      /\ w' = IF direct
              THEN [w EXCEPT !.other = buf, !.op = "write_out", !.position = @ + n]
              ELSE [w EXCEPT !.buffer = @ \o buf, !.position = @ + n]
      /\ UNCHANGED stream /\ WriterOnly

(* flush() is write_out() of an empty slice. *)
Flush ==
  /\ w.op = "idle"
  /\ w' = [w EXCEPT !.other = <<>>, !.op = "write_out"]
  /\ UNCHANGED stream /\ WriterOnly

(* 1 << log2(min(max_chunk_size, n)) *)
ChunkSize(n) ==
  CHOOSE c \in PowersOfTwo : /\ c <= Lesser(max_chunk_size, n)
                             /\ 2 * c > Lesser(max_chunk_size, n)

Pending == Len(w.buffer) + Len(w.other)

(* A round of the loop in write_out(): one partial chunk, from the buffer  *)
(* first and then from the slice.                                          *)
WriteOutChunk ==
  LET size == ChunkSize(Pending)
      l == Lesser(Len(w.buffer), size)
  IN  /\ w.op = "write_out" /\ Pending > buffer_threshold
      /\ stream' = stream \o <<Header("partial", size)>>
                     \o Take(w.buffer, l) \o Take(w.other, size - l)
      /\ w' = [w EXCEPT !.buffer = Drop(@, l), !.other = Drop(@, size - l)]
      /\ WriterOnly

(* The end of write_out(): the rest of the slice is buffered. *)
WriteOutEnd ==
  /\ w.op = "write_out" /\ Pending <= buffer_threshold
  /\ w' = [w EXCEPT !.buffer = @ \o w.other, !.other = <<>>, !.op = "idle"]
  /\ UNCHANGED stream /\ WriterOnly

(* Mutant of Finish: no final header if there is nothing left. *)
FinishSkipsEmpty ==
  /\ w.op = "idle"
  /\ stream' = IF w.buffer = <<>> THEN stream
               ELSE stream \o <<Header("full", Len(w.buffer))>> \o w.buffer
  /\ w' = [w EXCEPT !.buffer = <<>>, !.op = "done"]
  /\ WriterOnly

(* into_inner() and pop(): write_out() with done set.  The final header is *)
(* written even if nothing is left.                                        *)
Finish ==
  /\ w.op = "idle"
  /\ stream' = stream \o <<Header("full", Len(w.buffer))>> \o w.buffer
  /\ w' = [w EXCEPT !.buffer = <<>>, !.op = "done"]
  /\ WriterOnly

-----------------------------------------------------------------------------
(* The reader.  The reader below it is a HashedReader over a reader that   *)
(* returns all there is left of the stream, of which at least the amount   *)
(* if there is as much.                                                    *)

ReaderOnly == UNCHANGED <<w, stream, torn>>
BelowWell == UNCHANGED <<tripped, lost>>
Left(x) == Drop(stream, x.pos)

(* HashedReader hashes whatever is consumed while hashing is enabled.  Its *)
(* data_consume() and data_consume_hard() take the cookie that holds the   *)
(* hash out, and a failure of the reader below returns before it is put    *)
(* back: then nothing is hashed any more (lost).                           *)
Hash(s) == hashed' = hashed \o s

(* BodyLength::serialize() *)
HeaderOctets(x) ==
  CASE x.tag = "partial" \/ x.n <= OneOctet -> 1
    [] x.tag = "full" /\ x.n > OneOctet /\ x.n <= TwoOctets -> 2
    [] OTHER -> 5

(* What the octets of a header that was cut are taken for if somebody      *)
(* reads on after its first one: of a length of five octets the second is  *)
(* zero, which is the header of an empty last chunk.                       *)
Remainder(octets) == IF octets >= 2 THEN <<Header("full", 0)>> ELSE <<>>

(* The packet parser has read the header of the packet with the first      *)
(* length, and that is partial: it creates the filter.  The stream may     *)
(* have been cut anywhere after that, by a writer that failed or was       *)
(* dropped or on the way, also after some of the octets of a header;       *)
(* otherwise the next packet follows.                                      *)
Open(cut, octets, hash_headers) ==
  /\ w.op = "done" /\ ~r.open
  /\ stream[1].tag = "partial" /\ cut \in 1 .. Len(stream)
  /\ octets > 0 => /\ cut < Len(stream) /\ IsHeader(stream[cut + 1])
                   /\ octets < HeaderOctets(stream[cut + 1])
  /\ stream' = IF cut < Len(stream) THEN Take(stream, cut) \o Remainder(octets)
               ELSE stream \o [k \in 1 .. Following |-> [tag |-> "next", n |-> k]]
  /\ r' = [r EXCEPT !.open = TRUE, !.pos = 1, !.partial_body_length = stream[1].n,
                    !.hash_headers = hash_headers, !.cut = cut < Len(stream)]
  /\ torn' = IF octets > 0 THEN cut ELSE 0
  /\ UNCHANGED <<w, tripped, lost, fill, out, result, hashed, seen>>

(* buffer() *)
Buffer(x) ==
  IF x.some THEN Drop(x.buffer, x.cursor) ELSE Take(Left(x), x.partial_body_length)

(* A buffer that has been exhausted exactly is put away. *)
Tidy(x) ==
  IF x.some /\ Len(x.buffer) = x.cursor
  THEN [x EXCEPT !.some = FALSE, !.buffer = <<>>, !.cursor = 0] ELSE x

(* The caller gets data, of which took bytes are consumed. *)
Return(call, amount, err, data, took) ==
  /\ result' = [call |-> call, amount |-> amount, err |-> err, data |-> data]
  /\ out' = out \o Take(data, took)
  /\ seen' = IF err THEN seen
             ELSE IF took > 0 THEN Len(data) - Lesser(took, Len(data))
             ELSE IF Len(data) > seen THEN Len(data) ELSE seen

NameOf(hard, consume) ==
  CASE hard /\ consume -> "data_consume_hard" [] hard -> "data_hard"
    [] consume -> "data_consume" [] OTHER -> "data"

Caller(amount, hard, consume) ==
  /\ r.open /\ ~fill.on /\ amount > 0 /\ NameOf(hard, consume) \in Calls

(* data_helper() without a buffer, when the amount is in the current       *)
(* chunk, or the chunk is the last: the call goes to the reader below,     *)
(* with the same amount.                                                   *)
Direct(amount, hard, consume) ==
  LET x == Tidy(r)
      below == Left(x)
      fails == hard /\ consume /\ Len(below) < amount
      eaten == IF consume /\ ~fails THEN Take(below, amount) ELSE <<>>
      data == Take(below, x.partial_body_length)
      err == fails \/ (hard /\ Len(data) < amount)
      took == IF consume /\ ~err THEN Lesser(amount, Len(data)) ELSE 0
  IN  /\ Caller(amount, hard, consume)
      /\ ~x.some /\ (amount <= x.partial_body_length \/ x.last)
      /\ r' = [x EXCEPT !.pos = @ + Len(eaten), !.partial_body_length = @ - took]
      /\ Hash(eaten)
      /\ lost' = (lost \/ fails)
      /\ Return(NameOf(hard, consume), amount, err, IF err THEN <<>> ELSE data, took)
      /\ UNCHANGED <<tripped, fill>> /\ ReaderOnly

(* The end of data_helper(): the data is in the buffer. *)
FromBuffer(x, amount, hard, consume) ==
  LET data == Drop(x.buffer, x.cursor)
      err == hard /\ Len(data) < amount
      took == IF consume /\ ~err THEN Lesser(amount, Len(data)) ELSE 0
  IN  /\ r' = [x EXCEPT !.cursor = @ + took]
      /\ Return(NameOf(hard, consume), amount, err, IF err THEN <<>> ELSE data, took)

(* data_helper() with as much in the buffer as is asked for, or with less, *)
(* and do_fill_buffer() returns at once as there is no more.               *)
Buffered(amount, hard, consume) ==
  LET x == Tidy(r)
  IN  /\ Caller(amount, hard, consume)
      /\ x.some
      /\ \/ amount <= Len(Buffer(x))
         \/ x.last /\ x.partial_body_length = 0
      /\ FromBuffer(x, amount, hard, consume)
      /\ UNCHANGED <<fill, hashed>> /\ ReaderOnly /\ BelowWell

(* data_helper() calls do_fill_buffer(), which starts with what is left    *)
(* in the old buffer.                                                      *)
NeedFill(amount, hard, consume) ==
  LET x == Tidy(r)
  IN  /\ Caller(amount, hard, consume)
      /\ \/ /\ x.some /\ amount > Len(Buffer(x))
            /\ ~(x.last /\ x.partial_body_length = 0)
         \/ ~x.some /\ amount > x.partial_body_length /\ ~x.last
      /\ r' = x
      /\ fill' = [on |-> TRUE, amount |-> amount, hard |-> hard, consume |-> consume,
                  buf |-> Drop(x.buffer, x.cursor)]
      /\ UNCHANGED <<out, result, hashed, seen>> /\ ReaderOnly /\ BelowWell

(* What one round of do_fill_buffer() reads of the current chunk. *)
ToRead == Lesser(r.partial_body_length, fill.amount - Len(fill.buf))
Chunk == Take(Left(r), ToRead)
AfterRead == [r EXCEPT !.pos = @ + Len(Chunk), !.partial_body_length = @ - Len(Chunk)]
IsShort == Len(Chunk) < ToRead
IsFilled == Len(fill.buf) + Len(Chunk) = fill.amount \/ r.last

(* The new buffer replaces the old one. *)
NewBuffer(x) == [x EXCEPT !.some = TRUE, !.buffer = fill.buf \o Chunk, !.cursor = 0]

(* Mutant of FillEnd: the end of the stream does not end the loop. *)
FillEndOnlyFull ==
  /\ fill.on /\ IsFilled
  /\ FromBuffer(NewBuffer(AfterRead), fill.amount, fill.hard, fill.consume)
  /\ Hash(Chunk)
  /\ fill' = NoFill /\ ReaderOnly /\ BelowWell

(* The stream ends in the chunk, or there is enough, or the chunk is last. *)
FillEnd ==
  /\ fill.on /\ (IsShort \/ IsFilled)
  /\ FromBuffer(NewBuffer(AfterRead), fill.amount, fill.hard, fill.consume)
  /\ Hash(Chunk)
  /\ fill' = NoFill /\ ReaderOnly /\ BelowWell

(* parse_new_format() finds no header, or only some octets of one, of      *)
(* which it consumes the first before it fails.                            *)
InTorn(x) == x.pos = torn /\ ~tripped
NoHeader(x) == x.pos >= Len(stream) \/ InTorn(x)

(* Mutant of FillHeader: hashing is not disabled for the header. *)
FillHeaderHashed ==
  LET x == AfterRead
      header == stream[x.pos + 1]
  IN  /\ fill.on /\ ~IsShort /\ ~IsFilled
      /\ ~NoHeader(x)
      /\ r' = [x EXCEPT !.pos = @ + 1, !.partial_body_length = header.n,
                        !.last = header.tag = "full"]
      /\ fill' = [fill EXCEPT !.buf = @ \o Chunk]
      /\ Hash(Chunk \o <<header>>)
      /\ UNCHANGED <<out, result, seen>> /\ ReaderOnly /\ BelowWell

(* The chunk is exhausted: the next header is parsed, with hashing         *)
(* disabled while that happens unless headers are to be hashed.            *)
FillHeader ==
  LET x == AfterRead
      header == stream[x.pos + 1]
  IN  /\ fill.on /\ ~IsShort /\ ~IsFilled
      /\ ~NoHeader(x)
      /\ r' = [x EXCEPT !.pos = @ + 1, !.partial_body_length = header.n,
                        !.last = header.tag = "full"]
      /\ fill' = [fill EXCEPT !.buf = @ \o Chunk]
      /\ Hash(Chunk \o IF r.hash_headers THEN <<header>> ELSE <<>>)
      /\ UNCHANGED <<out, result, seen>> /\ ReaderOnly /\ BelowWell

(* Mutant of FillError: what was read before the error is dropped. *)
FillErrorDrops ==
  /\ fill.on /\ ~IsShort /\ ~IsFilled
  /\ NoHeader(AfterRead)
  /\ r' = [AfterRead EXCEPT !.some = TRUE, !.buffer = <<>>, !.cursor = 0]
  /\ tripped' = (tripped \/ InTorn(AfterRead)) /\ lost' = TRUE
  /\ Return(NameOf(fill.hard, fill.consume), fill.amount, TRUE, <<>>, 0)
  /\ Hash(Chunk)
  /\ fill' = NoFill /\ ReaderOnly

(* There is no header: the call fails, as data_consume_hard() does below.  *)
(* What has been read stays in the buffer.                                 *)
FillError ==
  /\ fill.on /\ ~IsShort /\ ~IsFilled
  /\ NoHeader(AfterRead)
  /\ r' = NewBuffer(AfterRead)
  /\ tripped' = (tripped \/ InTorn(AfterRead)) /\ lost' = TRUE
  /\ Return(NameOf(fill.hard, fill.consume), fill.amount, TRUE, <<>>, 0)
  /\ Hash(Chunk)
  /\ fill' = NoFill /\ ReaderOnly

(* consume(): the caller consumes some of what it has been shown. *)
Consume(amount) ==
  /\ r.open /\ ~fill.on /\ amount \in 1 .. seen
  /\ out' = out \o Take(Buffer(r), amount)
  /\ seen' = seen - amount
  /\ IF r.some
     THEN r' = [r EXCEPT !.cursor = @ + amount] /\ UNCHANGED hashed
     ELSE /\ r' = [r EXCEPT !.pos = @ + amount, !.partial_body_length = @ - amount]
          /\ Hash(Take(Left(r), amount))
  /\ result' = NoResult
  /\ UNCHANGED fill /\ ReaderOnly /\ BelowWell

-----------------------------------------------------------------------------
WriteOutStep == WriteOutChunk \/ WriteOutEnd
FillStep == FillEnd \/ FillHeader \/ FillError

Next ==
  \/ \E n \in 0 .. MaxWrite : Write(n)
  \/ Flush
  \/ WriteOutStep
  \/ Finish
  \/ \E cut \in 1 .. Len(stream), octets \in 0 .. 4, h \in BOOLEAN : Open(cut, octets, h)
  \/ \E amount \in 1 .. MaxAmount, hard, consume \in BOOLEAN :
        \/ Direct(amount, hard, consume)
        \/ Buffered(amount, hard, consume)
        \/ NeedFill(amount, hard, consume)
  \/ FillStep
  \/ \E amount \in 1 .. MaxAmount : Consume(amount)

(* A loop that has been entered runs on: it is sequential code. *)
Spec == Init /\ [][Next]_vars /\ WF_vars(WriteOutStep) /\ WF_vars(FillStep)

-----------------------------------------------------------------------------
(* What the encoding promises. *)

Symbols == [tag : {"byte", "partial", "full", "next"}, n : Nat]

(* The types of the variables, and the bounds that the code asserts: the   *)
(* writer never buffers more than buffer_threshold, the cursor of the      *)
(* reader stays in its buffer, what is left of the chunk is what consume() *)
(* may take of it, and do_fill_buffer() is only called for more than there *)
(* is.                                                                     *)
TypeOK ==
  /\ w.buffer \in Seq(Symbols) /\ w.other \in Seq(Symbols)
  /\ w.position \in 0 .. Length /\ w.op \in {"idle", "write_out", "done"}
  /\ Len(w.buffer) <= buffer_threshold
  /\ stream \in Seq(Symbols) /\ out \in Seq(Symbols) /\ hashed \in Seq(Symbols)
  /\ r.pos \in 0 .. Len(stream) /\ r.partial_body_length \in Nat
  /\ {r.open, r.last, r.some, r.hash_headers, r.cut, fill.on} \subseteq BOOLEAN
  /\ torn \in Nat /\ {tripped, lost} \subseteq BOOLEAN
  /\ r.buffer \in Seq(Symbols) /\ r.cursor \in 0 .. Len(r.buffer)
  /\ ~r.some => r.buffer = <<>> /\ r.cursor = 0
  /\ fill.on => Len(fill.buf) < fill.amount
  /\ seen \in Nat

Headers(s) == {i \in 1 .. Len(s) : IsHeader(s[i])}
BytesIn(s) == {i \in 1 .. Len(s) : s[i].tag = "byte"}

(* The bytes in s are the first m of the body, once and in order. *)
Carries(s, m) ==
  /\ {s[i].n : i \in BytesIn(s)} = 1 .. m
  /\ \A i, j \in BytesIn(s) : i < j => s[i].n < s[j].n

Written == Bytes(1, w.position)

(* Every byte that was written to PartialBodyFilter is in the stream, in   *)
(* the buffer, or in the slice that write_out() is still at, once and in   *)
(* order.                                                                  *)
WriterLosesNothing ==
  ~r.open =>
    LET done == w.position - Pending
    IN  Carries(stream, done) /\ w.buffer \o w.other = Bytes(done + 1, w.position)

(* Every chunk that PartialBodyFilter writes has as many bytes as its      *)
(* header says, only the last is not partial, and it is there when the     *)
(* writer is done, even if it is empty.                                    *)
WellFramed ==
  ~r.open =>
    /\ stream # <<>> => IsHeader(stream[1])
    /\ \A i \in Headers(stream) :
         LET next == i + stream[i].n + 1
         IN  /\ \A j \in i + 1 .. next - 1 : j <= Len(stream) /\ stream[j].tag = "byte"
             /\ next = Len(stream) + 1 \/ next \in Headers(stream)
             /\ stream[i].tag = "partial" => stream[i].n \in PowersOfTwo
             /\ stream[i].tag = "full" <=> (w.op = "done" /\ next = Len(stream) + 1)
    /\ w.op = "done" => Headers(stream) # {}

(* A chunk that write_out() writes is never smaller than the threshold or  *)
(* the largest chunk.  With the default limits that makes the first chunk  *)
(* longer than the 512 octets that the format asks for.                    *)
ChunksNotSmall ==
  \A i \in Headers(stream) :
    stream[i].tag = "partial" => stream[i].n >= Lesser(buffer_threshold, max_chunk_size)

(* A body that fits into the buffer is not chunked, however it was written *)
(* and flushed.                                                            *)
NoAvoidableChunking ==
  w.op = "done" /\ w.position <= buffer_threshold /\ ~r.open =>
    Headers(stream) = {1} /\ stream[1].tag = "full"

(* PartialBodyFilter's chunking is right in all these respects, for every  *)
(* sequence of writes and flushes, and the assertions hold.                *)
WellChunked ==
  TypeOK /\ WellFramed /\ WriterLosesNothing /\ ChunksNotSmall /\ NoAvoidableChunking

(* Mutant of Consummated: the last header has been seen. *)
ConsummatedByHeader == r.last

(* consummated() *)
Consummated == r.partial_body_length = 0 /\ r.last

(* The caller did not stop when a call failed in a header that was cut,    *)
(* and the reader took the rest of that for the last header.               *)
Misread == torn # 0 /\ r.last

(* A packet that was cut is told from a complete one: when the reader says *)
(* that there is no more data, it is consummated if and only if the caller *)
(* has got the whole body.  The exception is a caller that reads on after  *)
(* a failure in a header of which two octets or more have arrived.         *)
TruncationDetected ==
  result.call \in {"data", "data_consume"} /\ ~result.err /\ result.data = <<>> =>
    Misread \/ (Consummated <=> (~r.cut /\ out = Written))

(* The hash over a literal data packet covers the bytes of the body, in    *)
(* order, and no chunk header, and it is never behind what the caller has  *)
(* consumed, until a call has failed in HashedReader and the hash is lost. *)
HashedIsBody ==
  r.open /\ ~r.hash_headers /\ ~lost =>
    IsPrefix(hashed, Written) /\ Len(hashed) >= Len(out)

(* The filter "implicitly implements a limitor": it never takes a byte of  *)
(* the packet that follows from the reader below.                          *)
LimitorHeld ==
  r.open => \A i \in 1 .. r.pos : stream[i].tag # "next"

(* How much of the body is in the stream. *)
Received ==
  CHOOSE m \in {0} \union {stream[i].n : i \in BytesIn(stream)} :
    \A i \in BytesIn(stream) : stream[i].n <= m

(* What the reader has to give: the body, or what was not cut off. *)
Own ==
  IF ~r.open THEN <<>>
  ELSE IF r.cut THEN Bytes(1, Received) ELSE Written

Hard == result.call \in {"data_hard", "data_consume_hard"}

(* do_fill_buffer() returns an error although there is data in the buffer, *)
(* to data() and data_consume() too, which is against the promise that     *)
(* errors are returned only when the buffer is empty: Eager waives it.     *)
Abstract == INSTANCE ByteStream WITH
  Eager <- TRUE,
  content <- Own,
  shown <- seen,
  fault <- FALSE,
  reply <- [amount |-> result.amount, hard |-> Hard,
            err |-> result.err, data |-> result.data]

(* From the writer through the stream to the reader: the caller of         *)
(* BufferedReaderPartialBodyFilter reads the body as it was written, by    *)
(* the contract of the trait.  No byte is lost, repeated or misplaced and  *)
(* no header shows, although the buffer is changed, replaced or put away   *)
(* between two calls; a short result means the end; and what was shown     *)
(* stays, a call that fails included.  Only the order of errors and data   *)
(* is not as the trait promises it.                                        *)
ImplementsByteStream == Abstract!Spec

(* write_out() and do_fill_buffer() end. *)
LoopsEnd == (w.op = "write_out" ~> w.op = "idle") /\ (fill.on ~> ~fill.on)
=============================================================================
