# Verification of Sequoia PGP: models, checks and proofs

This directory holds TLA+ models of parts of this repository (the workspace of
Sequoia PGP: `openpgp`, `buffered-reader`, `ipc`, `net`, `autocrypt`), the TLC
configurations that check them on small instances, and TLAPS proofs of some of
their properties for all instances. `PROJECT.json` lists the components, the
runs, the source lines behind each definition, the hazards the properties are
aimed at, the findings and the theorems.

Each definition is written from the code; a comment above it names the function
it stands for. A definition whose comment begins with "Mutant of" is a plausible
mistake in the definition that follows it, and no specification uses it: it
shows that a property would notice.

## 1. The system and its parts

| component | state | operations | interacts with | what is hard |
|---|---|---|---|---|
| signature verification cache, `openpgp/src/packet/signature/cache.rs` | process-wide: a write-once list, 16 buckets with a lock each, counters | `present`, `insert`, `restore`, `dump`, `clear_insertions` | every verification (`verify_digest_internal`); the application saves and restores it | threads; hand-over-hand locks; a dump of a moving target |
| IPC rendezvous, `ipc/src/lib.rs` | a locked cookie file; per server its cookie and its connection | `connect`, `connect_with_policy`, `bootstrap`, `start`/`fork`/`spawn`, `serve_listener` | processes over a file and TCP | races to start a server, stale files, crashes between writes, who connects first |
| buffered readers, `buffered-reader/src/` | a buffer, a cursor, end-of-file and a stashed error; limits, reserves and cursors of the readers on top | `data`, `data_hard`, `data_consume`, `data_consume_hard`, `consume`, `eof`, `data_eof`, `drop_eof`, `copy`, `read_to`, `drop_until`, `rewind` | the packet parser reads everything through stacks of them | short reads, errors in the middle, off-by-one at the end |
| partial body encoding, `openpgp/src/{serialize/stream,parse}/partial_body.rs` | writer: a buffer; reader: the current chunk, a buffer and a cursor | `write`, `flush`, `into_inner`; the reader operations, `consummated` | writer stack above, packet parser below | chunk boundaries against call boundaries, cut streams, hashing of headers |
| message grammar, `openpgp/src/message/` | depth, tokens seen, an error that sticks | `push`, `push_token`, `finish`, `check` | packet parser, streaming decryptor | prefixes of messages; what closes when the depth falls by more than one |
| packet parser, `openpgp/src/parse.rs`, `parse/hashed_reader.rs` | a stack of readers; in the cookie of each, groups of signatures with their hashes, the hashing mode and a stash | `parse`, `next`, `recurse`, `finish`; `hash_update`, `sig_group_push`, `sig_group_pop` | validator, decryptor, buffered readers | which bytes which signature hashes when signatures notarize each other, containers nest, or calls chop the text |
| streaming decryption and verification, `openpgp/src/parse/stream.rs` | packet parser, reserve, cursor; the layers of the message | `read`, `read_helper`, `finish_maybe`, `verify_signatures`; `push_ops`, `push_signature`, ... | packet parser below, `VerificationHelper` and `DecryptionHelper` of the caller | what is released before it is verified; a message that ends or fails at any byte |
| streaming serialization, `openpgp/src/serialize/stream.rs` and the filters below it | a stack of writers, each with hashes or a buffer | `build`, `write`, `into_inner`, `emit_signatures` | the packet parser reads the result back | what a signer hashes depends on its neighbours; the order of finalization |
| ASCII armor, cleartext signatures, `openpgp/src/armor.rs` | the transformed message | `read_clearsigned_message` | signer's filters, hash of the packet parser | line endings, trailing whitespace and dashes at the border of two writes or reads |
| certificate, `openpgp/src/cert.rs`, `cert/parser/` | components with five lists of signatures, unknown components, bad signatures | `canonicalize`, `insert_packets`, `merge_public`, `merge_public_and_secret`, `strip_secret_key_material`, `retain_*` | certificate parser; component bundles | packets arrive in any order and from anyone |
| lazily verified signatures, `openpgp/src/cert/lazysigs.rs` | a vector of signatures and, behind a lock, one of states | `push`, `append`, `take`, `sort_by`, `dedup_by`, `clone`, `verify_sig`, `iter_verified`, `iter_bad` | component bundles | two vectors that must stay in step; verification outside the lock |
| component bundle, `openpgp/src/cert/bundle.rs` | signatures and revocations of a component | `sort_and_dedup`, `binding_signature`, `revocation_status` | certificates, policies | search among unverified signatures; time and revocation rules |
| policy and cutoff lists, AEAD chunking | | | | planned, see section 6 |
| cryptographic primitives, packet types, regular expressions, keybox and S-expression parsers, network clients, Autocrypt | | | | left out, see section 6 |

What makes each of the modelled parts correct is stated as properties in section 3.

## 2. The modules

| module | models | atomic steps |
|---|---|---|
| `SignatureCache` | the cache and the lookup, verify, insert sequence around it | one critical section; one iteration of the restore loop; one call of `DumpIter::next` that refills |
| `SignatureCacheProofs` | theorems about it | |
| `Rendezvous` | the protocol of clients, bootstrapping servers and server loops | one system call: open and lock, read, connect, send, truncate, write, unlock, accept, receive |
| `RendezvousProofs` | theorems about it | |
| `ByteStream` | abstract: what the trait `BufferedReader` promises its caller | one call |
| `BufferedReader` | `Generic` under none or one of `Limitor`, `Reserve`, `Dup` | one call; one round of the operations that loop |
| `BufferedReaderProofs` | theorems about them, and that they implement `ByteStream` | |
| `PartialBody` | the writer, the stream, and the reader | one call; one round of `write_out` and of `do_fill_buffer` |
| `PartialBodyProofs` | theorems about them, and that they implement `ByteStream` | |
| `MessageGrammar` | the grammar, the validator, and what it should accept | operators only |
| `MessageParser` | packet parser, hashing readers, message structure, `finish_maybe` | one packet |
| `WriterStack` | signers, compressors, encryptors, literal writer | one `build`, `write` or `into_inner` |
| `Messages` | composition: a wire from the writers or from elsewhere, parsed | one step of either |
| `StreamVerifier` | `Decryptor::read` and the reserve | one step between calls that may fail |
| `StreamVerifierProofs` | theorems about it | |
| `Cleartext` | signer, its two line filters, armor reader and both text hashes | one `write`, one transformation, one `consume` |
| `CertMerge` | canonicalization, insertion of packets, merging | one call; one packet of a call of `insert_packets` |
| `CertMergeProofs` | theorems about it | |
| `LazySignatures` | vectors of signatures shared by threads | one exclusive call; one critical section of `verify_sig` |
| `LazySignaturesProofs` | theorems about it | |
| `ComponentBundle` | order, binding signature, revocation status | one call |
| `ComponentBundleProofs` | theorems about it | |
| `MC...` | small sets, orders and symmetries for TLC | |

How they compose. `BufferedReader` and `PartialBody` each instantiate
`ByteStream` with a refinement mapping and are checked to implement it
(`ImplementsByteStream`); for `PartialBody` that is a statement about writer,
stream and reader together, since the content of the abstract stream is what was
written. `StreamVerifier` reads the packet body by that contract. `Messages` puts
`WriterStack` on top of `MessageParser`, which contains the validator of
`MessageGrammar`: what one side writes the other reads. `ComponentBundle` uses
what `LazySignatures` establishes: a remembered state is always the verdict, so
there a signature simply is good or bad. `CertMerge` has whole signatures as sets,
which is what sorting and deduplication in the bundles make of the vectors.

### SignatureCache

A cache value (the truncated hash of everything a verification depends on) is a
natural number; `Bucket` maps it monotonically to a bucket, as the most
significant bits do. `Verify(t)` is `verify_digest_internal`: search the list
(`PresentInList`), look into the bucket under its read lock (`PresentInBucket`),
verify (`KeyVerify`; a bad result is never cached), insert (`Insert`). Between
any two of these other threads run. `Restore`, `SetList`, `LockFirstBucket`,
`RestoreItem`, `SwitchBucket` and `FinishRestore` are the thread of `restore()`:
in `SwitchBucket` the lock of the next bucket is taken while the guard of the old
one is still alive, because Rust drops the old value of `bucket` only after the
new guard has been assigned. `Dump` clones the list, `DumpBucket` copies one
bucket without what the clone has, `DumpList` yields the clone. A saved cache is
a set of values: it is what a dump has yielded, which has no duplicates
(`DumpExactly`). The statistics and the `inserted` and `accessed` flags of
entries are left out; no code in the repository decides anything by them. If no
cache value can be computed (`Entry::new` fails, `signature.rs:2930-2932`), the
signature is verified without the cache, which changes none of the state here.

### Rendezvous

A server is identified with its socket address, and the random cookie that is
drawn for it with the server; addresses are given out in ascending order, since
which of the unused ones a server gets makes no difference. `Open` blocks until the file lock is free; the file
is closed, and the lock released, by `Fail`, `DropFile`, `SendCookie`,
`ProbeSend`, `InvalidateCookie` and `Crash`, as the file handle goes out of
scope there. `file` can be seen empty, with a cookie only, or complete, as
`CookieFile::write` is `Truncate`, `WriteCookie`, `WriteAddr`. `Launch` binds the
listener and draws the cookie. A client sends the cookie (`Greet`, `GreetSend`)
before it writes and unlocks the file; `bootstrap()` writes and unlocks first.
`serve_listener` is `Accept`, then `ReceiveFirst` for the first connection and
`Receive`, `NextConnection` for the later ones; it serves one connection at a
time. External servers may die (`Die`, at most `MaxDeaths` times) and processes
may crash at any point with their threads, locks and connections (`Crash`).

The code looks at no error of `TcpStream::connect` or of sending
(`lib.rs:181-192`, `310-319`): if there is no file descriptor left, or the backlog
of the server is full, a process takes a live server for dead. `Refused` is any
failure to connect or send, to a dead server or, at most `MaxRefusals` times, to a
live one; if the live server is the one in the file, the process clears or
overwrites its entry, and `Forsake` remembers the server in `forsaken`. What
`PublishedStays` says of live servers is about the others.

### BufferedReader

Byte k of the source is the number k, so that lost or repeated bytes show. `Fill`
is the read loop of `Generic::data_helper` with all the ways it can end: the
source may return any positive number of bytes per read, end, or fail; then the
error is stashed. `GenericHelper` is the rest of it. `Data`, `DataHard`,
`DataConsume`, `DataConsumeHard` and `Consumed` give the operations of the reader
on top of it; where a reader does not define one, they follow the default of the
trait. `data_eof`, `drop_eof` (with `copy`), `read_to` and `drop_until` take a
step per round. A caller consumes only what it has been shown, which is the
contract of `consume()`. The contract is instantiated without `Eager`: these
readers return an error only when nothing is buffered, as documented.

### PartialBody

The stream is a sequence of symbols: a chunk header, a byte of the body, or a byte
of the next packet. `Write`, `Flush`, `WriteOutChunk`, `WriteOutEnd` and `Finish`
are `PartialBodyFilter`; `write_out` writes chunks whose size is a power of two as
long as more than `buffer_threshold` is pending. `Open` is the packet parser that
has read the packet header with a partial length; the stream may have been cut
anywhere after that. `Direct`, `Buffered` and `NeedFill` are the three ways
through `data_helper`; `FillEnd`, `FillHeader` and `FillError` a round of
`do_fill_buffer`. Bytes carry their number; `Carries(s, m)` says that those in a
stream are 1 to m, in order.

A header is one symbol, but the cut may be between the octets of the last one,
which are one, two or five by its length (`HeaderOctets`; `OneOctet` and
`TwoOctets` stand for 191 and 8383). `torn` is where such a header begins.
`parse_new_format` consumes the first octet before it fails for the lack of the
others (`tripped`); a caller that reads on makes it parse what is left
(`Remainder`). Of a length of five octets the second is zero, since a final chunk
is not longer than `buffer_threshold`, so it is taken for the header of an empty
last chunk, and `consummated()` becomes true on a packet that was cut
(`Misread`). That is the one exception in `TruncationDetected`.

Below the filter is `HashedReader`. Its `data_consume` and `data_consume_hard` take
the cookie with the hash out, and if the reader below fails they return before they
put it back (`parse/hashed_reader.rs:426-429`, `449-452`). `lost` says that this has
happened; `HashedIsBody` says that the hash is right until then.

`do_fill_buffer` keeps what it has read when the next header cannot be parsed, and
returns the error all the same (`parse/partial_body.rs:203-225`, `312-318`), to
`data()` too, whose documentation says that errors are returned only when the
internal buffer is empty (`buffered-reader/src/lib.rs:380`). The code breaks that
promise, so `ImplementsByteStream` uses the contract with `Eager`, which waives it
and nothing else (section 5).

### ByteStream

A content, what has been consumed of it, how much more the caller has been shown,
and whether a failure below is waiting to be reported. `Answer` is any call that
returns data, `Fail` one that does not, `Consume` and `Rewind` the rest. Under the
mapping, `content` is the part of the source within the limit or before the
reserve (`BufferedReader`), or the bytes written (`PartialBody`). An
answer may be short only at the end or before a failure, a call may fail only if
it has to read on or a failure is waiting, and a failed call changes nothing
the caller can see. Unless all of the amount is needed (`data_hard`), a call fails
only when nothing is buffered; the constant `Eager` is for a reader that breaks
this one rule. `Consume` and `Rewind` are calls that return no data
(`Silent`); if they left the reply free, a reader could answer anything and pass
for one that has consumed nothing.

### MessageGrammar, MessageParser, WriterStack, Messages

A wire is a sequence of packets with the depth at which they are found. The
generated LALR parser is modelled by what it accepts: `Productions` and `Shift`
are a deterministic pushdown automaton for the grammar in `message/grammar.lalrpop`,
and an error sticks. `push` and `push_token` translate depths into pops.
`WellFormed` is the reference definition: it works on the tree of packets and
knows neither depths falling nor prefixes.

What is hashed is a sequence of pieces, the head and the body of a packet, so that
two digests are equal only if they are over the same bytes. `frame` has for each
depth the hashing reader whose cookie serves the packets of that depth:
`sig_groups`, `hashing`, `hash_stash` as in the code. `ParseOnePassSig`,
`NotedSignature` with `parse_finish`, `ParseLiteral` and `ParseOther` are the
packets' `parse` functions as far as they touch it. `Malformed`,
`OnePassSignature`, `BareSignature`, `OpenContainer`, `SkipPacket` and
`FoundLiteral` are the loop in `Decryptor::from_cookie_reader`, `Trailing` and
`EndOfMessage` the one in `finish_maybe`.

`WriterStack` builds a stack, writes the body, and finalizes it from the top. A
signer hashes what the writers above write through it until a container is in
between; `BelowLiteral` is the signer that the literal writer takes off the
stack, in order to hash the body without the framing. `Done` keeps a finished
message from being a deadlock.

### StreamVerifier

The body has `length` bytes of which `avail` can be read; byte k is k. `Read` is a
call, `ReadHelper`, `Request` and `Copy` the function `read_helper` up to, between
and after its two requests for data, `FinishMaybe` and `Rest` the function
`finish_maybe`, `VerifySignatures` the call of `check`, and `Drain` the reserve.
Any of these may fail; then the packet parser has been taken out of `oppr` and is
not put back. The build may check arithmetic or not (`OverflowChecks`). The
history variables say whether `check` has approved, how often it was called,
whether a call has failed, and whether a read asked for more than `buffer_size`.

`Data` is `PacketParser::data`, which hands on to the stack of readers. With `Quiet`
it shows nothing when asked for nothing, as `Generic` does (`generic.rs:223`).
`buffer_size` may be 0, which the setters accept (`parse/stream.rs:1144`, `1890`):
then `read_helper` asks for `2 * 0` bytes, gets none and calls `finish_maybe`, which
asks for one, finds that the body goes on, and returns to `read_helper`, for ever.
`CallsReturn` is therefore about sizes above 0; the safety properties are proved for
0 as well.

### Cleartext

The bytes that the code distinguishes, with one symbol for "From ", one for "BEGIN
PGP SIGNATURE" and one for a dash of three octets from elsewhere in Unicode.
`IsMarker` is the reader's test for the end of the text: `DashPrefix` takes dashes
of both kinds, and they must have more than two octets (`armor.rs:1464-1466`,
`1883-1925`). `DashEscapeFilter` escapes ASCII dashes only (`dash_escape.rs:67`), so
a line of a Unicode dash and the marker is not escaped and ends the text
(`EndsEarly`); what the reader makes of the rest of such a text, which it takes for
armor, is not modelled. `update` is `HashingMode::update` of a text
hash with its look-ahead and its `last_was_cr`. `Write` goes through
`TrailingWSFilter`, `Signer::write` and `DashEscapeFilter`, all in one call, as in
the code; `Transform` is the loop of `read_clearsigned_message`; `Consume` feeds
the hash of the reader. Pieces of any size are written and consumed.

### CertMerge

A copy of a certificate is its set of components, the secret of each key, and for
each component (and the list of bad signatures) the set of signatures that are
there. A signature fits at most one component. `insert_packets` serializes the
certificate (with its secrets: `as_tsk()`), appends the packets and parses the
whole: `InsertPackets` is the certificate as the parser sees it again (`Reparsed`: the bad signatures follow the
last component), `InsertSig` and `InsertComponent` are the packets of the call, any
number of them, where a signature ends up on the component it follows, and
`InsertEnd` is `canonicalize`, which moves it. `given` records what a copy was given
and not asked to drop, which is what `OrderIndependent` compares it with. Approvals
by others are the exception: `canonicalize` does not look for their component, so
they may be where they fit, among the bad signatures, or in both places.

### LazySignatures

A signature is its hashed part and the set of binding signatures embedded in its
unhashed area. Methods on `&mut self` need the vector for themselves
(`Exclusive`); `Look` and `Remember` are the two critical sections of
`verify_sig`, between which the signature is verified without the lock.
`HandedOut` says that what an iterator has given out so far is the signatures it is
to give out among those it has passed, all of them and in order.
`SortBy` is a stable sort by any of the given orders, `DedupBy` with `Merged`
merges runs of equal signatures like `sig_merge`, one after the other into the
first. `Collected` is `merge_internal`: what both embed is inserted as long as it
fits into one area of 64 KiB (`signature.rs:2753`), and "all remaining subpackets are
ignored" (`2626-2628`). `Fitting` is the family of sets that fit; the order in which
the code considers them depends on what is authenticated, and the room that other
subpackets take is not modelled, so any maximal choice is possible. `NothingLost` says
that a hashed part is never lost, and that an embedded signature is not lost if
everything embedded in it and its equals fits. `CloneFrom` resets the states
of the copy if `try_lock` fails. `Rejected` is the bounds check at the
width of `usize`, a constant.

### ComponentBundle

A signature is a record of what the answers depend on: creation time, lifetime,
MPIs, whether it verifies, whether the policy accepts it, what is the matter with
its binding signatures. `Add` fills the vectors in any order, `SortAndDedup`
brings them into canonical order (which leaves signatures that compare as equal
in either order), `Query` asks for the binding signature and the
revocation status at a time. `SearchStart` allows every match a binary search may
end at; `WalkBack` goes back to the first.

## 3. The runs

Twelve runs; ten must pass, and two show where the code disagrees with its own
documentation.

| run | question | bounds and why they are enough |
|---|---|---|
| `cache` | Are only valid or restored values trusted (`OnlyTrusted`)? Are locks taken upwards and scoped to the loop (`LockOrder`)? Is the insertions counter exact (`InsertionsExact`)? Is a dump complete and free of duplicates (`DumpExactly`)? Does every restore finish and every verification return (`EverybodyReturns`)? | 1 verifier that verifies again and again, 3 restores, 1 dump, 2 values in 2 buckets, one of them invalid: the first restore sets the list, the other two meet in the buckets. Two verifiers are covered by the theorems |
| `rendezvous` | Is a server left behind only by a failure (`OrphansOnlyByFailure`)? Does a live advertised server stay advertised, hence unique, unless a process failed to reach it (`PublishedStays`)? Is nobody rejected for a wrong cookie (`NobodyRejected`)? Does every call return and every connected client get served (`CallReturns`, `EventuallyServed`)? | 2 clients, one with an external and one with an internal context, 1 bootstrapper, 3 servers; one client and the bootstrapper may crash, 1 server may die, and 1 connection to a live server may fail: anyone starts, dies or loses its server at any point, and the others find what is left |
| `reader` | Do the readers implement the trait (`ImplementsByteStream`)? Does `drop_eof` drop all (`DropEofDropsAll`)? Do errors come after the data and once (`ErrorsInOrder`)? Do loops end (`LoopsEnd`)? | 4 bytes, amounts up to 3, buffers of 2 (read twice and exactly filled), 2 errors, limits and reserves 0, 2 and 5 (none, inside, beyond the end) |
| `partial_body` | Does the reader, on the stream of the writer, implement the trait over what was written (`ImplementsByteStream`)? Is everything in the stream or the buffer and chunked as the format asks (`WellChunked`)? Is a cut packet told from a complete one (`TruncationDetected`), the body hashed and nothing else (`HashedIsBody`)? Do loops end (`LoopsEnd`)? | bodies up to 6 bytes, threshold 2, chunks up to 4: chunks of both sizes, an empty final chunk, boundaries inside calls of up to 4, every cut, final headers of one, two and five octets and every cut inside them |
| `partial_body_limitor` (violation) | the filter "implicitly implements a limitor" (`LimitorHeld`) | 5 bytes and 2 of the next packet |
| `messages` | Is the verdict on a packet sequence that of the grammar (`VerdictExact`)? Is every signature checked against the bytes it encloses (`DigestsRight`) and reported in the right layer (`LayersMatch`)? Does what the writers sign verify (`WrittenVerifies`)? | every flat sequence of up to 4 packets; brackets of 2 and 3 signatures around a message; every container with up to 3 packets inside, nested twice, with a good or bad modification detection code or a packet behind it; SEIPv1 packets with a good or bad code inside each kind of container, as its last packet and between signatures; every stack of up to 3 writers below the literal, signers for 2 keys. 3 algorithms, one not supported. 3 levels of signatures are needed for a notarized notarization |
| `verifier` | Is the end of the message held back until `check` has approved (`HeldBack`)? Is the end reported only for complete and verified messages, and the body in order (`EndIsVerified`)? Is `check` called once (`CheckedOnce`)? No panics (`NoPanic`), and every call returns (`CallsReturn`)? | `buffer_size` 3, bodies up to 11 bytes, reads up to 6: a body with several rounds of giving out and holding back, and reads below, at and above the size of the buffer. With `buffer_size` 0, TLC finds the endless calls if `CallsReturn` is stated without its condition |
| `cleartext` | Is the signature over the normalized text (`SignedIsNormalized`), does it verify (`CleartextVerifies`), and is the body what was signed (`BodyIsText`)? | all texts of up to 5 bytes with one kind of line ending, in all pieces; the longest special string has 2 symbols, with a line ending on both sides; a Unicode dash and the marker, which end the text early, are among them |
| `cleartext_mixed` (violation) | "The data is hashed with line endings normalized" (`HashedIsNormalized`) | 3 bytes, any line endings |
| `cert_merge` | Has the order in which packets arrive no influence (`OrderIndependent`)? Is merging idempotent and commutative, does a public merge leave secrets alone, and does none get lost (`MergeLaws`)? | 2 holders, a user ID, a subkey, an unknown component, 2 signatures (an approval of the user ID by somebody else and a binding of the subkey), 1 secret; any number of packets per call. The state space is complete, there is no bound on the length of a behaviour, and a signature may come before, after or without its component |
| `lazy_signatures` | Is each state that of its signature (`StatesTrue`)? Do the iterators give out exactly the good, or the bad ones (`HandedOut`)? Does merging lose nothing that fits (`NothingLost`)? | 2 embedded signatures of which an area holds one; 2 vectors of up to 2 signatures (and no more than 2 different ones put into a vector over its life), 2 threads, every index of a 2-bit word: two threads in one signature, an exchange of two by sorting, a merge of two |
| `bundle` | Is the binding signature the newest acceptable one (`BindingIsNewest`)? Are hard revocations of keys final (`HardIsFinal`)? Do others hold until they expire or are superseded (`SoftUntilRebound`)? | any 3 of 50 signatures and revocations at 3 times, asked at 5 times: three are needed for a bad signature in front of two from one second |

Where a module's type invariant is not listed by itself, it is a conjunct of one
of the invariants above (`OrphansOnlyByFailure`, `ErrorsInOrder`, `WellChunked`,
`BindingIsNewest`, `EndIsVerified`); those of the cache and of the rendezvous are
also theorems.

Runs with `CHECK_DEADLOCK FALSE` are those of programs that end (the rendezvous
processes terminate, the body has been written and read) or whose threads may
panic. Symmetry is used only in `lazy_signatures` and `cert_merge`, which have no
temporal properties.

### Fairness

`SignatureCache`: each thread that has begun a verification, a restore or a dump
runs on (weak fairness per thread): the operating system schedules threads, and a
lock that is free again is taken at last, since each lock is contended for by
finitely many calls. `Rendezvous`: processes and servers run on, and a client
drops its connection some day; without that the single-threaded server starves
everyone else, which the code accepts. `CallReturns` and `EventuallyServed` say that
from some point on nobody is inside a call and everybody is served, which suffices
as a process makes one call. `BufferedReader`, `PartialBody`,
`StreamVerifier`: a call that has been made is sequential code and runs on. Calls
themselves are never forced to happen, and neither are failures.

## 4. What is proved

Thirty-one theorems in eight modules, for every value of the constants that
satisfies the assumptions the modules name. These are: values of the cache are
natural numbers and buckets are monotone in them, no thread is called `Nobody`;
good signatures are signatures and orders rank with natural numbers; clients and
bootstrappers are different processes, `None` is neither process nor server;
creation times, lifetimes and MPIs are natural numbers; sizes are natural numbers,
a reader's buffer is not empty (the verifier's `buffer_size` may be 0), and twice
the verifier's buffer size can be written in a machine word (`SizeAssumption` of `StreamVerifier`: without it
`2 * buffer_size` in `read_helper` would itself wrap); the partial body limits are
the powers of two that `with_limits()` accepts, and the threshold, which is 4 MiB by
default, is less than 2^24, so that the second octet of a length of five is zero;
sets of embedded signatures that fit an area are closed under subsets, and the empty
one is among them; `Order` lists the components of a
certificate, and neither the primary key nor the list of bad signatures is one of
them. Bounds such as `MaxRead`, `MaxDeaths` or `Length` are natural numbers and
otherwise arbitrary.

The theorems about the partial body reader have a hypothesis: `NoOverrun`, nothing
follows the packet in the stream, or the caller uses only `data()` and
`data_hard()` (and `consume()`). Without it they are false; the run
`partial_body_limitor` shows how `data_consume()` takes bytes of the next packet
(section 5). The theorem about the writer needs no hypothesis.

| theorem | says | inductive invariant |
|---|---|---|
| **`SignatureCacheProofs`** | | |
| `TypeCorrect` | `Spec => []TypeOK` | `TypeOK`; the next item of a restore is in its items by `NextItemLeast` (a non-empty set of naturals has a least element, from the well-foundedness of `<`) |
| `CacheSound` | `Spec => []OnlyTrusted` | `TrustInv` adds that a verifier about to insert holds a valid value, and that what a restore has left was asked for |
| `RestoreLocks` | `Spec => []LockOrder` | `LockInv`: a restore holds the lock of `bucket_i` exactly in its loop, and what is left is not below it. That nobody waits downwards (`WaitsClimb`) follows; it is not inductive by itself |
| `DumpExact` | `Spec => []DumpExactly` | `DumpInv`: values of the clone and of buckets ahead have not been yielded, and what was there at the start is in the clone, ahead and still cached, or yielded. `EntriesGrow` says that nothing is removed from a bucket meanwhile |
| `InsertionsCounted` | `Spec => []InsertionsExact` | `CountInv` adds that the set of values is finite |
| **`LazySignaturesProofs`** | | |
| `StatesBeside`, `LazySound` | `Spec => []TypeOK`, `Spec => []StatesTrue` | `LazyInv`: types with as many states as signatures, the index of a thread that verifies is in its vector, states are true, and what an iterator holds is right |
| `IteratorsExact`, `OnlyVerifiedGivenOut` | `Spec => []HandedOut`; what `iter_verified()` has given out verifies, what `iter_bad()` has does not | `LazyInv`; for `HandedOut`, `LazyInv` with it: a step extends the list of indices that `HandedOut` speaks of, or passes a signature that is not wanted |
| `SignaturesKept` | `Spec => []NothingLost` | `LazyInv` with `Kept`: a vector has what `NothingLost` asks for (`Has`), and its signatures embed only what their equals among the given ones embed (`Within`), so that a merge has to leave nothing out if all of that fits. `MergedKeeps` and `MergedWithin` are about the merge of a run |
| **`RendezvousProofs`** | | |
| `TypeCorrect` | `Spec => []TypeOK`: types, and that whoever works with the open file holds its lock | layers of `IInv`, each kept by every step given those before it: `Types`; `LockInv` |
| `AdvertisedStays` | `Spec => []PublishedStays` | `TargetInv` (what a process works with is a started server and the cookie drawn for it), `FileInv` (so is the file, and the prober's copy is the file), `PublishInv` (a process that is going to overwrite the file knows every advertised server to be dead or has forsaken it, and the lock keeps it so) |
| `NoOrphans` | `Spec => []OrphansOnlyByFailure` | `OrphanInv`: an external server that is alive and not advertised was started by a client that is still on its way to the file, or has failed or crashed |
| `CookiesAgree` | `Spec => []NobodyRejected` | `ConnInv`: every connection in a queue or in hand is to the server whose cookie is sent on it |
| **`StreamVerifierProofs`** | | |
| `HoldsBack`, `EndMeansVerified`, `ChecksOnce`, `NeverPanics` | `Spec => []P` for `P` each of `HeldBack`, `EndIsVerified`, `CheckedOnce`, `NoPanic` | `IInv`: types; where the call is; the caller has got the first `Got` bytes; while there is no reserve, unless nothing was given out yet, `buffer_size` bytes are buffered beyond the cursor (`BodyInv`); the reserve is exactly what is missing, and only read after `check` (`ReserveInv`). `HeldBack` alone is not inductive: it says nothing of what is still buffered |
| **`ComponentBundleProofs`** | | |
| `NewestBinds` | `Spec => []BindingIsNewest` | the three properties together, and that answers are only given by sorted bundles. The lemmas are about the search: `SkippedIsNewer` (what lies before the start of the scan is too new), `SearchIsExact` (the first acceptable signature from there is the newest) |
| `HardRevocations`, `SoftRevocations` | `Spec => []HardIsFinal`, `Spec => []SoftUntilRebound` | the same; `StatusRevoked` says which revocations count |
| **`BufferedReaderProofs`** | | |
| `ErrorsAccounted`, `DropsToTheEnd` | `Spec => []ErrorsInOrder`, `Spec => []DropEofDropsAll` | `IInv`: `Fits` (the buffer is the part of the source that ends where it was read to, and the limit or cursor on top agrees with what was consumed), what was consumed is a prefix of the source, and the accounts of errors balance |
| `ReadersImplementContract` | `Spec => ImplementsByteStream` | `IInv`. Every sequence in the model is a part of the source, so that the argument is about numbers: `Sound(res, ask)` says what the result of each operation of each kind of reader may be, `MoveAbstract` that a sound result is an `Answer` or a `Fail` of the contract |
| **`PartialBodyProofs`** | | |
| `WriterChunksRight` | `Spec => [](WellFramed /\ WriterLosesNothing /\ ChunksNotSmall /\ NoAvoidableChunking)` | `WInv`: bytes 1 to m are in the stream, the next ones in the buffer, those up to `position` in the slice that `write_out` is at (`WriterAt`); each header has as many bytes behind it as it says, then comes the next header, and `base` of a header is the number of bytes before it (`Chunked`); the other two as they are |
| `ChunkingIsRight`, `TruncationIsDetected`, `HashCoversTheBody` | `NoOverrun` implies `Spec => []P` for `P` each of `WellChunked`, `TruncationDetected`, `HashedIsBody` | `WInv` and `RInv`: the stream, cut or not, is chunked as far as it goes (`Opened`); the reader is in the chunk of some header, what it thinks is left of the chunk is, and it has read the first g bytes of the body (`ReaderIn`, `Spot`); the caller has consumed the first l of them, the buffer holds the others, and the hash covers the first g (`Holding`); an empty answer is only given where the body ends or the stream is cut (`EndOK`); an empty last chunk at the end of a stream that was cut (`Stray`) is there only if a header was cut in its middle. None of the three says which bytes the reader's buffer holds, so none is inductive by itself |
| `PartialBodyImplementsByteStream` | `NoOverrun` implies `Spec => ImplementsByteStream` | the same. `ReaderStep` says of each action that it keeps `RInv` and is an `Answer`, `Fail` or `Consume` of the contract, or leaves the abstract stream alone |
| **`CertMergeProofs`** | | |
| `OrderLeavesNoTrace` | `Spec => []OrderIndependent` | `IInv`: every copy has the components and the signatures it was given, none of them on a component that is not there (`Holds`), the call of `insert_packets` follows a component that is there (`CallInv`), and a copy that no packets are being inserted into is a fixed point of `canonicalize` (`Canonical`) |
| `MergingIsLawful` | `Spec => []MergeLaws` | the same; `MergeItself` and `MergeEitherWay` are about all canonical copies |

TLC finds these inductive invariants true on the instance of the component's run
as well, except those of `PartialBody`: TLC cannot search for `base`.

Only model-checked, on the instances above:

* all liveness (`EverybodyReturns`, `CallReturns`, `EventuallyServed`, both
  `LoopsEnd`, `CallsReturn`), because fairness is outside the prover's reach;
* what the folds of `MessageGrammar`, `MessageParser`, `WriterStack` and
  `Cleartext` compute, and hence the properties of `messages` and `cleartext`:
  this needs induction over sequences, which is outside it too.

## 5. Findings

Two runs end in a violation of what the repository says:

* `partial_body_limitor`: `data_consume()` in the last chunk takes bytes of the
  next packet from the reader below.
* `cleartext_mixed`: if one piece of a text ends in a carriage return and the next
  one starts with two line feeds, `HashingMode::update` drops both, because the
  branch that drops the first leaves `last_was_cr` set
  (`parse/hashed_reader.rs:178`; documented at `31`). The unit test feeds whole
  texts and single bytes only.

Seen while modelling, without a run of its own:

* `bootstrap()` unlocks the cookie file before it hands the cookie over, so that a
  client's connection can be consumed as the first one (`ipc/src/lib.rs:327`; the
  comment at `411-415` says otherwise). `EventuallyServed` excepts it.
* After an I/O error behind some data, `data_eof()` returns the data as if the end
  had been reached (`buffered-reader/src/lib.rs:492`; documented at `450`).
* `! i < len` is a bitwise not, and an index just out of bounds panics
  (`lazysigs.rs:250`; documented at `244`). The model has the panic.
* A `Decryptor` that is read with a buffer larger than `buffer_size`, over a reader
  that shows more than was asked for, computes `2 * buffer_size - cursor` below
  zero (`parse/stream.rs:3013`). `NoPanic` excepts it (`large`).
* After a failed read, a `Decryptor` has no packet parser, so `message_processed()`
  is true, and a caller that reads on gets what is in the reserve. `HeldBack` and
  `EndIsVerified` are about callers that stop at the first error.
* A text that ends in a carriage return alone, or mixes one with whitespace, does
  not verify after it was signed in the cleartext framework; the `cleartext` run
  has texts with one kind of line ending.
* A `Signer` on a `Signer` directly below the literal writer: the outer one hashes
  the literal packet's framing, which the parser does not, and the notarization
  does not verify. `WrittenVerifies` excepts it.
* A signature without a one-pass signature gets no computed digest; inside a
  bracket of one-pass signatures it takes the place of one of theirs. A marker
  inside a bracket is hashed. `DigestsRight` is about messages without either.
* A modification detection code is checked, and that it comes last, only when the
  depth falls by exactly one (`parse/stream.rs:2693-2711`). Of a SEIPv1 packet that
  is the last packet of another container, so that the depth falls by two or more
  behind it, a code that does not match is accepted. `VerdictExact` excepts it
  (`Unseen`).
* A process that cannot connect to a live server, for whatever reason, takes it for
  dead and clears or overwrites its entry in the cookie file
  (`ipc/src/lib.rs:181-192`, `310-319`). The server goes on, and nobody finds it any
  more. `PublishedStays` excepts it (`forsaken`).
* A cut inside a chunk header of five octets, with two or more of them there: the
  call fails, but a caller that reads on is told that the packet is complete
  (`parse.rs:1265-1277`). `TruncationDetected` excepts it (`Misread`).
* `HashedReader` loses its cookie, and with it the hash, when a call of
  `data_consume()` or `data_consume_hard()` fails
  (`parse/hashed_reader.rs:426-429`, `449-452`). `HashedIsBody` ends there.
* The partial body reader returns an error although there is data in its buffer
  (`parse/partial_body.rs:203-225`, `312-318`); the trait says that errors are
  returned only when the internal buffer is empty (`buffered-reader/src/lib.rs:380`).
  `Eager` waives it.
* The armor reader takes any Unicode dash before the marker (`armor.rs:1464-1466`,
  `1883-1925`), the writer escapes ASCII dashes only (`dash_escape.rs:67`): a text
  with a line of a Unicode dash and "BEGIN PGP SIGNATURE" is cut there and does not
  verify. `CleartextVerifies` and `BodyIsText` except it (`EndsEarly`).
* With `buffer_size(0)`, which is accepted (`parse/stream.rs:1144`, `1890`),
  `read_helper` and `finish_maybe` call each other until the stack is exhausted.
  `CallsReturn` excepts it.
* Of two different secrets of one subkey the later one is kept; the documentation of
  `sort_and_dedup` says the first (`cert.rs:1359-1362`, and `1374-1399`, where a
  comment says the later).
* `merge_public` and `merge_public_and_secret` do not take over the other
  certificate's unknown components and the signatures that are kept on them.
* Third-party approvals are kept only if they are in place; `canonicalize` does not
  look for their component.
* The `accessed` flag of a cache entry is lost when a second `restore()`
  overwrites the entry, or the dump prefers the copy in the list (`cache.rs:471`,
  `582`; documented at `110-111`).
* After a stale cookie, `connect_with_policy` retries with the policy of the
  context, not the one it was given (`ipc/src/lib.rs:191`; documented at
  `145-146`).
* `IPCPolicy::Robust` falls back only if the process cannot be spawned, not if it
  dies before it is reached (`ipc/src/lib.rs:199`, `ipc/src/core.rs:274-275`).
* `fork()` passes nine arguments, and `Server::context()` asks for seven
  (`ipc/src/lib.rs:235-246`, `355-363`).
* `data(0)` of `Generic` returns nothing although data is buffered
  (`generic.rs:223`; `buffered-reader/src/lib.rs:352` says it equals `buffer()`).
* `eof()` takes an I/O error for the end and drops it
  (`buffered-reader/src/lib.rs:633`).
* A revocation from the same second as the binding counts, although the
  documentation says "newer" (`bundle.rs:711`, `657-658`).

## 6. What is not modelled, and the plan

Not modelled because there is nothing a model checker would tell apart:
cryptographic primitives (a verification is a predicate), packet types and
accessors, generated parsers, file-format parsers, network clients, Autocrypt.
These, with tests and documentation in the same files, are most of the lines of
the repository; the modules cover the parts that have control state.

Left out of modelled parts:

* cache: statistics, and the flags of entries;
* rendezvous: RPC payload, Windows sockets and `Server::context`;
* readers: decompressors and pass-through readers; I/O errors other than the end of
  the input below the partial body reader, and `data(0)` there; a writer that fails
  below the partial body writer and is written to again;
* lazily verified signatures and bundles: `iter_mut_unverified`; certifications
  and approvals; which subpackets are authenticated, and the room that issuers and
  other subpackets take in an area;
* packet parser: the packet bodies, `PacketPile`, maps; signatures that cannot be
  parsed or are of other types, which do not count down `ops_count`;
* decryptor: the search for a session key (it is known), the choice of
  certificates in `verify_signatures`, detached signatures;
* writers: armor, padding, detached signatures, failing writers below;
* armor: the search for a header, base64, the checksum; what follows a line of the
  text that was taken for the marker;
* certificates: signature packets that could not be parsed, which the grammar drops
  when packets are inserted (`cert/parser/low_level/grammar.lalrpop:145-148`);
  which of two different secrets stays (the run has one secret, the theorems any
  number, and neither says which); collisions of digest prefixes, which make the place of a signature
  depend on the order of components; user attributes, which are treated like user
  IDs; the raw parser, the builders, the amalgamations.

The plan, in order of weight:

1. `AEADChunks`: chunk and final tags, truncation; in the style of `PartialBody`,
   implementing `ByteStream`.
2. Policy cutoffs: lists of times per algorithm, their versions and defaults.
