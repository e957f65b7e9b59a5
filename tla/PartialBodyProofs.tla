------------------------- MODULE PartialBodyProofs -------------------------
(***************************************************************************)
(* The properties of PartialBody, for bodies, writes and amounts of any    *)
(* length and all limits that with_limits() accepts.                       *)
(*                                                                         *)
(* All sequences that hold bytes of the body are runs of consecutive ones, *)
(* so once it is known where each begins and ends the argument is about    *)
(* numbers.  The stream is described by the header of every chunk and how  *)
(* many bytes come before it (Chunked, and after the stream was cut        *)
(* Opened), and the reader by the chunk it is in (ReaderIn).               *)
(***************************************************************************)
EXTENDS PartialBody, SequenceTheorems, TLAPS

-----------------------------------------------------------------------------
(* Runs of bytes. *)

Byte(n) == [tag |-> "byte", n |-> n]

LEMMA ByteIs ==
  ASSUME NEW n \in Nat
  PROVE  Byte(n) \in Symbols /\ Byte(n).tag = "byte" /\ Byte(n).n = n
BY DEF Byte, Symbols

(* Bytes(i, j) is byte i to byte j of the body. *)
LEMMA BytesSeq ==
  ASSUME NEW i \in Nat, i > 0, NEW j \in Int, i - 1 <= j
  PROVE  /\ Bytes(i, j) \in Seq(Symbols) /\ Len(Bytes(i, j)) = j - i + 1
         /\ \A k \in 1 .. j - i + 1 : Bytes(i, j)[k] = Byte(i + k - 1)
<1> DEFINE n == j - i + 1
<1>1. n \in Nat
  OBVIOUS
<1>2. Bytes(i, j) = [k \in 1 .. n |-> Byte(i + k - 1)]
  BY DEF Bytes, Byte
<1>3. \A k \in 1 .. n : Byte(i + k - 1) \in Symbols
  <2> SUFFICES ASSUME NEW k \in 1 .. n PROVE Byte(i + k - 1) \in Symbols
    OBVIOUS
  <2> DEFINE x == i + k - 1
  <2>1. x \in Nat
    OBVIOUS
  <2> HIDE DEF x
  <2>2. Byte(x) \in Symbols
    BY <2>1, ByteIs
  <2> QED BY <2>2 DEF x
<1> HIDE DEF n
<1>4. Bytes(i, j) \in Seq(Symbols) /\ Len(Bytes(i, j)) = n
  BY <1>1, <1>2, <1>3, IsASeq
<1>5. \A k \in 1 .. n : Bytes(i, j)[k] = Byte(i + k - 1)
  BY <1>2
<1> QED BY <1>4, <1>5 DEF n

(* A sequence is a run if its elements are. *)
LEMMA BytesAre ==
  ASSUME NEW s \in Seq(Symbols), NEW i \in Nat, i > 0, NEW j \in Int, i - 1 <= j,
         Len(s) = j - i + 1, \A k \in 1 .. j - i + 1 : s[k] = Byte(i + k - 1)
  PROVE  s = Bytes(i, j)
<1> DEFINE t == Bytes(i, j)
<1>1. /\ t \in Seq(Symbols) /\ Len(t) = j - i + 1
      /\ \A k \in 1 .. j - i + 1 : t[k] = Byte(i + k - 1)
  BY BytesSeq
<1> HIDE DEF t
<1>2. Len(s) = Len(t) /\ \A k \in 1 .. Len(s) : s[k] = t[k]
  BY <1>1
<1>3. s = t
  BY <1>1, <1>2, SeqEqual
<1> QED BY <1>3 DEF t

LEMMA BytesNone ==
  ASSUME NEW i \in Nat, i > 0
  PROVE  Bytes(i, i - 1) = <<>>
<1> DEFINE j == i - 1
<1>1. j \in Int /\ i - 1 <= j /\ j - i + 1 = 0
  OBVIOUS
<1> HIDE DEF j
<1>2. Bytes(i, j) \in Seq(Symbols) /\ Len(Bytes(i, j)) = 0
  BY <1>1, BytesSeq
<1> QED BY <1>2, EmptySeq DEF j

(* The empty run, by its place. *)
LEMMA BytesEmpty ==
  ASSUME NEW i \in Nat, i > 0, NEW j \in Int, i - 1 <= j
  PROVE  Bytes(i, j) = <<>> <=> j = i - 1
<1>1. Len(Bytes(i, j)) = j - i + 1
  BY BytesSeq
<1>2. CASE j = i - 1
  BY <1>2, BytesNone
<1>3. CASE j # i - 1
  <2>1. Len(Bytes(i, j)) # 0
    BY <1>1, <1>3
  <2>2. Len(<<>>) = 0
    BY EmptySeq
  <2> QED BY <1>3, <2>1, <2>2
<1> QED BY <1>2, <1>3

(* Take, Drop and concatenation, by length and elements. *)
LEMMA TakeIs ==
  ASSUME NEW s \in Seq(Symbols), NEW n \in Nat
  PROVE  /\ Take(s, n) \in Seq(Symbols) /\ Len(Take(s, n)) = Lesser(n, Len(s))
         /\ \A k \in 1 .. Lesser(n, Len(s)) : Take(s, n)[k] = s[k]
<1> DEFINE l == Lesser(n, Len(s))
           o == 1
           t == SubSeq(s, o, l)
<1>1. l \in Nat /\ l <= Len(s) /\ o \in Int /\ o = 1
  BY LenProperties DEF Lesser
<1>2. Take(s, n) = t
  BY DEF Take
<1>3. \A k \in o .. l : s[k] \in Symbols
  BY <1>1, ElementOfSeq
<1> HIDE DEF l, o
<1>4. t \in Seq(Symbols) /\ Len(t) = l /\ \A k \in 1 .. l : t[k] = s[k]
  <2>1. /\ t \in Seq(Symbols) /\ Len(t) = IF o <= l THEN l - o + 1 ELSE 0
        /\ \A k \in 1 .. l - o + 1 : t[k] = s[o + k - 1]
    BY <1>1, <1>3, SubSeqProperties
  <2>2. Len(t) = l
    BY <1>1, <2>1
  <2>3. \A k \in 1 .. l : k \in 1 .. l - o + 1 /\ o + k - 1 = k
    BY <1>1
  <2> QED BY <2>1, <2>2, <2>3
<1> QED BY <1>2, <1>4 DEF l

LEMMA DropIs ==
  ASSUME NEW s \in Seq(Symbols), NEW n \in Nat, n <= Len(s)
  PROVE  /\ Drop(s, n) \in Seq(Symbols) /\ Len(Drop(s, n)) = Len(s) - n
         /\ \A k \in 1 .. Len(s) - n : Drop(s, n)[k] = s[n + k]
<1> DEFINE l == Len(s)
           o == n + 1
           t == SubSeq(s, o, l)
<1>1. l \in Nat /\ o \in Int /\ o = n + 1 /\ n <= l
  BY LenProperties
<1>2. Drop(s, n) = t
  BY DEF Drop
<1>3. \A k \in o .. l : s[k] \in Symbols
  BY <1>1, ElementOfSeq
<1> HIDE DEF l, o
<1>4. t \in Seq(Symbols) /\ Len(t) = l - n /\ \A k \in 1 .. l - n : t[k] = s[n + k]
  <2>1. /\ t \in Seq(Symbols) /\ Len(t) = IF o <= l THEN l - o + 1 ELSE 0
        /\ \A k \in 1 .. l - o + 1 : t[k] = s[o + k - 1]
    BY <1>1, <1>3, SubSeqProperties
  <2>2. Len(t) = l - n
    BY <1>1, <2>1
  <2>3. \A k \in 1 .. l - n : k \in 1 .. l - o + 1 /\ o + k - 1 = n + k
    BY <1>1
  <2> QED BY <2>1, <2>2, <2>3
<1> QED BY <1>2, <1>4 DEF l

LEMMA ConcatIs ==
  ASSUME NEW s \in Seq(Symbols), NEW t \in Seq(Symbols)
  PROVE  /\ s \o t \in Seq(Symbols) /\ Len(s \o t) = Len(s) + Len(t)
         /\ \A k \in 1 .. Len(s) + Len(t) :
              (s \o t)[k] = IF k <= Len(s) THEN s[k] ELSE t[k - Len(s)]
BY ConcatProperties

(* Runs that meet join, and parts of a run are runs. *)
LEMMA BytesConcat ==
  ASSUME NEW i \in Nat, i > 0, NEW j \in Int, NEW k \in Int, i - 1 <= j, j <= k
  PROVE  Bytes(i, j) \o Bytes(j + 1, k) = Bytes(i, k)
<1> DEFINE j1 == j + 1
           s == Bytes(i, j)
           t == Bytes(j1, k)
           u == s \o t
<1>1. /\ s \in Seq(Symbols) /\ Len(s) = j - i + 1
      /\ \A x \in 1 .. j - i + 1 : s[x] = Byte(i + x - 1)
  BY BytesSeq
<1>2. /\ t \in Seq(Symbols) /\ Len(t) = k - j
      /\ \A x \in 1 .. k - j : t[x] = Byte(j + x)
  <2>1. j1 \in Nat /\ j1 > 0 /\ j1 - 1 <= k /\ j1 = j + 1
    OBVIOUS
  <2> HIDE DEF j1
  <2>2. /\ t \in Seq(Symbols) /\ Len(t) = k - j1 + 1
        /\ \A x \in 1 .. k - j1 + 1 : t[x] = Byte(j1 + x - 1)
    BY <2>1, BytesSeq
  <2>3. k - j1 + 1 = k - j /\ \A x \in Int : j1 + x - 1 = j + x
    BY <2>1
  <2> HIDE DEF t
  <2> QED BY <2>2, <2>3
<1> HIDE DEF s, t
<1>3. /\ u \in Seq(Symbols) /\ Len(u) = Len(s) + Len(t)
      /\ \A x \in 1 .. Len(s) + Len(t) : u[x] = IF x <= Len(s) THEN s[x] ELSE t[x - Len(s)]
  BY <1>1, <1>2, ConcatIs
<1>4. Len(u) = k - i + 1
  BY <1>1, <1>2, <1>3
<1>5. ASSUME NEW x \in 1 .. k - i + 1 PROVE u[x] = Byte(i + x - 1)
  <2>1. x \in 1 .. Len(s) + Len(t)
    BY <1>1, <1>2
  <2>2. CASE x <= Len(s)
    <3>1. u[x] = s[x]
      BY <1>3, <2>1, <2>2
    <3>2. x \in 1 .. j - i + 1
      BY <1>1, <2>2
    <3> QED BY <1>1, <3>1, <3>2
  <2>3. CASE x > Len(s)
    <3>0. Len(s) \in Int /\ ~(x <= Len(s))
      BY <1>1, <2>3
    <3>1. u[x] = t[x - Len(s)]
      BY <1>3, <2>1, <3>0
    <3>2. x - Len(s) \in 1 .. k - j /\ j + (x - Len(s)) = i + x - 1
      BY <1>1, <2>3
    <3> QED BY <1>2, <3>1, <3>2
  <2>4. x <= Len(s) \/ x > Len(s)
    BY <1>1
  <2> QED BY <2>2, <2>3, <2>4
<1>7. u \in Seq(Symbols) /\ i - 1 <= k
  BY <1>3
<1>8. \A x \in 1 .. k - i + 1 : u[x] = Byte(i + x - 1)
  BY <1>5, Zenon
<1> HIDE DEF u
<1>6. u = Bytes(i, k)
  BY <1>4, <1>7, <1>8, BytesAre, Zenon
<1> QED BY <1>6 DEF u, s, t

LEMMA TakeBytes ==
  ASSUME NEW i \in Nat, i > 0, NEW j \in Int, i - 1 <= j, NEW n \in Nat
  PROVE  Take(Bytes(i, j), n) = Bytes(i, i - 1 + Lesser(n, j - i + 1))
<1> DEFINE s == Bytes(i, j)
           t == Take(s, n)
           e == i - 1 + Lesser(n, j - i + 1)
<1>1. /\ s \in Seq(Symbols) /\ Len(s) = j - i + 1
      /\ \A x \in 1 .. j - i + 1 : s[x] = Byte(i + x - 1)
  BY BytesSeq
<1> HIDE DEF s
<1>2. /\ t \in Seq(Symbols) /\ Len(t) = Lesser(n, Len(s))
      /\ \A x \in 1 .. Lesser(n, Len(s)) : t[x] = s[x]
  BY <1>1, TakeIs
<1> HIDE DEF t
<1>3. /\ e \in Int /\ i - 1 <= e /\ e - i + 1 = Lesser(n, Len(s))
      /\ e - i + 1 <= j - i + 1
  BY <1>1 DEF Lesser
<1> HIDE DEF e
<1>4. Len(t) = e - i + 1 /\ \A x \in 1 .. e - i + 1 : t[x] = Byte(i + x - 1)
  <2>1. ASSUME NEW x \in 1 .. e - i + 1 PROVE t[x] = Byte(i + x - 1)
    <3>1. x \in 1 .. j - i + 1
      BY <1>3
    <3> QED BY <1>1, <1>2, <1>3, <3>1
  <2> QED BY <1>2, <1>3, <2>1
<1>5. t = Bytes(i, e)
  BY <1>2, <1>3, <1>4, BytesAre
<1> QED BY <1>5 DEF s, t, e

LEMMA DropBytes ==
  ASSUME NEW i \in Nat, i > 0, NEW j \in Int, i - 1 <= j, NEW n \in Nat, n <= j - i + 1
  PROVE  Drop(Bytes(i, j), n) = Bytes(i + n, j)
<1> DEFINE s == Bytes(i, j)
           t == Drop(s, n)
           a == i + n
<1>1. /\ s \in Seq(Symbols) /\ Len(s) = j - i + 1
      /\ \A x \in 1 .. j - i + 1 : s[x] = Byte(i + x - 1)
  BY BytesSeq
<1> HIDE DEF s
<1>2. /\ t \in Seq(Symbols) /\ Len(t) = Len(s) - n
      /\ \A x \in 1 .. Len(s) - n : t[x] = s[n + x]
  BY <1>1, DropIs
<1> HIDE DEF t
<1>3. a \in Nat /\ a > 0 /\ a - 1 <= j /\ j - a + 1 = Len(s) - n /\ a = i + n
  BY <1>1
<1> HIDE DEF a
<1>4. ASSUME NEW x \in 1 .. j - a + 1 PROVE t[x] = Byte(a + x - 1)
  <2>1. n + x \in 1 .. j - i + 1 /\ i + (n + x) - 1 = a + x - 1
    BY <1>3
  <2>2. t[x] = s[n + x]
    BY <1>2, <1>3
  <2> QED BY <1>1, <2>1, <2>2
<1>5. t = Bytes(a, j)
  BY <1>2, <1>3, <1>4, BytesAre
<1> QED BY <1>5 DEF s, t, a

(* The same, for sequences and places that have names. *)
LEMMA RunIs ==
  ASSUME NEW i \in Nat, i > 0, NEW j \in Int, i - 1 <= j, NEW s, s = Bytes(i, j)
  PROVE  s \in Seq(Symbols) /\ Len(s) = j - i + 1
BY BytesSeq

(* The same with the ends given, which is the form the steps use. *)
LEMMA TakeRun ==
  ASSUME NEW i \in Nat, i > 0, NEW j \in Int, i - 1 <= j, NEW s, s = Bytes(i, j),
         NEW n \in Nat, NEW e \in Int, n <= j - i + 1 => e = i - 1 + n, n >= j - i + 1 => e = j
  PROVE  Take(s, n) = Bytes(i, e) /\ i - 1 <= e /\ e <= j
<1>1. Take(s, n) = Bytes(i, i - 1 + Lesser(n, j - i + 1))
  BY TakeBytes
<1>2. i - 1 + Lesser(n, j - i + 1) = e
  BY DEF Lesser
<1> QED BY <1>1, <1>2

LEMMA DropRun ==
  ASSUME NEW i \in Nat, i > 0, NEW j \in Int, i - 1 <= j, NEW s, s = Bytes(i, j),
         NEW n \in Nat, n <= j - i + 1, NEW e, e = i + n
  PROVE  Drop(s, n) = Bytes(e, j) /\ e \in Nat /\ e > 0 /\ e - 1 <= j
BY DropBytes

LEMMA EmptyRun ==
  ASSUME NEW i \in Nat, i > 0, NEW j, j = i - 1
  PROVE  Bytes(i, j) = <<>>
BY BytesNone

-----------------------------------------------------------------------------
(* Powers of two.  The numbers keep these proofs with the SMT solver. *)

(* The sizes a partial chunk may have; the provers do not compute powers. *)
LEMMA PowerValues ==
  /\ 2 ^ 0 = 1 /\ 2 ^ 1 = 2 /\ 2 ^ 2 = 4 /\ 2 ^ 3 = 8 /\ 2 ^ 4 = 16
  /\ 2 ^ 5 = 32 /\ 2 ^ 6 = 64 /\ 2 ^ 7 = 128 /\ 2 ^ 8 = 256
  /\ 2 ^ 9 = 512 /\ 2 ^ 10 = 1024 /\ 2 ^ 11 = 2048 /\ 2 ^ 12 = 4096
  /\ 2 ^ 13 = 8192 /\ 2 ^ 14 = 16384 /\ 2 ^ 15 = 32768 /\ 2 ^ 16 = 65536
  /\ 2 ^ 17 = 131072 /\ 2 ^ 18 = 262144 /\ 2 ^ 19 = 524288
  /\ 2 ^ 20 = 1048576 /\ 2 ^ 21 = 2097152 /\ 2 ^ 22 = 4194304
  /\ 2 ^ 23 = 8388608 /\ 2 ^ 24 = 16777216 /\ 2 ^ 25 = 33554432
  /\ 2 ^ 26 = 67108864 /\ 2 ^ 27 = 134217728 /\ 2 ^ 28 = 268435456
  /\ 2 ^ 29 = 536870912 /\ 2 ^ 30 = 1073741824
BY SMT

Powers ==
  {1, 2, 4, 8, 16, 32, 64, 128, 256, 512, 1024, 2048, 4096, 8192, 16384,
   32768, 65536, 131072, 262144, 524288, 1048576, 2097152, 4194304,
   8388608, 16777216, 33554432, 67108864, 134217728, 268435456,
   536870912, 1073741824}

LEMMA PowersAre == PowersOfTwo = Powers
<1>1. \A i \in 0 .. 30 : 2 ^ i \in Powers
  <2> DEFINE I == {0, 1, 2, 3, 4, 5, 6, 7, 8, 9, 10, 11, 12, 13, 14, 15, 16,
               17, 18, 19, 20, 21, 22, 23, 24, 25, 26, 27, 28, 29, 30}
             T == {2 ^ 0, 2 ^ 1, 2 ^ 2, 2 ^ 3, 2 ^ 4, 2 ^ 5, 2 ^ 6, 2 ^ 7,
               2 ^ 8, 2 ^ 9, 2 ^ 10, 2 ^ 11, 2 ^ 12, 2 ^ 13, 2 ^ 14,
               2 ^ 15, 2 ^ 16, 2 ^ 17, 2 ^ 18, 2 ^ 19, 2 ^ 20, 2 ^ 21,
               2 ^ 22, 2 ^ 23, 2 ^ 24, 2 ^ 25, 2 ^ 26, 2 ^ 27, 2 ^ 28,
               2 ^ 29, 2 ^ 30}
  <2>1. \A i \in 0 .. 30 : i \in I
    BY SMT
  <2>2. \A i \in I : 2 ^ i \in T
    BY Zenon
  <2>3. T = Powers
    BY SMT DEF Powers
  <2> HIDE DEF I, T
  <2> QED BY <2>1, <2>2, <2>3, Zenon
<1>2. \A i \in 0 .. 30 : 2 ^ i \in PowersOfTwo
  BY Zenon DEF PowersOfTwo
<1>3. Powers \subseteq PowersOfTwo
  BY <1>2, PowerValues, SMT DEF Powers
<1> QED BY <1>1, <1>3, SMT DEF PowersOfTwo

LEMMA PowerTypes ==
  ASSUME NEW a \in PowersOfTwo
  PROVE  a \in Nat /\ a > 0
BY PowersAre, SMT DEF Powers

(* There is no power of two between one and its double. *)
LEMMA PowerGap ==
  ASSUME NEW a \in PowersOfTwo, NEW b \in PowersOfTwo, 2 * a > b
  PROVE  a >= b
BY PowersAre, SMT DEF Powers

(* Between half of v and v lies a power of two, so write_out() always      *)
(* finds one.                                                              *)
LEMMA PowerBelow ==
  ASSUME NEW v \in Nat, v > 0, NEW b \in PowersOfTwo, v <= b
  PROVE  \E c \in PowersOfTwo : c <= v /\ 2 * c > v
<1> SUFFICES ASSUME \A c \in Powers : c <= v => 2 * c <= v PROVE FALSE
  BY PowersAre, PowerTypes, SMT
<1>1. b <= 1073741824
  BY PowersAre, SMT DEF Powers
<1>2. /\ 1 \in Powers /\ 2 \in Powers /\ 4 \in Powers /\ 8 \in Powers
      /\ 16 \in Powers /\ 32 \in Powers /\ 64 \in Powers
      /\ 128 \in Powers /\ 256 \in Powers /\ 512 \in Powers
      /\ 1024 \in Powers /\ 2048 \in Powers /\ 4096 \in Powers
      /\ 8192 \in Powers /\ 16384 \in Powers /\ 32768 \in Powers
      /\ 65536 \in Powers /\ 131072 \in Powers /\ 262144 \in Powers
      /\ 524288 \in Powers /\ 1048576 \in Powers /\ 2097152 \in Powers
      /\ 4194304 \in Powers /\ 8388608 \in Powers /\ 16777216 \in Powers
      /\ 33554432 \in Powers /\ 67108864 \in Powers
      /\ 134217728 \in Powers /\ 268435456 \in Powers
      /\ 536870912 \in Powers /\ 1073741824 \in Powers
  BY SMT DEF Powers
<1> HIDE DEF Powers
<1>3. /\ 1 <= v => 2 <= v
      /\ 2 <= v => 4 <= v
      /\ 4 <= v => 8 <= v
      /\ 8 <= v => 16 <= v
      /\ 16 <= v => 32 <= v
      /\ 32 <= v => 64 <= v
      /\ 64 <= v => 128 <= v
      /\ 128 <= v => 256 <= v
      /\ 256 <= v => 512 <= v
      /\ 512 <= v => 1024 <= v
      /\ 1024 <= v => 2048 <= v
      /\ 2048 <= v => 4096 <= v
      /\ 4096 <= v => 8192 <= v
      /\ 8192 <= v => 16384 <= v
      /\ 16384 <= v => 32768 <= v
      /\ 32768 <= v => 65536 <= v
      /\ 65536 <= v => 131072 <= v
      /\ 131072 <= v => 262144 <= v
      /\ 262144 <= v => 524288 <= v
      /\ 524288 <= v => 1048576 <= v
      /\ 1048576 <= v => 2097152 <= v
      /\ 2097152 <= v => 4194304 <= v
      /\ 4194304 <= v => 8388608 <= v
      /\ 8388608 <= v => 16777216 <= v
      /\ 16777216 <= v => 33554432 <= v
      /\ 33554432 <= v => 67108864 <= v
      /\ 67108864 <= v => 134217728 <= v
      /\ 134217728 <= v => 268435456 <= v
      /\ 268435456 <= v => 536870912 <= v
      /\ 536870912 <= v => 1073741824 <= v
      /\ 1073741824 <= v => 2147483648 <= v
  BY <1>2, SMT
<1> QED BY <1>1, <1>3, PowerTypes, SMT

(* 1 << log2(min(max_chunk_size, n)) is a power of two, at most n, and not *)
(* small if n is not.                                                      *)
LEMMA ChunkSizeIs ==
  ASSUME NEW n \in Nat, n > buffer_threshold
  PROVE  /\ ChunkSize(n) \in PowersOfTwo /\ ChunkSize(n) <= n
         /\ ChunkSize(n) >= Lesser(buffer_threshold, max_chunk_size)
<1> DEFINE v == Lesser(max_chunk_size, n)
           P(c) == c <= v /\ 2 * c > v
           size == CHOOSE c \in PowersOfTwo : P(c)
<1>1. /\ max_chunk_size \in PowersOfTwo /\ buffer_threshold \in PowersOfTwo
      /\ max_chunk_size \in Nat /\ max_chunk_size > 0
      /\ buffer_threshold \in Nat /\ buffer_threshold > 0
  BY LimitsAssumption, PowerTypes
<1>2. v \in Nat /\ v > 0 /\ v <= max_chunk_size /\ v <= n /\ (v = max_chunk_size \/ v = n)
  BY <1>1 DEF Lesser
<1>3. ChunkSize(n) = size
  BY DEF ChunkSize
<1> HIDE DEF v
<1>4. \E c \in PowersOfTwo : P(c)
  BY <1>1, <1>2, PowerBelow
<1>5. size \in PowersOfTwo /\ P(size)
  <2> HIDE DEF P
  <2> QED BY <1>4
<1> HIDE DEF size
<1>6. size \in Nat
  BY <1>5, PowerTypes
<1>7. CASE v = max_chunk_size
  <2>1. size >= max_chunk_size
    BY <1>1, <1>5, <1>7, PowerGap
  <2> QED BY <1>1, <1>2, <1>3, <1>5, <1>6, <2>1 DEF Lesser
<1>8. CASE v = n
  <2>1. 2 * size > buffer_threshold
    BY <1>1, <1>5, <1>6, <1>8
  <2>2. size >= buffer_threshold
    BY <1>1, <1>5, <2>1, PowerGap
  <2> QED BY <1>1, <1>2, <1>3, <1>5, <1>6, <2>2 DEF Lesser
<1> QED BY <1>2, <1>7, <1>8

-----------------------------------------------------------------------------
(* The stream that the writer produces. *)

(* The chunk at i: as many bytes as its header says, numbered on from the  *)
(* base[i] bytes before it; then the stream ends, or the next chunk.       *)
ChunkOK(s, base, m, fin, i) ==
  LET end == i + s[i].n
  IN  /\ end <= Len(s) /\ base[i] + s[i].n <= m
      /\ \A k \in 1 .. s[i].n : s[i + k] = Byte(base[i] + k)
      /\ \/ end = Len(s) /\ base[i] + s[i].n = m
         \/ end + 1 \in Headers(s) /\ base[end + 1] = base[i] + s[i].n
      /\ s[i].tag = "partial" => s[i].n \in PowersOfTwo
      /\ s[i].tag = "full" <=> (fin /\ end = Len(s))

(* A stream of chunks that carries m bytes, with the last chunk if fin. *)
Chunked(s, base, m, fin) ==
  /\ base \in [Headers(s) -> Nat]
  /\ s = <<>> => m = 0 /\ ~fin
  /\ s # <<>> => 1 \in Headers(s) /\ base[1] = 0
  /\ \A i \in Headers(s) : ChunkOK(s, base, m, fin, i)
  /\ \A j \in 1 .. Len(s) : \E i \in Headers(s) : i <= j /\ j <= i + s[i].n

LEMMA SymbolAt ==
  ASSUME NEW s \in Seq(Symbols), NEW i \in 1 .. Len(s)
  PROVE  s[i] \in Symbols /\ s[i].n \in Nat /\ s[i].tag \in {"byte", "partial", "full", "next"}
<1>1. s[i] \in Symbols
  BY ElementOfSeq
<1> QED BY <1>1 DEF Symbols

(* The headers and the bytes of a stream, by their tags. *)
LEMMA HeaderPlaces ==
  ASSUME NEW s \in Seq(Symbols)
  PROVE  /\ Headers(s) = {i \in 1 .. Len(s) : s[i].tag = "partial" \/ s[i].tag = "full"}
         /\ BytesIn(s) = {i \in 1 .. Len(s) : s[i].tag = "byte"}
         /\ Len(s) \in Nat
<1>1. Len(s) \in Nat
  BY LenProperties
<1> QED BY <1>1 DEF Headers, BytesIn, IsHeader

(* t is s with one more header, and the k bytes after byte m. *)
Longer(s, t, tag, k, m) ==
  /\ Len(s) \in Nat /\ Len(t) = Len(s) + 1 + k
  /\ \A i \in 1 .. Len(s) : t[i] = s[i]
  /\ t[Len(s) + 1].tag = tag /\ t[Len(s) + 1].n = k
  /\ \A j \in 1 .. k : t[Len(s) + 1 + j] = Byte(m + j)
  /\ Headers(t) = Headers(s) \union {Len(s) + 1}
  /\ BytesIn(t) = BytesIn(s) \union (Len(s) + 2 .. Len(s) + 1 + k)

(* What a chunk at the end of the stream looks like. *)
LEMMA Appended ==
  ASSUME NEW s \in Seq(Symbols), NEW tag \in {"partial", "full"}, NEW k \in Nat, NEW m \in Nat,
         NEW next, next = s \o <<Header(tag, k)>> \o Bytes(m + 1, m + k)
  PROVE  next \in Seq(Symbols) /\ Longer(s, next, tag, k, m)
<1> DEFINE x == Header(tag, k)
           h == <<x>>
           a == m + 1
           b == m + k
           u == Bytes(a, b)
           p == s \o h
           t == p \o u
           l == Len(s)
<1>1. x \in Symbols /\ x.tag = tag /\ x.n = k
  BY DEF Header, Symbols
<1>2. h \in Seq(Symbols) /\ Len(h) = 1 /\ h[1] = x
  <2> HIDE DEF x
  <2> QED BY <1>1
<1>3. u \in Seq(Symbols) /\ Len(u) = k /\ \A j \in 1 .. k : u[j] = Byte(m + j)
  <2>1. a \in Nat /\ a > 0 /\ b \in Int /\ a - 1 <= b /\ b - a + 1 = k /\ a = m + 1
    OBVIOUS
  <2> HIDE DEF a, b
  <2>2. /\ u \in Seq(Symbols) /\ Len(u) = b - a + 1
        /\ \A j \in 1 .. b - a + 1 : u[j] = Byte(a + j - 1)
    BY <2>1, BytesSeq
  <2> HIDE DEF u
  <2>3. ASSUME NEW j \in 1 .. k PROVE u[j] = Byte(m + j)
    <3>1. j \in 1 .. b - a + 1 /\ a + j - 1 = m + j
      BY <2>1
    <3> QED BY <2>2, <3>1
  <2> QED BY <2>1, <2>2, <2>3
<1>4. l \in Nat
  BY LenProperties
<1> HIDE DEF x, h, u
<1>5. /\ p \in Seq(Symbols) /\ Len(p) = Len(s) + Len(h)
      /\ \A j \in 1 .. Len(s) + Len(h) : p[j] = IF j <= Len(s) THEN s[j] ELSE h[j - Len(s)]
  BY <1>2, ConcatIs
<1>6. Len(p) = l + 1 /\ p[l + 1] = x /\ \A j \in 1 .. l : p[j] = s[j]
  <2>1. Len(p) = l + 1
    BY <1>2, <1>5
  <2>2. p[l + 1] = h[l + 1 - l]
    BY <1>2, <1>4, <1>5
  <2>3. l + 1 - l = 1
    BY <1>4
  <2>4. \A j \in 1 .. l : p[j] = s[j]
    BY <1>2, <1>4, <1>5
  <2> QED BY <1>2, <2>1, <2>2, <2>3, <2>4
<1> HIDE DEF p
<1>7. /\ t \in Seq(Symbols) /\ Len(t) = Len(p) + Len(u)
      /\ \A j \in 1 .. Len(p) + Len(u) : t[j] = IF j <= Len(p) THEN p[j] ELSE u[j - Len(p)]
  BY <1>3, <1>5, ConcatIs
<1> HIDE DEF t, l
<1>8. Len(t) = l + 1 + k
  BY <1>3, <1>6, <1>7
<1>9. \A i \in 1 .. l : t[i] = s[i]
  BY <1>3, <1>4, <1>6, <1>7
<1>10. t[l + 1] = x
  BY <1>3, <1>4, <1>6, <1>7
<1>11. ASSUME NEW j \in 1 .. k PROVE t[l + 1 + j] = Byte(m + j)
  <2> DEFINE q == l + 1 + j
  <2>1. q \in 1 .. Len(p) + Len(u) /\ ~(q <= Len(p)) /\ q - Len(p) = j
    BY <1>3, <1>4, <1>6
  <2> HIDE DEF q
  <2>2. t[q] = u[j]
    BY <1>7, <2>1
  <2> QED BY <1>3, <2>2 DEF q
<1>12. ASSUME NEW i \in 1 .. Len(t)
       PROVE  \/ i \in 1 .. l /\ t[i] = s[i]
              \/ i = l + 1 /\ t[i].tag = tag
              \/ i \in l + 2 .. l + 1 + k /\ t[i].tag = "byte"
  <2>1. CASE i <= l
    BY <1>9, <2>1
  <2>2. CASE i = l + 1
    BY <1>1, <1>10, <2>2
  <2>3. CASE i > l + 1
    <3> DEFINE j == i - (l + 1)
    <3>1. j \in 1 .. k /\ l + 1 + j = i
      BY <1>4, <1>8, <2>3
    <3> HIDE DEF j
    <3>2. t[i] = Byte(m + j)
      BY <1>11, <3>1
    <3>3. t[i].tag = "byte"
      BY <3>2 DEF Byte
    <3> QED BY <1>4, <1>8, <2>3, <3>3
  <2> QED BY <1>4, <2>1, <2>2, <2>3
<1>13. /\ Headers(s) = {i \in 1 .. l : s[i].tag = "partial" \/ s[i].tag = "full"}
       /\ BytesIn(s) = {i \in 1 .. l : s[i].tag = "byte"}
  BY HeaderPlaces DEF l
<1>14. /\ Headers(t) = {i \in 1 .. Len(t) : t[i].tag = "partial" \/ t[i].tag = "full"}
       /\ BytesIn(t) = {i \in 1 .. Len(t) : t[i].tag = "byte"}
  BY <1>7, HeaderPlaces
<1>15. \A i \in 1 .. l : i \in 1 .. Len(t)
  BY <1>4, <1>8
<1>16. l + 1 \in 1 .. Len(t) /\ t[l + 1].tag = tag
  BY <1>1, <1>4, <1>8, <1>10
<1>17. Headers(t) = Headers(s) \union {l + 1}
  <2>1. ASSUME NEW i \in Headers(t) PROVE i \in Headers(s) \union {l + 1}
    BY <1>12, <1>13, <1>14
  <2>2. ASSUME NEW i \in Headers(s) PROVE i \in Headers(t)
    BY <1>9, <1>13, <1>14, <1>15
  <2>3. l + 1 \in Headers(t)
    BY <1>14, <1>16
  <2> QED BY <2>1, <2>2, <2>3
<1>18. BytesIn(t) = BytesIn(s) \union (l + 2 .. l + 1 + k)
  <2>1. ASSUME NEW i \in BytesIn(t) PROVE i \in BytesIn(s) \union (l + 2 .. l + 1 + k)
    BY <1>12, <1>13, <1>14
  <2>2. ASSUME NEW i \in BytesIn(s) PROVE i \in BytesIn(t)
    BY <1>9, <1>13, <1>14, <1>15
  <2>3. ASSUME NEW i \in l + 2 .. l + 1 + k PROVE i \in BytesIn(t)
    <3>1. i \in 1 .. Len(t) /\ ~(i \in 1 .. l) /\ i # l + 1
      BY <1>4, <1>8
    <3>2. t[i].tag = "byte"
      BY <1>12, <3>1
    <3> QED BY <1>14, <3>1, <3>2
  <2> QED BY <2>1, <2>2, <2>3
<1>19. t = next
  BY DEF t, p, h, x, u
<1>20. \A j \in 1 .. k : t[l + 1 + j] = Byte(m + j)
  BY <1>11
<1>21. t[l + 1].tag = tag /\ t[l + 1].n = k
  BY <1>1, <1>10
<1>22. Len(s) = l
  BY DEF l
<1>23. Longer(s, t, tag, k, m)
  BY <1>4, <1>8, <1>9, <1>17, <1>18, <1>20, <1>21, <1>22 DEF Longer
<1> QED BY <1>7, <1>19, <1>23

(* One more chunk on a stream of chunks. *)
LEMMA AppendChunked ==
  ASSUME NEW s \in Seq(Symbols), NEW base, NEW m \in Nat, Chunked(s, base, m, FALSE),
         NEW tag \in {"partial", "full"}, NEW k \in Nat, tag = "partial" => k \in PowersOfTwo,
         NEW t \in Seq(Symbols), Longer(s, t, tag, k, m)
  PROVE  \E new : Chunked(t, new, m + k, tag = "full")
<1> DEFINE l == Len(s)
           new == [i \in Headers(t) |-> IF i = l + 1 THEN m ELSE base[i]]
           fin == tag = "full"
           e == m + k
<1>1. /\ Len(t) = l + 1 + k
      /\ \A i \in 1 .. l : t[i] = s[i]
      /\ t[l + 1].tag = tag /\ t[l + 1].n = k
      /\ \A j \in 1 .. k : t[l + 1 + j] = Byte(m + j)
      /\ Headers(t) = Headers(s) \union {l + 1}
  BY DEF Longer
<1>2. l \in Nat /\ Headers(s) \subseteq 1 .. l /\ \A i \in Headers(s) : i # l + 1
  <2>1. l \in Nat /\ Headers(s) \subseteq 1 .. l
    BY HeaderPlaces
  <2> QED BY <2>1
<1>3. /\ base \in [Headers(s) -> Nat]
      /\ s = <<>> => m = 0
      /\ s # <<>> => 1 \in Headers(s) /\ base[1] = 0
      /\ \A i \in Headers(s) : ChunkOK(s, base, m, FALSE, i)
      /\ \A j \in 1 .. l : \E i \in Headers(s) : i <= j /\ j <= i + s[i].n
  BY DEF Chunked
<1>4. new \in [Headers(t) -> Nat] /\ new[l + 1] = m /\ \A i \in Headers(s) : new[i] = base[i]
  BY <1>1, <1>2, <1>3
<1>5. s = <<>> <=> l = 0
  BY EmptySeq
<1> HIDE DEF l, new
<1>6. t # <<>>
  <2>1. Len(t) # 0
    BY <1>1, <1>2
  <2> QED BY <2>1, EmptySeq
<1>7. 1 \in Headers(t) /\ new[1] = 0
  <2>1. CASE l = 0
    <3>1. l + 1 = 1 /\ m = 0
      BY <1>3, <1>5, <2>1
    <3> QED BY <1>1, <1>4, <3>1
  <2>2. CASE l # 0
    BY <1>1, <1>3, <1>4, <1>5, <2>2
  <2> QED BY <2>1, <2>2
<1>8. ASSUME NEW i \in Headers(s) PROVE ChunkOK(t, new, e, fin, i)
  <2> DEFINE end == i + s[i].n
  <2>1. /\ i \in 1 .. l /\ s[i].n \in Nat /\ t[i] = s[i] /\ base[i] \in Nat /\ new[i] = base[i]
    BY <1>1, <1>2, <1>3, <1>4, SymbolAt DEF l
  <2>2. /\ end <= l /\ base[i] + s[i].n <= m
        /\ \A j \in 1 .. s[i].n : s[i + j] = Byte(base[i] + j)
        /\ \/ end = l /\ base[i] + s[i].n = m
           \/ end + 1 \in Headers(s) /\ base[end + 1] = base[i] + s[i].n
        /\ s[i].tag = "partial" => s[i].n \in PowersOfTwo
        /\ s[i].tag # "full"
    BY <1>3 DEF ChunkOK, l
  <2>3. end \in Int /\ end <= Len(t) /\ end # Len(t) /\ base[i] + s[i].n <= e
    <3> DEFINE c == base[i] + s[i].n
    <3>1. end \in Int /\ end <= l /\ c \in Int /\ c <= m
      BY <1>2, <2>1, <2>2, SMTT(30)
    <3> HIDE DEF end, c
    <3>2. Len(t) = l + 1 + k
      BY <1>1
    <3>3. end <= Len(t) /\ end # Len(t) /\ c <= e
      BY <1>2, <3>1, <3>2
    <3> QED BY <3>1, <3>3 DEF c
  <2>4. ASSUME NEW j \in 1 .. s[i].n PROVE t[i + j] = Byte(base[i] + j)
    <3>1. i + j \in 1 .. l
      BY <1>2, <2>1, <2>2, SMTT(30)
    <3> QED BY <1>1, <2>2, <3>1
  <2>5. end + 1 \in Headers(t) /\ new[end + 1] = base[i] + s[i].n
    <3>1. CASE end = l /\ base[i] + s[i].n = m
      <4>1. end + 1 = l + 1
        BY <3>1
      <4> QED BY <1>1, <1>4, <3>1, <4>1
    <3>2. CASE end + 1 \in Headers(s) /\ base[end + 1] = base[i] + s[i].n
      BY <1>1, <1>4, <3>2
    <3> QED BY <2>2, <3>1, <3>2
  <2> HIDE DEF end
  <2>6. i + t[i].n = end
    BY <2>1 DEF end
  <2> QED BY <2>1, <2>2, <2>3, <2>4, <2>5, <2>6 DEF ChunkOK
<1>9. ChunkOK(t, new, e, fin, l + 1)
  <2> DEFINE i == l + 1
             end == i + k
  <2>1. t[i].n = k /\ t[i].tag = tag /\ new[i] = m /\ end = Len(t) /\ end \in Int /\ e \in Int /\ e = m + k
    BY <1>1, <1>2, <1>4
  <2>2. \A j \in 1 .. k : t[i + j] = Byte(m + j)
    BY <1>1
  <2> HIDE DEF i
  <2>3. i + t[i].n = end
    BY <2>1
  <2> HIDE DEF end, e
  <2>4. ChunkOK(t, new, e, fin, i)
    BY <2>1, <2>2, <2>3 DEF ChunkOK
  <2> QED BY <2>4 DEF i
<1>10. \A i \in Headers(t) : ChunkOK(t, new, e, fin, i)
  <2> HIDE DEF e, fin
  <2> QED BY <1>1, <1>8, <1>9
<1>11. ASSUME NEW j \in 1 .. Len(t)
       PROVE  \E i \in Headers(t) : i <= j /\ j <= i + t[i].n
  <2>1. CASE j <= l
    <3>1. j \in 1 .. l
      BY <1>2, <2>1
    <3>2. PICK i \in Headers(s) : i <= j /\ j <= i + s[i].n
      BY <1>3, <3>1
    <3>3. t[i] = s[i]
      BY <1>1, <1>2
    <3> QED BY <1>1, <3>2, <3>3
  <2>2. CASE j > l
    <3>1. l + 1 <= j /\ j <= l + 1 + t[l + 1].n
      BY <1>1, <1>2, <2>2
    <3> QED BY <1>1, <3>1
  <2> QED BY <1>2, <2>1, <2>2
<1> HIDE DEF e, fin
<1>12. Chunked(t, new, e, fin)
  BY <1>4, <1>6, <1>7, <1>10, <1>11 DEF Chunked
<1> QED BY <1>12 DEF e, fin

(* A chunk with the next bytes keeps the body complete and in order. *)
LEMMA AppendCarries ==
  ASSUME NEW s \in Seq(Symbols), NEW m \in Nat, Carries(s, m),
         NEW tag \in {"partial", "full"}, NEW k \in Nat,
         NEW t \in Seq(Symbols), Longer(s, t, tag, k, m)
  PROVE  Carries(t, m + k)
<1> DEFINE l == Len(s)
<1>1. /\ Len(t) = l + 1 + k
      /\ \A i \in 1 .. l : t[i] = s[i]
      /\ \A j \in 1 .. k : t[l + 1 + j] = Byte(m + j)
      /\ BytesIn(t) = BytesIn(s) \union (l + 2 .. l + 1 + k)
  BY DEF Longer
<1>2. l \in Nat /\ BytesIn(s) \subseteq 1 .. l
  BY HeaderPlaces
<1>3. /\ {s[i].n : i \in BytesIn(s)} = 1 .. m
      /\ \A i, j \in BytesIn(s) : i < j => s[i].n < s[j].n
  BY DEF Carries
<1> HIDE DEF l
<1>4. ASSUME NEW i \in BytesIn(s) PROVE t[i].n = s[i].n /\ s[i].n \in 1 .. m /\ i \in 1 .. l
  BY <1>1, <1>2, <1>3
<1>5. ASSUME NEW i \in l + 2 .. l + 1 + k PROVE t[i].n = m + (i - l - 1)
  <2> DEFINE j == i - l - 1
  <2>1. j \in 1 .. k /\ l + 1 + j = i /\ m + j \in Nat
    BY <1>2
  <2> HIDE DEF j
  <2>2. t[i] = Byte(m + j)
    BY <1>1, <2>1
  <2>3. t[i].n = m + j
    BY <2>2 DEF Byte
  <2> QED BY <2>3 DEF j
<1>6. ASSUME NEW i \in BytesIn(t) PROVE t[i].n \in 1 .. m + k
  <2>1. CASE i \in BytesIn(s)
    BY <1>4, <2>1
  <2>2. CASE i \in l + 2 .. l + 1 + k
    BY <1>2, <1>5, <2>2
  <2> QED BY <1>1, <2>1, <2>2
<1>7. ASSUME NEW x \in 1 .. m + k PROVE \E i \in BytesIn(t) : t[i].n = x
  <2>1. CASE x <= m
    <3>1. x \in 1 .. m
      BY <2>1
    <3>2. PICK i \in BytesIn(s) : s[i].n = x
      BY <1>3, <3>1
    <3> QED BY <1>1, <1>4, <3>2
  <2>2. CASE x > m
    <3> DEFINE i == l + 1 + (x - m)
    <3>1. i \in l + 2 .. l + 1 + k /\ m + (i - l - 1) = x
      BY <1>2, <2>2
    <3> HIDE DEF i
    <3>2. t[i].n = x /\ i \in BytesIn(t)
      BY <1>1, <1>5, <3>1
    <3> QED BY <3>2
  <2> QED BY <2>1, <2>2
<1>8. ASSUME NEW i \in BytesIn(t), NEW j \in BytesIn(t), i < j PROVE t[i].n < t[j].n
  <2>1. CASE i \in BytesIn(s) /\ j \in BytesIn(s)
    BY <1>3, <1>4, <1>8, <2>1
  <2>2. CASE i \in BytesIn(s) /\ j \in l + 2 .. l + 1 + k
    <3>1. t[i].n \in 1 .. m
      BY <1>4, <2>2
    <3>2. t[j].n = m + (j - l - 1)
      BY <1>5, <2>2
    <3> QED BY <1>2, <2>2, <3>1, <3>2
  <2>3. CASE i \in l + 2 .. l + 1 + k /\ j \in BytesIn(s)
    <3>1. j \in 1 .. l
      BY <1>4, <2>3
    <3> QED BY <1>2, <1>8, <2>3, <3>1
  <2>4. CASE i \in l + 2 .. l + 1 + k /\ j \in l + 2 .. l + 1 + k
    <3>1. t[i].n = m + (i - l - 1) /\ t[j].n = m + (j - l - 1)
      BY <1>5, <2>4
    <3> QED BY <1>2, <1>8, <2>4, <3>1
  <2> QED BY <1>1, <2>1, <2>2, <2>3, <2>4
<1>9. {t[i].n : i \in BytesIn(t)} = 1 .. m + k
  BY <1>6, <1>7
<1> QED BY <1>8, <1>9 DEF Carries

-----------------------------------------------------------------------------
(* The writer. *)

Writers == [buffer : Seq(Symbols), other : Seq(Symbols), position : Nat,
            op : {"idle", "write_out", "done"}]

(* The stream has the first m bytes, the buffer the b after them, and the  *)
(* slice the others.                                                       *)
WriterAt(x, m, b) ==
  /\ x.buffer = Bytes(m + 1, m + b)
  /\ x.other = Bytes(m + b + 1, x.position)
  /\ m + b <= x.position /\ x.position <= Length /\ b <= buffer_threshold
  /\ x.op # "write_out" => m + b = x.position
  /\ x.op = "done" => b = 0

Framed(s, m, fin) == Carries(s, m) /\ \E base : Chunked(s, base, m, fin)

(* No partial chunk is small. *)
NoneSmall(s) ==
  \A i \in Headers(s) :
    s[i].tag = "partial" => s[i].n >= Lesser(buffer_threshold, max_chunk_size)

(* A body that fits into the buffer is kept in it to the end. *)
Undivided(s, x) ==
  x.position <= buffer_threshold =>
    /\ x.op # "done" => s = <<>>
    /\ x.op = "done" => Headers(s) = {1} /\ s[1].tag = "full"

WInv ==
  /\ w \in Writers /\ stream \in Seq(Symbols)
  /\ "open" \in DOMAIN r /\ r.open \in BOOLEAN
  /\ \E m, b \in Nat :
       WriterAt(w, m, b) /\ (~r.open => Framed(stream, m, w.op = "done"))
  /\ NoneSmall(stream)
  /\ ~r.open => Undivided(stream, w)
  /\ r.open => w.op = "done"

(* What with_limits() has asserted. *)
LEMMA Limits ==
  /\ buffer_threshold \in Nat /\ max_chunk_size \in Nat
  /\ buffer_threshold > 0 /\ max_chunk_size > 0
  /\ Length \in Nat /\ MaxWrite \in Nat /\ MaxAmount \in Nat /\ Following \in Nat
<1>1. /\ buffer_threshold \in Nat /\ max_chunk_size \in Nat
      /\ buffer_threshold > 0 /\ max_chunk_size > 0
  BY LimitsAssumption, PowerTypes
<1> QED BY <1>1, BoundsAssumption

(* A chunk of the size its header says keeps the stream well framed. *)
LEMMA AppendFramed ==
  ASSUME NEW s \in Seq(Symbols), NEW m \in Nat, Framed(s, m, FALSE),
         NEW tag \in {"partial", "full"}, NEW k \in Nat, tag = "partial" => k \in PowersOfTwo,
         NEW t \in Seq(Symbols), Longer(s, t, tag, k, m)
  PROVE  Framed(t, m + k, tag = "full")
<1>1. PICK base : Chunked(s, base, m, FALSE)
  BY DEF Framed
<1>2. Carries(t, m + k)
  BY AppendCarries DEF Framed
<1>3. \E new : Chunked(t, new, m + k, tag = "full")
  BY <1>1, AppendChunked
<1> QED BY <1>2, <1>3 DEF Framed

(* No chunk below the limits is added. *)
LEMMA AppendNoneSmall ==
  ASSUME NEW s \in Seq(Symbols), NoneSmall(s), NEW m \in Nat,
         NEW tag \in {"partial", "full"}, NEW k \in Nat,
         tag = "partial" => k >= Lesser(buffer_threshold, max_chunk_size),
         NEW t \in Seq(Symbols), Longer(s, t, tag, k, m)
  PROVE  NoneSmall(t)
<1>1. /\ Headers(t) = Headers(s) \union {Len(s) + 1}
      /\ \A i \in 1 .. Len(s) : t[i] = s[i]
      /\ t[Len(s) + 1].tag = tag /\ t[Len(s) + 1].n = k
  BY DEF Longer
<1>2. Headers(s) \subseteq 1 .. Len(s)
  BY HeaderPlaces
<1> QED BY <1>1, <1>2 DEF NoneSmall

LEMMA WriterFields ==
  ASSUME NEW x \in Writers
  PROVE  /\ x.buffer \in Seq(Symbols) /\ x.other \in Seq(Symbols) /\ x.position \in Nat
         /\ x.op \in {"idle", "write_out", "done"}
BY DEF Writers

(* What is in the buffer and in the slice. *)
LEMMA PendingIs ==
  ASSUME NEW x \in Writers, NEW m \in Nat, NEW b \in Nat, WriterAt(x, m, b)
  PROVE  /\ Len(x.buffer) = b /\ Len(x.other) = x.position - m - b
         /\ x.buffer \o x.other = Bytes(m + 1, x.position)
         /\ x.op # "write_out" => x.other = <<>>
<1> DEFINE i == m + 1
           j == m + b
           p == x.position
<1>1. i \in Nat /\ i > 0 /\ j \in Int /\ p \in Int /\ i - 1 <= j /\ j <= p /\ j - i + 1 = b
      /\ j + 1 \in Nat /\ j + 1 > 0 /\ (j + 1) - 1 <= p /\ p - (j + 1) + 1 = p - m - b
  BY WriterFields DEF WriterAt
<1>2. x.buffer = Bytes(i, j) /\ x.other = Bytes(j + 1, p) /\ (x.op # "write_out" => j = p)
  BY DEF WriterAt
<1> HIDE DEF i, j, p
<1>3. Len(x.buffer) = b
  BY <1>1, <1>2, BytesSeq
<1>4. Len(x.other) = p - m - b
  BY <1>1, <1>2, BytesSeq
<1>5. x.buffer \o x.other = Bytes(i, p)
  BY <1>1, <1>2, BytesConcat
<1>6. x.op # "write_out" => x.other = <<>>
  <2>1. p = (j + 1) - 1 => Bytes(j + 1, p) = <<>>
    BY <1>1, BytesEmpty
  <2>2. x.op # "write_out" => p = (j + 1) - 1
    BY <1>1, <1>2
  <2> QED BY <1>2, <2>1, <2>2
<1> QED BY <1>3, <1>4, <1>5, <1>6 DEF i, p

LEMMA WriterInit == Init => WInv
<1> SUFFICES ASSUME Init PROVE WInv
  OBVIOUS
<1> DEFINE z == 0
<1>1. /\ w.buffer = <<>> /\ w.other = <<>> /\ w.position = 0 /\ w.op = "idle" /\ w \in Writers
      /\ stream = <<>> /\ stream \in Seq(Symbols)
      /\ "open" \in DOMAIN r /\ r.open = FALSE
  BY EmptySeq DEF Init, Writers
<1>2. z \in Nat /\ z = 0
  OBVIOUS
<1> HIDE DEF z
<1>3. Bytes(z + 1, z + z) = <<>> /\ Bytes(z + z + 1, z) = <<>>
  <2> DEFINE a == z + 1
  <2>1. a \in Nat /\ a > 0 /\ a - 1 = z /\ z + z = z /\ z + z + 1 = a
    BY <1>2
  <2> HIDE DEF a
  <2>2. Bytes(a, a - 1) = <<>>
    BY <2>1, BytesNone
  <2> QED BY <2>1, <2>2 DEF a
<1>4. WriterAt(w, z, z)
  BY <1>1, <1>2, <1>3, Limits DEF WriterAt
<1>5. Headers(stream) = {} /\ BytesIn(stream) = {} /\ Len(stream) = 0
  <2>1. Len(stream) = 0
    BY <1>1, EmptySeq
  <2> QED BY <2>1 DEF Headers, BytesIn
<1>6. Carries(stream, z)
  BY <1>2, <1>5 DEF Carries
<1>7. \E base : Chunked(stream, base, z, FALSE)
  <2> DEFINE base == [i \in {} |-> 0]
  <2>1. base \in [Headers(stream) -> Nat]
    BY <1>5
  <2> HIDE DEF base
  <2>2. /\ stream = <<>> => z = 0
        /\ ~(stream # <<>>)
        /\ \A i \in Headers(stream) : ChunkOK(stream, base, z, FALSE, i)
    BY <1>1, <1>2, <1>5
  <2>3. \A j \in 1 .. Len(stream) : \E i \in Headers(stream) : i <= j /\ j <= i + stream[i].n
    BY <1>5
  <2>4. Chunked(stream, base, z, FALSE)
    BY <2>1, <2>2, <2>3 DEF Chunked
  <2> QED BY <2>4
<1>8. Framed(stream, z, w.op = "done")
  <2> DEFINE fin == w.op = "done"
  <2>1. fin = FALSE
    BY <1>1
  <2> HIDE DEF fin
  <2>2. Framed(stream, z, FALSE)
    BY <1>6, <1>7 DEF Framed
  <2>3. Framed(stream, z, fin)
    BY <2>1, <2>2
  <2> QED BY <2>3 DEF fin
<1>9. NoneSmall(stream)
  BY <1>5 DEF NoneSmall
<1>10. Undivided(stream, w)
  BY <1>1 DEF Undivided
<1> QED BY <1>1, <1>2, <1>4, <1>8, <1>9, <1>10 DEF WInv

(* A step of the writer keeps WInv if it keeps its parts. *)
LEMMA WriterKeeps ==
  ASSUME WInv, w.op # "done", r' = r,
         NEW x \in Writers, w' = x, NEW s \in Seq(Symbols), stream' = s,
         NEW m \in Nat, NEW b \in Nat,
         WriterAt(x, m, b), Framed(s, m, x.op = "done"), NoneSmall(s), Undivided(s, x)
  PROVE  WInv'
<1>1. r.open = FALSE /\ "open" \in DOMAIN r
  BY DEF WInv
<1>2. \E i, j \in Nat : WriterAt(x, i, j) /\ Framed(s, i, x.op = "done")
  OBVIOUS
<1> QED BY <1>1, <1>2 DEF WInv

(* An operation on a writer that is not done. *)
LEMMA WriterBefore ==
  ASSUME WInv, w.op # "done"
  PROVE  \E m, b \in Nat :
           /\ w \in Writers /\ stream \in Seq(Symbols)
           /\ WriterAt(w, m, b) /\ Framed(stream, m, FALSE)
           /\ NoneSmall(stream) /\ Undivided(stream, w)
<1>1. r.open = FALSE
  BY DEF WInv
<1>2. PICK m, b \in Nat : WriterAt(w, m, b) /\ Framed(stream, m, w.op = "done")
  BY <1>1 DEF WInv
<1> DEFINE fin == w.op = "done"
<1>3. fin = FALSE /\ Framed(stream, m, fin)
  BY <1>2
<1> HIDE DEF fin
<1>4. Framed(stream, m, FALSE)
  BY <1>3
<1> QED BY <1>1, <1>2, <1>4 DEF WInv

(* The stream stays as it is. *)
LEMMA WriterSame ==
  ASSUME WInv, w.op # "done", r' = r, stream' = stream,
         NEW m \in Nat, NEW b \in Nat, Framed(stream, m, FALSE),
         NEW x \in Writers, w' = x, x.op # "done", x.position >= w.position, WriterAt(x, m, b)
  PROVE  WInv'
<1>1. stream \in Seq(Symbols) /\ NoneSmall(stream) /\ Undivided(stream, w) /\ w \in Writers
  BY WriterBefore
<1>2. Undivided(stream, x)
  <2>1. w.position \in Nat /\ x.position \in Nat
    BY <1>1, WriterFields
  <2> QED BY <1>1, <2>1, Limits DEF Undivided
<1> DEFINE fin == x.op = "done"
<1>3. fin = FALSE
  OBVIOUS
<1> HIDE DEF fin
<1>4. Framed(stream, m, fin)
  BY <1>3
<1>5. Framed(stream, m, x.op = "done")
  BY <1>4 DEF fin
<1> DEFINE s == stream
<1> HIDE DEF s
<1>6. stream' = s /\ s \in Seq(Symbols) /\ Framed(s, m, x.op = "done") /\ NoneSmall(s) /\ Undivided(s, x)
  BY <1>1, <1>2, <1>5 DEF s
<1> QED BY <1>6, WriterKeeps

(* write() with a slice that fits into the buffer, or that write_out()     *)
(* gets.                                                                   *)
LEMMA WriteStep ==
  ASSUME WInv, NEW n \in Nat, Write(n)
  PROVE  WInv'
<1> DEFINE buf == Bytes(w.position + 1, w.position + n)
           x == w'
           p == w.position
           q == p + n
<1>1. w.op = "idle" /\ q <= Length /\ r' = r /\ stream' = stream
  BY DEF Write, WriterOnly
<1>2. PICK m, b \in Nat : WriterAt(w, m, b) /\ Framed(stream, m, FALSE) /\ w \in Writers
  BY <1>1, WriterBefore
<1>3. /\ p \in Nat /\ q \in Nat /\ m + b = p /\ p <= q /\ w.buffer = Bytes(m + 1, p)
      /\ w.buffer \in Seq(Symbols) /\ Len(w.buffer) = b /\ w.other = <<>> /\ b <= buffer_threshold
  <2>1. Len(w.buffer) = b /\ w.other = <<>>
    BY <1>1, <1>2, PendingIs
  <2>2. p \in Nat /\ w.buffer \in Seq(Symbols)
    BY <1>2, WriterFields
  <2>3. m + b = p /\ w.buffer = Bytes(m + 1, m + b) /\ b <= buffer_threshold
    BY <1>1, <1>2 DEF WriterAt
  <2>4. w.buffer = Bytes(m + 1, p)
    BY <2>3
  <2> QED BY <2>1, <2>2, <2>3, <2>4
<1>4. buf \in Seq(Symbols) /\ Len(buf) = n
  <2> DEFINE i == p + 1
  <2>1. i \in Nat /\ i > 0 /\ q \in Int /\ i - 1 <= q /\ q - i + 1 = n
    <3>1. p \in Nat
      BY <1>3
    <3> HIDE DEF p
    <3> QED BY <3>1
  <2> HIDE DEF i, p, q
  <2>2. Bytes(i, q) \in Seq(Symbols) /\ Len(Bytes(i, q)) = n
    BY <2>1, BytesSeq
  <2> QED BY <2>2 DEF i, p, q
<1>5. CASE n >= buffer_threshold - Len(w.buffer)
  <2>1. x = [w EXCEPT !.other = buf, !.op = "write_out", !.position = @ + n]
    BY <1>5 DEF Write
  <2>2. /\ x \in Writers /\ x.buffer = w.buffer /\ x.other = buf /\ x.op = "write_out"
        /\ x.position = q
    <3> HIDE DEF buf
    <3> QED BY <1>2, <1>3, <1>4, <2>1 DEF Writers
  <2>3. m + b + 1 = p + 1
    BY <1>3
  <2>4. WriterAt(x, m, b)
    BY <1>1, <1>2, <1>3, <2>2, <2>3 DEF WriterAt
  <2>5. x.op # "done" /\ x.position >= w.position /\ w.op # "done"
    BY <1>1, <1>3, <2>2
  <2> HIDE DEF x
  <2>6. w' = x
    BY DEF x
  <2> QED BY <1>1, <1>2, <2>2, <2>4, <2>5, <2>6, WriterSame
<1>6. CASE ~(n >= buffer_threshold - Len(w.buffer))
  <2>1. x = [w EXCEPT !.buffer = @ \o buf, !.position = @ + n]
    BY <1>6 DEF Write
  <2> DEFINE c == b + n
             new == w.buffer \o buf
  <2>2. c \in Nat /\ m + c = q /\ c <= buffer_threshold
    BY <1>3, <1>6, Limits
  <2>3. new = Bytes(m + 1, q)
    <3> DEFINE i == m + 1
    <3>1. i \in Nat /\ i > 0 /\ p \in Int /\ q \in Int /\ i - 1 <= p /\ p <= q
      BY <1>3
    <3> HIDE DEF i, p, q
    <3>2. Bytes(i, p) \o Bytes(p + 1, q) = Bytes(i, q)
      BY <3>1, BytesConcat
    <3> QED BY <1>3, <3>2 DEF i, p, q
  <2>4. new \in Seq(Symbols)
    BY <1>3, <1>4, ConcatIs
  <2>5. /\ x \in Writers /\ x.buffer = new /\ x.other = <<>> /\ x.op = "idle"
        /\ x.position = q
    <3> HIDE DEF new
    <3>1. x = [w EXCEPT !.buffer = new, !.position = q]
      BY <2>1 DEF new
    <3> QED BY <1>1, <1>2, <1>3, <2>4, <3>1 DEF Writers
  <2>6. Bytes(q + 1, q) = <<>>
    <3> DEFINE i == q + 1
    <3>1. i \in Nat /\ i > 0 /\ i - 1 = q
      BY <1>3
    <3> HIDE DEF i, q
    <3> QED BY <3>1, BytesNone DEF i
  <2> HIDE DEF c
  <2>7. WriterAt(x, m, c)
    <3> HIDE DEF x, q, new
    <3>1. x.buffer = Bytes(m + 1, m + c) /\ x.other = Bytes(m + c + 1, x.position)
      BY <2>2, <2>3, <2>5, <2>6
    <3>2. /\ m + c <= x.position /\ x.position <= Length /\ c <= buffer_threshold
          /\ m + c = x.position /\ x.op # "done"
      BY <1>1, <1>3, <2>2, <2>5
    <3> QED BY <3>1, <3>2 DEF WriterAt
  <2>8. x.op # "done" /\ x.position >= w.position /\ w.op # "done"
    BY <1>1, <1>3, <2>5
  <2> HIDE DEF x
  <2>9. w' = x
    BY DEF x
  <2> QED BY <1>1, <1>2, <2>2, <2>5, <2>7, <2>8, <2>9, WriterSame
<1> QED BY <1>5, <1>6

(* flush(), which begins write_out() with an empty slice. *)
LEMMA FlushStep ==
  ASSUME WInv, Flush
  PROVE  WInv'
<1> DEFINE x == w'
<1>1. w.op = "idle" /\ r' = r /\ stream' = stream /\ x = [w EXCEPT !.other = <<>>, !.op = "write_out"]
  BY DEF Flush, WriterOnly
<1>2. PICK m, b \in Nat : WriterAt(w, m, b) /\ Framed(stream, m, FALSE) /\ w \in Writers
  BY <1>1, WriterBefore
<1>3. w.other = <<>>
  BY <1>1, <1>2, PendingIs
<1>4. /\ x \in Writers /\ x.buffer = w.buffer /\ x.other = w.other /\ x.op = "write_out"
      /\ x.position = w.position /\ w.position \in Nat
  BY <1>1, <1>2, <1>3 DEF Writers
<1>5. WriterAt(x, m, b)
  BY <1>2, <1>4 DEF WriterAt
<1>6. x.op # "done" /\ x.position >= w.position /\ w.op # "done"
  BY <1>1, <1>4
<1> HIDE DEF x
<1>7. w' = x
  BY DEF x
<1> QED BY <1>1, <1>2, <1>4, <1>5, <1>6, <1>7, WriterSame

(* What is left at the end of write_out() goes into the buffer. *)
LEMMA WriteOutEndStep ==
  ASSUME WInv, WriteOutEnd
  PROVE  WInv'
<1> DEFINE x == w'
           p == w.position
           new == w.buffer \o w.other
<1>1. /\ w.op = "write_out" /\ r' = r /\ stream' = stream /\ Pending <= buffer_threshold
      /\ x = [w EXCEPT !.buffer = new, !.other = <<>>, !.op = "idle"]
  BY DEF WriteOutEnd, WriterOnly
<1>2. PICK m, b \in Nat : WriterAt(w, m, b) /\ Framed(stream, m, FALSE) /\ w \in Writers
  BY <1>1, WriterBefore
<1>3. /\ Len(w.buffer) = b /\ Len(w.other) = p - m - b /\ new = Bytes(m + 1, p)
      /\ p \in Nat /\ w.buffer \in Seq(Symbols) /\ w.other \in Seq(Symbols)
  BY <1>2, PendingIs, WriterFields
<1> DEFINE c == p - m
<1>4. c \in Nat /\ m + c = p /\ c <= buffer_threshold /\ p <= Length
  <2>1. m + b <= p /\ p <= Length
    BY <1>2 DEF WriterAt
  <2>2. b + (p - m - b) <= buffer_threshold
    BY <1>1, <1>3 DEF Pending
  <2>3. p \in Nat
    BY <1>3
  <2> HIDE DEF p
  <2> QED BY <2>1, <2>2, <2>3, Limits
<1>5. new \in Seq(Symbols) /\ <<>> \in Seq(Symbols)
  BY <1>3, ConcatIs, EmptySeq
<1>6. /\ x \in Writers /\ x.buffer = new /\ x.other = <<>> /\ x.op = "idle"
      /\ x.position = p
  <2> HIDE DEF new
  <2> QED BY <1>1, <1>2, <1>5 DEF Writers
<1>7. Bytes(p + 1, p) = <<>>
  <2> DEFINE i == p + 1
  <2>1. i \in Nat /\ i > 0 /\ i - 1 = p
    BY <1>3
  <2> HIDE DEF i, p
  <2> QED BY <2>1, BytesNone DEF i
<1> HIDE DEF c
<1>8. WriterAt(x, m, c)
  <2> HIDE DEF x, p
  <2> QED BY <1>3, <1>4, <1>6, <1>7 DEF WriterAt
<1>9. x.op # "done" /\ x.position >= w.position /\ w.op # "done"
  BY <1>1, <1>3, <1>6
<1> HIDE DEF x
<1>10. w' = x
  BY DEF x
<1> QED BY <1>1, <1>2, <1>4, <1>6, <1>8, <1>9, <1>10, WriterSame

(* A chunk takes the first bytes of the buffer, and then of the slice. *)
Parts(m, b, p, size, buf, other, l, d) ==
  /\ Take(buf, l) \o Take(other, d) = Bytes(m + 1, m + size)
  /\ Drop(buf, l) = Bytes(m + size + 1, m + size + (b - l))
  /\ Drop(other, d) = Bytes(m + size + (b - l) + 1, p)
  /\ l \in Nat /\ l <= b /\ l <= size
  /\ Take(buf, l) \in Seq(Symbols) /\ Take(other, d) \in Seq(Symbols)
  /\ Drop(buf, l) \in Seq(Symbols) /\ Drop(other, d) \in Seq(Symbols)

(* A chunk takes from the buffer first and from the slice then. *)
LEMMA ChunkParts ==
  ASSUME NEW m \in Nat, NEW b \in Nat, NEW p \in Nat, NEW size \in Nat, m + b <= p, m + size <= p,
         NEW buf, buf = Bytes(m + 1, m + b), NEW other, other = Bytes(m + b + 1, p),
         NEW l, l = Lesser(b, size), NEW d, d = size - l
  PROVE  Parts(m, b, p, size, buf, other, l, d)
<1> DEFINE i == m + 1
           j == m + b
           k == j + 1
           e == m + size
           x == m + l
           y == k - 1 + d
           i1 == i + l
           k1 == k + d
           c == e + (b - l)
<1>1. /\ l \in Nat /\ l <= b /\ l <= size /\ (l = b \/ l = size)
      /\ d \in Nat /\ d <= p - k + 1
      /\ i \in Nat /\ i > 0 /\ j \in Int /\ k \in Nat /\ k > 0 /\ e \in Int /\ p \in Int
      /\ i - 1 <= j /\ j - i + 1 = b /\ k - 1 <= p /\ i - 1 <= e
      /\ x \in Int /\ x = i - 1 + l /\ l <= j - i + 1
      /\ y \in Int /\ y = k - 1 + d /\ i1 = i + l /\ k1 = k + d
      /\ k1 = c + 1
  BY DEF Lesser
<1>2. buf = Bytes(i, j) /\ other = Bytes(k, p)
  OBVIOUS
<1>3. l <= j - i + 1 => x = i - 1 + l /\ (l >= j - i + 1 => x = j)
  BY <1>1
<1>4. d <= p - k + 1 => y = k - 1 + d /\ (d >= p - k + 1 => y = p)
  BY <1>1
<1>5. \/ l = b /\ x = j /\ k = x + 1 /\ x <= e /\ y = e /\ i1 = j + 1 /\ c = e
      \/ l = size /\ x = e /\ y = k - 1 /\ c = j /\ i1 = e + 1
  BY <1>1
<1> HIDE DEF i, j, k, e, x, y, i1, k1, c
<1>6. Take(buf, l) = Bytes(i, x) /\ i - 1 <= x
  BY <1>1, <1>2, <1>3, TakeRun, SMTT(30)
<1>7. Take(other, d) = Bytes(k, y)
  BY <1>1, <1>2, <1>4, TakeRun
<1>8. Drop(buf, l) = Bytes(i1, j) /\ i1 \in Nat /\ i1 > 0
  BY <1>1, <1>2, DropRun
<1>9. Drop(other, d) = Bytes(k1, p)
  BY <1>1, <1>2, DropRun
<1>24. i \in Nat /\ i > 0 /\ j \in Int /\ i - 1 <= j
  BY <1>1
<1>25. k \in Nat /\ k > 0 /\ p \in Int /\ k - 1 <= p
  BY <1>1
<1>16. buf \in Seq(Symbols) /\ Len(buf) = j - i + 1
  BY <1>2, <1>24, RunIs, Zenon
<1>17. other \in Seq(Symbols) /\ Len(other) = p - k + 1
  BY <1>2, <1>25, RunIs, Zenon
<1>18. Take(buf, l) \in Seq(Symbols) /\ Take(other, d) \in Seq(Symbols)
  BY <1>1, <1>16, <1>17, TakeIs
<1>19. Drop(buf, l) \in Seq(Symbols) /\ Drop(other, d) \in Seq(Symbols)
  BY <1>1, <1>16, <1>17, DropIs
<1>10. Take(buf, l) \o Take(other, d) = Bytes(i, e)
  <2>1. CASE l = b /\ x = j /\ k = x + 1 /\ x <= e /\ y = e
    <3> DEFINE s1 == Take(buf, l)
               s2 == Take(other, d)
    <3>1. s1 = Bytes(i, x) /\ s2 = Bytes(k, e) /\ k = x + 1
      BY <1>6, <1>7, <2>1
    <3>2. i \in Nat /\ i > 0 /\ x \in Int /\ e \in Int /\ i - 1 <= x /\ x <= e
      BY <1>1, <1>6, <2>1
    <3> HIDE DEF s1, s2
    <3>3. Bytes(i, x) \o Bytes(x + 1, e) = Bytes(i, e)
      BY <3>2, BytesConcat
    <3>4. s1 \o s2 = Bytes(i, e)
      BY <3>1, <3>3
    <3> QED BY <3>4 DEF s1, s2
  <2>2. CASE x = e /\ y = k - 1
    <3>1. Take(other, d) = <<>>
      BY <1>1, <1>7, <2>2, EmptyRun
    <3> QED BY <1>6, <1>18, <2>2, <3>1, ConcatEmptySeq
  <2> QED BY <1>5, <2>1, <2>2
<1> DEFINE e1 == e + 1
<1>11. e1 \in Nat /\ e1 > 0 /\ e = e1 - 1 /\ e1 = e + 1
  BY <1>1
<1> HIDE DEF e1
<1>12. Drop(buf, l) = Bytes(e1, c)
  <2>1. CASE i1 = j + 1 /\ c = e
    <3>1. j = i1 - 1 /\ c = e1 - 1
      BY <1>1, <1>11, <2>1
    <3>2. Bytes(i1, j) = <<>>
      BY <1>8, <3>1, EmptyRun
    <3>3. Bytes(e1, c) = <<>>
      BY <1>11, <3>1, EmptyRun
    <3> QED BY <1>8, <3>2, <3>3
  <2>2. CASE c = j /\ i1 = e + 1
    BY <1>8, <1>11, <2>2
  <2> QED BY <1>5, <2>1, <2>2
<1>13. Drop(buf, l) = Bytes(m + size + 1, m + size + (b - l))
  BY <1>12 DEF e1, e, c
<1>14. Drop(other, d) = Bytes(m + size + (b - l) + 1, p)
  BY <1>1, <1>9 DEF c, e
<1>15. Take(buf, l) \o Take(other, d) = Bytes(m + 1, m + size)
  BY <1>10 DEF i, e
<1> QED BY <1>1, <1>13, <1>14, <1>15, <1>18, <1>19 DEF Parts

(* One round of write_out(). *)
LEMMA WriteOutChunkStep ==
  ASSUME WInv, WriteOutChunk
  PROVE  WInv'
<1> DEFINE x == w'
           t == stream'
           p == w.position
           size == ChunkSize(Pending)
           l == Lesser(Len(w.buffer), size)
           d == size - l
           h == Header("partial", size)
<1>1. /\ w.op = "write_out" /\ r' = r /\ Pending > buffer_threshold
      /\ t = stream \o <<h>> \o Take(w.buffer, l) \o Take(w.other, d)
      /\ x = [w EXCEPT !.buffer = Drop(w.buffer, l), !.other = Drop(w.other, d)]
  BY DEF WriteOutChunk, WriterOnly
<1>2. PICK m, b \in Nat : /\ WriterAt(w, m, b) /\ Framed(stream, m, FALSE) /\ w \in Writers
                          /\ stream \in Seq(Symbols) /\ NoneSmall(stream)
  BY <1>1, WriterBefore
<1>3. /\ Len(w.buffer) = b /\ Len(w.other) = p - m - b
      /\ p \in Nat /\ w.buffer \in Seq(Symbols) /\ w.other \in Seq(Symbols)
  BY <1>2, PendingIs, WriterFields
<1>4. /\ m + b <= p /\ p <= Length /\ b <= buffer_threshold
      /\ w.buffer = Bytes(m + 1, m + b) /\ w.other = Bytes(m + b + 1, p)
  BY <1>2 DEF WriterAt
<1> HIDE DEF p, x, t
<1>5. Pending = p - m /\ Pending \in Nat
  BY <1>3, <1>4 DEF Pending
<1>6. /\ size \in PowersOfTwo /\ size <= Pending
      /\ size >= Lesser(buffer_threshold, max_chunk_size)
  BY <1>1, <1>5, ChunkSizeIs
<1>7. size \in Nat
  BY <1>6, PowerTypes
<1> HIDE DEF size
<1>8. m + size <= p /\ l = Lesser(b, size) /\ d = size - l
  BY <1>3, <1>5, <1>6, <1>7
<1> DEFINE ta == Take(w.buffer, l)
           tb == Take(w.other, d)
           da == Drop(w.buffer, l)
           db == Drop(w.other, d)
<1> HIDE DEF l, d
<1>9. /\ ta \o tb = Bytes(m + 1, m + size)
      /\ da = Bytes(m + size + 1, m + size + (b - l))
      /\ db = Bytes(m + size + (b - l) + 1, p)
      /\ l \in Nat /\ l <= b /\ l <= size /\ ta \in Seq(Symbols) /\ tb \in Seq(Symbols)
      /\ da \in Seq(Symbols) /\ db \in Seq(Symbols)
  <2> DEFINE buf == w.buffer
             other == w.other
  <2>1. /\ p \in Nat /\ size \in Nat /\ m + b <= p /\ m + size <= p
        /\ buf = Bytes(m + 1, m + b) /\ other = Bytes(m + b + 1, p)
        /\ l = Lesser(b, size) /\ d = size - l
    BY <1>3, <1>4, <1>7, <1>8
  <2> HIDE DEF buf, other
  <2>2. Parts(m, b, p, size, buf, other, l, d)
    BY <2>1, ChunkParts
  <2> QED BY <2>2 DEF buf, other, Parts
<1>10. /\ t = stream \o <<h>> \o ta \o tb
       /\ x = [w EXCEPT !.buffer = da, !.other = db]
  BY <1>1
<1> HIDE DEF ta, tb, da, db
<1>11. h \in Symbols
  BY <1>7 DEF Header, Symbols
<1>12. t = stream \o <<h>> \o (ta \o tb)
  <2> DEFINE a == stream \o <<h>>
             hs == <<h>>
  <2> HIDE DEF h
  <2>1. hs \in Seq(Symbols)
    BY <1>11
  <2> HIDE DEF hs
  <2>2. stream \o hs \in Seq(Symbols)
    BY <1>2, <2>1, ConcatIs
  <2>3. a \in Seq(Symbols)
    BY <2>2 DEF hs
  <2>4. t = (a \o ta) \o tb
    BY <1>10
  <2> HIDE DEF a
  <2>5. t = a \o (ta \o tb)
    <3>1. ta \in Seq(Symbols) /\ tb \in Seq(Symbols)
      BY <1>9
    <3> QED BY <2>3, <2>4, <3>1, ConcatAssociative, SMTT(30)
  <2> QED BY <2>5 DEF a
<1>13. t \in Seq(Symbols) /\ Longer(stream, t, "partial", size, m)
  <2>1. t = stream \o <<Header("partial", size)>> \o Bytes(m + 1, m + size)
    BY <1>9, <1>12 DEF h
  <2> DEFINE s == stream
             tag == "partial"
  <2>2. s \in Seq(Symbols) /\ tag \in {"partial", "full"} /\ t = s \o <<Header(tag, size)>> \o Bytes(m + 1, m + size)
    BY <1>2, <2>1
  <2> HIDE DEF s, tag
  <2>3. t \in Seq(Symbols) /\ Longer(s, t, tag, size, m)
    BY <1>7, <2>2, Appended
  <2> QED BY <2>3 DEF s, tag
<1> DEFINE n == m + size
           c == b - l
<1>14. n \in Nat /\ c \in Nat /\ n + c <= p /\ c <= buffer_threshold
  <2>1. l = b \/ l = size
    BY <1>8 DEF Lesser
  <2>2. /\ p \in Nat /\ m + b <= p /\ size \in Nat /\ m + size <= p /\ l \in Nat
        /\ l <= b /\ l <= size /\ b <= buffer_threshold
    BY <1>3, <1>4, <1>7, <1>8, <1>9
  <2> QED BY <2>1, <2>2, Limits
<1>15. /\ x \in Writers /\ x.buffer = da /\ x.other = db /\ x.op = "write_out"
       /\ x.position = p
  BY <1>1, <1>2, <1>9, <1>10 DEF Writers, p
<1> DEFINE tag == "partial"
           fin == tag = "full"
<1>16. /\ tag \in {"partial", "full"} /\ (tag = "partial" => size \in PowersOfTwo)
       /\ (tag = "partial" => size >= Lesser(buffer_threshold, max_chunk_size))
       /\ Longer(stream, t, tag, size, m) /\ (x.op = "done") = FALSE /\ fin = FALSE
  BY <1>6, <1>13, <1>15
<1> HIDE DEF tag
<1> DEFINE s == stream
<1>17. s \in Seq(Symbols) /\ Framed(s, m, FALSE) /\ NoneSmall(s) /\ Longer(s, t, tag, size, m)
  BY <1>2, <1>16
<1> HIDE DEF s
<1>18. Framed(t, n, fin)
  BY <1>7, <1>13, <1>16, <1>17, AppendFramed
<1> DEFINE e == x.op = "done"
<1>19. NoneSmall(t)
  BY <1>7, <1>13, <1>16, <1>17, AppendNoneSmall
<1>20. WriterAt(x, n, c)
  BY <1>4, <1>9, <1>14, <1>15 DEF WriterAt
<1>21. Undivided(t, x)
  <2>1. p > buffer_threshold
    BY <1>1, <1>3, <1>5, Limits
  <2> QED BY <1>3, <1>15, <2>1, Limits DEF Undivided
<1>22. e = FALSE
  BY <1>16
<1> HIDE DEF fin, e
<1>23. Framed(t, n, e)
  BY <1>16, <1>18, <1>22
<1>24. w' = x /\ stream' = t /\ w.op # "done"
  BY <1>1 DEF x, t
<1>25. Framed(t, n, x.op = "done")
  BY <1>23 DEF e
<1> HIDE DEF n, c
<1> QED BY <1>1, <1>13, <1>14, <1>15, <1>19, <1>20, <1>21, <1>24, <1>25, WriterKeeps

(* into_inner() writes the last chunk, even if it is empty. *)
LEMMA FinishStep ==
  ASSUME WInv, Finish
  PROVE  WInv'
<1> DEFINE x == w'
           t == stream'
           s == stream
           p == w.position
           tag == "full"
           fin == tag = "full"
           e == x.op = "done"
<1>1. /\ w.op = "idle" /\ r' = r
      /\ t = s \o <<Header(tag, Len(w.buffer))>> \o w.buffer
      /\ x = [w EXCEPT !.buffer = <<>>, !.op = "done"]
  BY DEF Finish, WriterOnly
<1>2. PICK m, b \in Nat : /\ WriterAt(w, m, b) /\ Framed(s, m, FALSE) /\ w \in Writers
                          /\ s \in Seq(Symbols) /\ NoneSmall(s) /\ Undivided(s, w)
  BY <1>1, WriterBefore
<1>3. /\ Len(w.buffer) = b /\ w.other = <<>>
      /\ p \in Nat /\ w.buffer \in Seq(Symbols) /\ w.other \in Seq(Symbols)
  BY <1>1, <1>2, PendingIs, WriterFields
<1>4. m + b = p /\ p <= Length /\ w.buffer = Bytes(m + 1, m + b)
  BY <1>1, <1>2 DEF WriterAt
<1>5. /\ x \in Writers /\ x.buffer = <<>> /\ x.other = <<>> /\ x.op = "done" /\ x.position = p
  BY <1>1, <1>2, <1>3, EmptySeq DEF Writers
<1>6. tag \in {"partial", "full"} /\ tag # "partial" /\ fin = TRUE /\ e = TRUE /\ tag = "full"
  BY <1>5
<1>7. t = s \o <<Header(tag, b)>> \o Bytes(m + 1, m + b)
  BY <1>1, <1>3, <1>4
<1> HIDE DEF x, t, s, p, tag
<1>8. t \in Seq(Symbols) /\ Longer(s, t, tag, b, m)
  BY <1>2, <1>6, <1>7, Appended
<1>9. Framed(t, m + b, fin)
  BY <1>2, <1>6, <1>8, AppendFramed
<1>10. NoneSmall(t)
  BY <1>2, <1>6, <1>8, AppendNoneSmall
<1>11. Undivided(t, x)
  <2> SUFFICES ASSUME p <= buffer_threshold PROVE Headers(t) = {1} /\ t[1].tag = "full"
    BY <1>5 DEF Undivided
  <2>1. s = <<>>
    BY <1>1, <1>2 DEF Undivided, p
  <2>2. Len(s) = 0 /\ Len(s) + 1 = 1
    BY <2>1, EmptySeq
  <2>3. Headers(s) = {}
    BY <2>2 DEF Headers
  <2>4. Headers(t) = Headers(s) \union {Len(s) + 1} /\ t[Len(s) + 1].tag = tag
    BY <1>8 DEF Longer
  <2> QED BY <1>6, <2>2, <2>3, <2>4
<1> DEFINE n == m + b
           z == 0
<1>12. n \in Nat /\ z \in Nat /\ n = p /\ z = 0 /\ n + 1 \in Nat /\ n + 1 > 0 /\ n = (n + 1) - 1
  BY <1>3, <1>4
<1> HIDE DEF n, z
<1>13. Bytes(n + 1, n) = <<>>
  BY <1>12, EmptyRun
<1>14. WriterAt(x, n, z)
  <2>1. n + z = n
    BY <1>12
  <2>2. x.buffer = Bytes(n + 1, n + z) /\ x.other = Bytes(n + z + 1, x.position)
    BY <1>5, <1>12, <1>13, <2>1
  <2> QED BY <1>4, <1>5, <1>12, <2>1, <2>2, Limits DEF WriterAt
<1> HIDE DEF fin, e
<1>15. Framed(t, n, e)
  BY <1>6, <1>9 DEF n
<1>16. Framed(t, n, x.op = "done")
  BY <1>15 DEF e
<1>17. w' = x /\ stream' = t /\ w.op # "done"
  BY <1>1 DEF x, t
<1> QED BY <1>1, <1>5, <1>8, <1>10, <1>11, <1>12, <1>14, <1>16, <1>17, WriterKeeps

(* The first n symbols of a stream. *)
CutOff(s, t, n) ==
  /\ t \in Seq(Symbols) /\ Len(t) = n
  /\ \A i \in 1 .. n : t[i] = s[i]
  /\ Headers(t) = {i \in Headers(s) : i <= n}
  /\ BytesIn(t) = {i \in BytesIn(s) : i <= n}

(* A stream that was cut, and one that something follows. *)
LEMMA CutIs ==
  ASSUME NEW s \in Seq(Symbols), NEW n \in Nat, n <= Len(s), NEW t, t = Take(s, n)
  PROVE  CutOff(s, t, n)
<1>1. Len(s) \in Nat /\ Lesser(n, Len(s)) = n
  BY LenProperties DEF Lesser
<1>2. t \in Seq(Symbols) /\ Len(t) = n /\ \A i \in 1 .. n : t[i] = s[i]
  BY <1>1, TakeIs
<1>3. /\ Headers(t) = {i \in 1 .. Len(t) : t[i].tag = "partial" \/ t[i].tag = "full"}
      /\ BytesIn(t) = {i \in 1 .. Len(t) : t[i].tag = "byte"}
  BY <1>2, HeaderPlaces
<1>4. /\ Headers(s) = {i \in 1 .. Len(s) : s[i].tag = "partial" \/ s[i].tag = "full"}
      /\ BytesIn(s) = {i \in 1 .. Len(s) : s[i].tag = "byte"}
  BY HeaderPlaces
<1>5. \A i : i \in 1 .. n <=> i \in 1 .. Len(s) /\ i <= n
  BY <1>1
<1>6. Headers(t) = {i \in Headers(s) : i <= n}
  BY <1>2, <1>3, <1>4, <1>5
<1>7. BytesIn(t) = {i \in BytesIn(s) : i <= n}
  BY <1>2, <1>3, <1>4, <1>5
<1> QED BY <1>2, <1>6, <1>7 DEF CutOff

(* A stream that was cut in a header: the rest of that stands for the      *)
(* header of an empty last chunk.                                          *)
Torn(s, t, n, u) == CutOff(s, u, n) /\ t \in Seq(Symbols) /\ Longer(u, t, "full", 0, 0)

LEMMA CutStream ==
  ASSUME NEW s \in Seq(Symbols), NEW n \in Nat, n <= Len(s), NEW octets,
         NEW t, t = Take(s, n) \o Remainder(octets)
  PROVE  /\ ~(octets >= 2) => CutOff(s, t, n)
         /\ octets >= 2 => \E u : Torn(s, t, n, u)
<1> DEFINE u == Take(s, n)
<1>1. u = Take(s, n)
  OBVIOUS
<1>2. t = u \o Remainder(octets)
  OBVIOUS
<1> HIDE DEF u
<1>3. CutOff(s, u, n)
  BY <1>1, CutIs
<1>4. u \in Seq(Symbols)
  BY <1>3 DEF CutOff
<1>5. CASE ~(octets >= 2)
  <2>1. t = u \o <<>>
    BY <1>2, <1>5 DEF Remainder
  <2>2. t = u
    BY <1>4, <2>1, ConcatEmptySeq
  <2> QED BY <1>3, <1>5, <2>2
<1>6. CASE octets >= 2
  <2> DEFINE k == 0
             tag == "full"
             v == u \o <<Header(tag, k)>>
             e == Bytes(k + 1, k + k)
  <2>1. k \in Nat /\ k = 0 /\ tag \in {"partial", "full"} /\ tag = "full"
    OBVIOUS
  <2>2. t = v
    BY <1>2, <1>6 DEF Remainder
  <2>3. e = <<>>
    <3> DEFINE i == k + 1
               j == k + k
    <3>1. i \in Nat /\ i > 0 /\ j = i - 1
      OBVIOUS
    <3> HIDE DEF i, j
    <3>2. Bytes(i, j) = <<>>
      BY <3>1, EmptyRun
    <3> QED BY <3>2 DEF i, j
  <2>4. v \in Seq(Symbols)
    <3> DEFINE x == Header(tag, k)
    <3>1. x \in Symbols
      BY DEF Header, Symbols
    <3> HIDE DEF x
    <3>2. <<x>> \in Seq(Symbols)
      BY <3>1
    <3> QED BY <1>4, <3>2, ConcatIs DEF x
  <2>5. v \o e = v
    <3> HIDE DEF v, e
    <3> QED BY <2>3, <2>4, ConcatEmptySeq
  <2>6. t = u \o <<Header(tag, k)>> \o Bytes(k + 1, k + k)
    BY <2>2, <2>5
  <2> HIDE DEF k, tag, v, e
  <2>7. t \in Seq(Symbols) /\ Longer(u, t, tag, k, k)
    BY <1>4, <2>1, <2>6, Appended
  <2>8. Torn(s, t, n, u)
    BY <1>3, <2>1, <2>7 DEF Torn
  <2> QED BY <1>6, <2>8
<1> QED BY <1>5, <1>6

(* A stream with the next packet after it. *)
Followed(s, t) ==
  /\ t \in Seq(Symbols) /\ Len(t) = Len(s) + Following
  /\ \A i \in 1 .. Len(s) : t[i] = s[i]
  /\ Headers(t) = Headers(s) /\ BytesIn(t) = BytesIn(s)

LEMMA FollowedIs ==
  ASSUME NEW s \in Seq(Symbols),
         NEW u, u = [k \in 1 .. Following |-> [tag |-> "next", n |-> k]],
         NEW t, t = s \o u
  PROVE  Followed(s, t)
<1> DEFINE l == Len(s)
<1>1. Following \in Nat
  BY Limits
<1>2. \A k \in 1 .. Following : [tag |-> "next", n |-> k] \in Symbols
  BY <1>1 DEF Symbols
<1>3. u \in Seq(Symbols) /\ Len(u) = Following
  BY <1>1, <1>2, IsASeq
<1>4. \A k \in 1 .. Following : u[k].tag = "next"
  OBVIOUS
<1>6. l \in Nat
  BY LenProperties
<1>7. /\ t \in Seq(Symbols) /\ Len(t) = Len(s) + Len(u)
      /\ \A k \in 1 .. Len(s) + Len(u) : t[k] = IF k <= Len(s) THEN s[k] ELSE u[k - Len(s)]
  BY <1>3, ConcatIs
<1> HIDE DEF l
<1>8. Len(t) = l + Following /\ \A i \in 1 .. l : t[i] = s[i]
  BY <1>1, <1>3, <1>6, <1>7 DEF l
<1>9. ASSUME NEW i \in 1 .. Len(t), ~(i \in 1 .. l) PROVE t[i].tag = "next"
  <2> DEFINE k == i - l
  <2>1. k \in 1 .. Following /\ ~(i <= l) /\ i \in 1 .. Len(s) + Len(u)
    BY <1>1, <1>3, <1>6, <1>7, <1>8, <1>9
  <2>2. t[i] = u[k]
    BY <1>7, <2>1 DEF l
  <2> HIDE DEF k
  <2> QED BY <1>4, <2>1, <2>2
<1>10. /\ Headers(t) = {i \in 1 .. Len(t) : t[i].tag = "partial" \/ t[i].tag = "full"}
       /\ BytesIn(t) = {i \in 1 .. Len(t) : t[i].tag = "byte"}
  BY <1>7, HeaderPlaces
<1>11. /\ Headers(s) = {i \in 1 .. l : s[i].tag = "partial" \/ s[i].tag = "full"}
       /\ BytesIn(s) = {i \in 1 .. l : s[i].tag = "byte"}
  BY HeaderPlaces DEF l
<1>12. \A i \in 1 .. l : i \in 1 .. Len(t)
  BY <1>1, <1>6, <1>8
<1>13. Headers(t) = Headers(s)
  <2>1. ASSUME NEW i \in Headers(t) PROVE i \in Headers(s)
    <3>1. i \in 1 .. Len(t) /\ (t[i].tag = "partial" \/ t[i].tag = "full")
      BY <1>10
    <3>2. t[i].tag # "next"
      BY <3>1
    <3>3. i \in 1 .. l
      BY <1>9, <3>1, <3>2
    <3> QED BY <1>8, <1>11, <3>1, <3>3
  <2>2. ASSUME NEW i \in Headers(s) PROVE i \in Headers(t)
    BY <1>8, <1>10, <1>11, <1>12
  <2> QED BY <2>1, <2>2
<1>14. BytesIn(t) = BytesIn(s)
  <2>1. ASSUME NEW i \in BytesIn(t) PROVE i \in BytesIn(s)
    <3>1. i \in 1 .. Len(t) /\ t[i].tag = "byte"
      BY <1>10
    <3>2. t[i].tag # "next"
      BY <3>1
    <3>3. i \in 1 .. l
      BY <1>9, <3>1, <3>2
    <3> QED BY <1>8, <1>11, <3>1, <3>3
  <2>2. ASSUME NEW i \in BytesIn(s) PROVE i \in BytesIn(t)
    BY <1>8, <1>10, <1>11, <1>12
  <2> QED BY <2>1, <2>2
<1> QED BY <1>7, <1>8, <1>13, <1>14 DEF Followed, l

(* The reader is created, and the stream cut or continued. *)
LEMMA OpenStep ==
  ASSUME WInv, NEW cut, NEW octets, NEW hash_headers, Open(cut, octets, hash_headers)
  PROVE  WInv' /\ r'.open = TRUE
<1> DEFINE t == stream'
           s == stream
<1>1. /\ w.op = "done" /\ ~r.open /\ cut \in 1 .. Len(s) /\ w' = w
      /\ r' = [r EXCEPT !.open = TRUE, !.pos = 1, !.partial_body_length = stream[1].n,
                        !.hash_headers = hash_headers, !.cut = cut < Len(stream)]
  BY DEF Open
<1>2. "open" \in DOMAIN r' /\ r'.open = TRUE
  BY <1>1 DEF WInv
<1>3. s \in Seq(Symbols) /\ NoneSmall(s) /\ w \in Writers /\ Len(s) \in Nat
  BY LenProperties DEF WInv
<1>4. PICK m, b \in Nat : WriterAt(w, m, b)
  BY DEF WInv
<1>5. t \in Seq(Symbols) /\ NoneSmall(t)
  <2>1. CASE cut < Len(s)
    <3>1. t = Take(s, cut) \o Remainder(octets) /\ cut \in Nat /\ cut <= Len(s)
      BY <1>1, <1>3, <2>1 DEF Open
    <3> HIDE DEF s, t
    <3>2. /\ ~(octets >= 2) => CutOff(s, t, cut)
          /\ octets >= 2 => \E u : Torn(s, t, cut, u)
      BY <1>3, <3>1, CutStream
    <3>3. ASSUME NEW u, CutOff(s, u, cut) PROVE u \in Seq(Symbols) /\ NoneSmall(u)
      BY <1>3, <3>3, HeaderPlaces DEF CutOff, NoneSmall
    <3>4. CASE ~(octets >= 2)
      BY <3>2, <3>3, <3>4
    <3>5. CASE octets >= 2
      <4>1. PICK u : Torn(s, t, cut, u)
        BY <3>2, <3>5
      <4> DEFINE tag == "full"
                 k == 0
      <4>2. /\ tag \in {"partial", "full"} /\ k \in Nat
            /\ tag = "partial" => k >= Lesser(buffer_threshold, max_chunk_size)
            /\ Longer(u, t, tag, k, k) /\ t \in Seq(Symbols)
        BY <4>1 DEF Torn
      <4>3. u \in Seq(Symbols) /\ NoneSmall(u)
        BY <3>3, <4>1 DEF Torn
      <4> HIDE DEF tag, k
      <4> QED BY <4>2, <4>3, AppendNoneSmall
    <3> QED BY <3>4, <3>5
  <2>2. CASE ~(cut < Len(s))
    <3> DEFINE u == [k \in 1 .. Following |-> [tag |-> "next", n |-> k]]
    <3>1. t = s \o u
      BY <2>2 DEF Open
    <3> HIDE DEF s, t
    <3>2. Followed(s, t)
      BY <1>3, <3>1, FollowedIs
    <3> QED BY <1>3, <3>2, HeaderPlaces DEF Followed, NoneSmall
  <2> QED BY <2>1, <2>2
<1>6. \E i, j \in Nat : WriterAt(w, i, j)
  BY <1>4
<1> QED BY <1>1, <1>2, <1>3, <1>5, <1>6 DEF WInv

LEMMA ReaderKeeps ==
  ASSUME WInv, w' = w, stream' = stream, "open" \in DOMAIN r', r'.open = r.open
  PROVE  WInv'
BY DEF WInv

LEMMA TidyOpen ==
  ASSUME NEW x, "open" \in DOMAIN x
  PROVE  "open" \in DOMAIN Tidy(x) /\ Tidy(x).open = x.open
BY DEF Tidy

(* The reader neither writes nor closes. *)
LEMMA ReaderSame ==
  ASSUME "open" \in DOMAIN r,
         \/ \E amount \in 1 .. MaxAmount, hard, consume \in BOOLEAN :
               \/ Direct(amount, hard, consume)
               \/ Buffered(amount, hard, consume)
               \/ NeedFill(amount, hard, consume)
         \/ FillStep
         \/ \E amount \in 1 .. MaxAmount : Consume(amount)
  PROVE  w' = w /\ stream' = stream /\ "open" \in DOMAIN r' /\ r'.open = r.open
<1> DEFINE Goal == w' = w /\ stream' = stream /\ "open" \in DOMAIN r' /\ r'.open = r.open
<1> DEFINE y == Tidy(r)
<1>1. "open" \in DOMAIN y /\ y.open = r.open
  BY TidyOpen
<1> HIDE DEF y
<1>2. ASSUME NEW amount, NEW hard, NEW consume, Direct(amount, hard, consume) PROVE Goal
  <2>1. w' = w /\ stream' = stream
    BY <1>2 DEF Direct, ReaderOnly
  <2>2. \E a, b : r' = [y EXCEPT !.pos = a, !.partial_body_length = b]
    BY <1>2 DEF Direct, y
  <2> QED BY <1>1, <2>1, <2>2
<1>3. ASSUME NEW amount, NEW hard, NEW consume, Buffered(amount, hard, consume) PROVE Goal
  <2>1. w' = w /\ stream' = stream
    BY <1>3 DEF Buffered, ReaderOnly
  <2>2. \E a : r' = [y EXCEPT !.cursor = a]
    BY <1>3 DEF Buffered, FromBuffer, y
  <2> QED BY <1>1, <2>1, <2>2
<1>4. ASSUME NEW amount, NEW hard, NEW consume, NeedFill(amount, hard, consume) PROVE Goal
  <2>1. w' = w /\ stream' = stream /\ r' = y
    BY <1>4 DEF NeedFill, ReaderOnly, y
  <2> QED BY <1>1, <2>1
<1> DEFINE v == AfterRead
<1>5. "open" \in DOMAIN v /\ v.open = r.open
  BY DEF AfterRead
<1> HIDE DEF v
<1> DEFINE z == NewBuffer(v)
<1>6. "open" \in DOMAIN z /\ z.open = r.open
  BY <1>5 DEF NewBuffer
<1> HIDE DEF z
<1>7. CASE FillStep
  <2>1. CASE FillEnd
    <3>1. w' = w /\ stream' = stream
      BY <2>1 DEF FillEnd, ReaderOnly
    <3>2. \E a : r' = [z EXCEPT !.cursor = a]
      BY <2>1 DEF FillEnd, FromBuffer, z, v
    <3> QED BY <1>6, <3>1, <3>2
  <2>2. CASE FillHeader
    <3>1. w' = w /\ stream' = stream
      BY <2>2 DEF FillHeader, ReaderOnly
    <3>2. \E a, b, c : r' = [v EXCEPT !.pos = a, !.partial_body_length = b, !.last = c]
      BY <2>2 DEF FillHeader, v
    <3> QED BY <1>5, <3>1, <3>2
  <2>3. CASE FillError
    <3>1. w' = w /\ stream' = stream /\ r' = z
      BY <2>3 DEF FillError, ReaderOnly, z, v
    <3> QED BY <1>6, <3>1
  <2> QED BY <1>7, <2>1, <2>2, <2>3 DEF FillStep
<1>8. ASSUME NEW amount, Consume(amount) PROVE Goal
  <2>1. w' = w /\ stream' = stream
    BY <1>8 DEF Consume, ReaderOnly
  <2>2. \/ \E a : r' = [r EXCEPT !.cursor = a]
        \/ \E a, b : r' = [r EXCEPT !.pos = a, !.partial_body_length = b]
    BY <1>8 DEF Consume
  <2> QED BY <2>1, <2>2
<1> QED BY <1>2, <1>3, <1>4, <1>7, <1>8

LEMMA WriterNext ==
  ASSUME WInv, [Next]_vars
  PROVE  WInv'
<1>1. CASE \E n \in 0 .. MaxWrite : Write(n)
  BY <1>1, WriteStep, Limits
<1>2. CASE Flush
  BY <1>2, FlushStep
<1>3. CASE WriteOutStep
  BY <1>3, WriteOutChunkStep, WriteOutEndStep DEF WriteOutStep
<1>4. CASE Finish
  BY <1>4, FinishStep
<1>5. CASE \E cut \in 1 .. Len(stream), octets \in 0 .. 4, h \in BOOLEAN : Open(cut, octets, h)
  BY <1>5, OpenStep
<1>6. CASE \/ \E amount \in 1 .. MaxAmount, hard, consume \in BOOLEAN :
                 \/ Direct(amount, hard, consume)
                 \/ Buffered(amount, hard, consume)
                 \/ NeedFill(amount, hard, consume)
           \/ FillStep
           \/ \E amount \in 1 .. MaxAmount : Consume(amount)
  <2>1. "open" \in DOMAIN r
    BY DEF WInv
  <2>2. w' = w /\ stream' = stream /\ "open" \in DOMAIN r' /\ r'.open = r.open
    BY <1>6, <2>1, ReaderSame
  <2> QED BY <2>2, ReaderKeeps
<1>7. CASE UNCHANGED vars
  BY <1>7 DEF vars, WInv
<1> QED BY <1>1, <1>2, <1>3, <1>4, <1>5, <1>6, <1>7 DEF Next

LEMMA WriterInvariance == Spec => []WInv
<1>1. WInv /\ [Next]_vars => WInv'
  BY WriterNext
<1> QED BY WriterInit, <1>1, PTL DEF Spec

(* Each conjunct of what is claimed of the writer follows from WInv. *)
LEMMA FramedWell ==
  ASSUME WInv
  PROVE  WellFramed
<1> SUFFICES ASSUME ~r.open
             PROVE  /\ stream # <<>> => IsHeader(stream[1])
                    /\ \A i \in Headers(stream) :
                         LET next == i + stream[i].n + 1
                         IN  /\ \A j \in i + 1 .. next - 1 : j <= Len(stream) /\ stream[j].tag = "byte"
                             /\ next = Len(stream) + 1 \/ next \in Headers(stream)
                             /\ stream[i].tag = "partial" => stream[i].n \in PowersOfTwo
                             /\ stream[i].tag = "full" <=> (w.op = "done" /\ next = Len(stream) + 1)
                    /\ w.op = "done" => Headers(stream) # {}
  BY DEF WellFramed
<1> DEFINE s == stream
           fin == w.op = "done"
<1>0. PICK m \in Nat : \E base : Chunked(s, base, m, fin)
  BY DEF WInv, Framed
<1>1. PICK base : Chunked(s, base, m, fin)
  BY <1>0
<1>2. s \in Seq(Symbols) /\ Len(s) \in Nat /\ Headers(s) \subseteq 1 .. Len(s)
  BY HeaderPlaces DEF WInv
<1> HIDE DEF s, fin
<1>3. /\ base \in [Headers(s) -> Nat]
      /\ s = <<>> => ~fin
      /\ s # <<>> => 1 \in Headers(s)
      /\ \A i \in Headers(s) : ChunkOK(s, base, m, fin, i)
  BY <1>1 DEF Chunked
<1>4. s # <<>> => IsHeader(s[1])
  BY <1>3 DEF Headers
<1>5. fin => Headers(s) # {}
  BY <1>3
<1>6. ASSUME NEW i \in Headers(s)
      PROVE  LET next == i + s[i].n + 1
             IN  /\ \A j \in i + 1 .. next - 1 : j <= Len(s) /\ s[j].tag = "byte"
                 /\ next = Len(s) + 1 \/ next \in Headers(s)
                 /\ s[i].tag = "partial" => s[i].n \in PowersOfTwo
                 /\ s[i].tag = "full" <=> (fin /\ next = Len(s) + 1)
  <2> DEFINE n == s[i].n
             end == i + n
  <2>1. /\ end <= Len(s)
        /\ \A k \in 1 .. n : s[i + k] = Byte(base[i] + k)
        /\ end = Len(s) \/ end + 1 \in Headers(s)
        /\ s[i].tag = "partial" => s[i].n \in PowersOfTwo
        /\ s[i].tag = "full" <=> (fin /\ end = Len(s))
    BY <1>3 DEF ChunkOK
  <2>2. n \in Nat /\ i \in Nat /\ base[i] \in Nat
    BY <1>2, <1>3, SymbolAt
  <2>3. ASSUME NEW j \in i + 1 .. end PROVE j <= Len(s) /\ s[j].tag = "byte"
    <3> HIDE DEF n
    <3> DEFINE k == j - i
    <3>1. k \in 1 .. n /\ i + k = j /\ base[i] + k \in Nat /\ j <= Len(s)
      BY <1>2, <2>1, <2>2, SMTT(30)
    <3> HIDE DEF k
    <3>2. s[j] = Byte(base[i] + k)
      BY <2>1, <3>1
    <3> QED BY <3>1, <3>2 DEF Byte
  <2> HIDE DEF n
  <2>4. end \in Int /\ Len(s) \in Int
    BY <1>2, <2>2
  <2>5. \A j \in i + 1 .. end : j <= Len(s) /\ s[j].tag = "byte"
    BY <2>3
  <2> HIDE DEF end
  <2> DEFINE nx == i + s[i].n + 1
  <2>6. nx = end + 1
    BY DEF end, n
  <2> HIDE DEF nx
  <2>7. nx - 1 = end /\ (nx = Len(s) + 1 <=> end = Len(s))
    BY <2>4, <2>6
  <2>8. \A j \in i + 1 .. nx - 1 : j <= Len(s) /\ s[j].tag = "byte"
    BY <2>5, <2>7
  <2>9. nx = Len(s) + 1 \/ nx \in Headers(s)
    BY <2>1, <2>6
  <2>10. s[i].tag = "full" <=> (fin /\ nx = Len(s) + 1)
    BY <2>1, <2>7
  <2> QED BY <2>1, <2>8, <2>9, <2>10 DEF nx
<1>7. \A i \in Headers(s) :
         LET next == i + s[i].n + 1
         IN  /\ \A j \in i + 1 .. next - 1 : j <= Len(s) /\ s[j].tag = "byte"
             /\ next = Len(s) + 1 \/ next \in Headers(s)
             /\ s[i].tag = "partial" => s[i].n \in PowersOfTwo
             /\ s[i].tag = "full" <=> (fin /\ next = Len(s) + 1)
  BY <1>6
<1> QED BY <1>4, <1>5, <1>7 DEF s, fin

LEMMA WriterProperties ==
  ASSUME WInv
  PROVE  WellFramed /\ WriterLosesNothing /\ ChunksNotSmall /\ NoAvoidableChunking
<1>1. WellFramed
  BY FramedWell
<1>2. ChunksNotSmall
  BY DEF WInv, ChunksNotSmall, NoneSmall
<1>3. NoAvoidableChunking
  BY DEF WInv, NoAvoidableChunking, Undivided
<1>4. WriterLosesNothing
  <2> SUFFICES ASSUME ~r.open
               PROVE  LET done == w.position - Pending
                      IN  /\ Carries(stream, done)
                          /\ w.buffer \o w.other = Bytes(done + 1, w.position)
    BY DEF WriterLosesNothing
  <2>1. PICK m, b \in Nat : WriterAt(w, m, b) /\ Carries(stream, m)
    BY DEF WInv, Framed
  <2>2. /\ Len(w.buffer) = b /\ Len(w.other) = w.position - m - b
        /\ w.buffer \o w.other = Bytes(m + 1, w.position) /\ w.position \in Nat
    BY <2>1, PendingIs, WriterFields DEF WInv
  <2>3. w.position - Pending = m
    BY <2>2 DEF Pending
  <2> QED BY <2>1, <2>2, <2>3
<1> QED BY <1>1, <1>2, <1>3, <1>4

(* Whatever is written and flushed, PartialBodyFilter cuts it into chunks  *)
(* that say how long they are, with one last chunk that is not partial;    *)
(* every byte is in the stream, in the buffer or in the slice that         *)
(* write_out() is at, once and in order; no partial chunk is smaller than  *)
(* the limits ask for; and what fits into the buffer is not chunked.       *)
THEOREM WriterChunksRight ==
  Spec => [](WellFramed /\ WriterLosesNothing /\ ChunksNotSmall /\ NoAvoidableChunking)
<1>1. WInv => WellFramed /\ WriterLosesNothing /\ ChunksNotSmall /\ NoAvoidableChunking
  BY WriterProperties
<1> QED BY WriterInvariance, <1>1, PTL

-----------------------------------------------------------------------------
(* The stream that the reader finds. *)

(* The chunk at i, of a stream with a bytes of the body: it is there and   *)
(* another follows, or it is the last, or the stream was cut in it or      *)
(* right after it, and not after the last: what looks like that then is    *)
(* the rest of a header.                                                   *)
FrameOK(s, base, a, cut, i) ==
  LET end == i + s[i].n
  IN  /\ \A k \in 1 .. s[i].n : i + k <= Len(s) => s[i + k] = Byte(base[i] + k)
      /\ base[i] + Lesser(s[i].n, Len(s) - i) <= a
      /\ \/ s[i].tag = "partial" /\ end + 1 \in Headers(s) /\ base[end + 1] = base[i] + s[i].n
         \/ s[i].tag = "full" /\ ~cut /\ end + Following = Len(s) /\ base[i] + s[i].n = a
         \/ /\ cut /\ end >= Len(s) /\ a = base[i] + Len(s) - i
            /\ s[i].tag = "full" => end > Len(s) \/ s[i].n = 0

(* A header of an empty last chunk. *)
Stray(s) == \E i \in Headers(s) : s[i].tag = "full" /\ s[i].n = 0

Opened(s, base, a, cut) ==
  /\ base \in [Headers(s) -> Nat] /\ a \in Nat
  /\ \A i \in Headers(s) : FrameOK(s, base, a, cut, i)

(* What is known of the chunk at i of a stream of chunks: n bytes, and c   *)
(* before it.                                                              *)
InChunk(s, base, m, fin, i, n, c) ==
  /\ n = s[i].n /\ c = base[i] /\ n \in Nat /\ c \in Nat
  /\ i \in 1 .. Len(s) /\ Len(s) \in Nat /\ i + n <= Len(s) /\ c + n <= m
  /\ \A k \in 1 .. n : s[i + k] = Byte(c + k)
  /\ \/ i + n = Len(s) /\ c + n = m
     \/ i + n + 1 \in Headers(s) /\ i + n + 1 <= Len(s) /\ base[i + n + 1] = c + n
  /\ s[i].tag = "partial" => n > 0
  /\ s[i].tag = "full" <=> (fin /\ i + n = Len(s))
  /\ s[i].tag = "partial" \/ s[i].tag = "full"

(* A header has its bytes behind it, and behind them the next header. *)
LEMMA ChunkFacts ==
  ASSUME NEW s \in Seq(Symbols), NEW base, NEW m \in Nat, NEW fin, Chunked(s, base, m, fin),
         NEW i \in Headers(s), NEW n, n = s[i].n, NEW c, c = base[i]
  PROVE  InChunk(s, base, m, fin, i, n, c)
<1>1. i \in 1 .. Len(s) /\ Len(s) \in Nat /\ (s[i].tag = "partial" \/ s[i].tag = "full")
  BY HeaderPlaces
<1>2. n \in Nat
  BY <1>1, SymbolAt
<1>3. c \in Nat /\ ChunkOK(s, base, m, fin, i)
  BY DEF Chunked
<1>4. s[i].tag = "partial" => n > 0
  BY <1>3, PowerTypes DEF ChunkOK
<1>5. \A j \in Headers(s) : j <= Len(s)
  BY HeaderPlaces
<1>6. /\ i + n <= Len(s) /\ c + n <= m
      /\ \A k \in 1 .. n : s[i + k] = Byte(c + k)
      /\ \/ i + n = Len(s) /\ c + n = m
         \/ i + n + 1 \in Headers(s) /\ base[i + n + 1] = c + n
      /\ s[i].tag = "full" <=> (fin /\ i + n = Len(s))
  BY <1>3 DEF ChunkOK
<1>7. \/ i + n = Len(s) /\ c + n = m
      \/ i + n + 1 \in Headers(s) /\ i + n + 1 <= Len(s) /\ base[i + n + 1] = c + n
  BY <1>5, <1>6
<1> QED BY <1>1, <1>2, <1>3, <1>4, <1>6, <1>7 DEF InChunk

(* All of it, and the next packet. *)
LEMMA FollowOpened ==
  ASSUME NEW s \in Seq(Symbols), NEW base, NEW m \in Nat, Chunked(s, base, m, TRUE),
         NEW t, Followed(s, t)
  PROVE  Opened(t, base, m, FALSE)
<1>1. /\ t \in Seq(Symbols) /\ Len(t) = Len(s) + Following /\ Headers(t) = Headers(s)
      /\ \A i \in 1 .. Len(s) : t[i] = s[i]
  BY DEF Followed
<1>2. base \in [Headers(t) -> Nat]
  BY <1>1 DEF Chunked
<1> DEFINE fin == TRUE
<1>3. Chunked(s, base, m, fin)
  OBVIOUS
<1> HIDE DEF fin
<1>4. ASSUME NEW i \in Headers(t) PROVE FrameOK(t, base, m, FALSE, i)
  <2> DEFINE n == s[i].n
             end == i + n
             c == base[i]
  <2>1. n = s[i].n /\ c = base[i]
    OBVIOUS
  <2> HIDE DEF n, c
  <2>2. InChunk(s, base, m, fin, i, n, c)
    BY <1>1, <1>3, <2>1, ChunkFacts
  <2>3. /\ n \in Nat /\ c \in Nat /\ i \in 1 .. Len(s) /\ Len(s) \in Nat
        /\ end <= Len(s) /\ c + n <= m /\ end \in Int
    BY <2>2 DEF InChunk
  <2>4. \A k \in 1 .. n : s[i + k] = Byte(c + k)
    BY <2>2 DEF InChunk
  <2>5. /\ \/ end = Len(s) /\ c + n = m
           \/ end + 1 \in Headers(s) /\ end + 1 <= Len(s) /\ base[end + 1] = c + n
        /\ s[i].tag = "full" <=> end = Len(s)
        /\ s[i].tag = "partial" \/ s[i].tag = "full"
    BY <2>2 DEF InChunk, fin
  <2>6. t[i] = s[i]
    BY <1>1, <2>3
  <2>7. ASSUME NEW k \in 1 .. n PROVE t[i + k] = Byte(c + k)
    <3>1. i + k \in 1 .. Len(s)
      BY <2>3
    <3> QED BY <1>1, <2>4, <3>1
  <2>8. c + Lesser(n, Len(t) - i) <= m
    <3>1. Lesser(n, Len(t) - i) = n
      BY <1>1, <2>3, Limits DEF Lesser
    <3> QED BY <2>3, <3>1
  <2> HIDE DEF end
  <2>9. \/ t[i].tag = "partial" /\ end + 1 \in Headers(t) /\ base[end + 1] = c + n
        \/ t[i].tag = "full" /\ end + Following = Len(t) /\ c + n = m
    <3>1. CASE end = Len(s)
      BY <1>1, <2>3, <2>5, <2>6, <3>1
    <3>2. CASE end # Len(s)
      BY <1>1, <2>5, <2>6, <3>2
    <3> QED BY <3>1, <3>2
  <2>10. t[i].n = n /\ base[i] = c /\ i + n = end
    BY <2>1, <2>6 DEF end
  <2>11. \A k \in 1 .. n : i + k <= Len(t) => t[i + k] = Byte(c + k)
    BY <2>7
  <2> QED BY <2>8, <2>9, <2>10, <2>11 DEF FrameOK
<1> QED BY <1>2, <1>4 DEF Opened

(* The largest number of a byte. *)
Largest(s) ==
  CHOOSE m \in {0} \union {s[i].n : i \in BytesIn(s)} : \A i \in BytesIn(s) : s[i].n <= m

Top(s, m) ==
  /\ m \in Nat /\ m \in {0} \union {s[i].n : i \in BytesIn(s)}
  /\ \A i \in BytesIn(s) : s[i].n <= m

(* Received: the last byte that came through. *)
LEMMA LargestIs ==
  ASSUME NEW s \in Seq(Symbols), NEW m, m \in {0} \union {s[i].n : i \in BytesIn(s)},
         \A i \in BytesIn(s) : s[i].n <= m
  PROVE  Largest(s) = m /\ Top(s, Largest(s))
<1> DEFINE S == {0} \union {s[i].n : i \in BytesIn(s)}
           P(x) == \A i \in BytesIn(s) : s[i].n <= x
           v == CHOOSE x \in S : P(x)
<1>1. \A i \in BytesIn(s) : s[i].n \in Nat
  <2>1. BytesIn(s) \subseteq 1 .. Len(s)
    BY HeaderPlaces
  <2> QED BY <2>1, SymbolAt
<1>2. \A x \in S : x \in Nat
  BY <1>1
<1>3. m \in S /\ P(m)
  OBVIOUS
<1>4. v \in S /\ P(v)
  <2> HIDE DEF S, P
  <2> QED BY <1>3
<1>5. Largest(s) = v
  BY DEF Largest
<1> HIDE DEF v
<1>6. v \in Nat /\ m \in Nat
  BY <1>2, <1>3, <1>4
<1>7. v <= m
  BY <1>3, <1>4, <1>6
<1>8. m <= v
  BY <1>3, <1>4, <1>6
<1>9. v = m
  BY <1>6, <1>7, <1>8
<1> QED BY <1>3, <1>5, <1>6, <1>9 DEF Top

(* Chunks do not overlap. *)
LEMMA NoOverlap ==
  ASSUME NEW s \in Seq(Symbols), NEW base, NEW m \in Nat, NEW fin, Chunked(s, base, m, fin),
         NEW i \in Headers(s), NEW j \in Headers(s), i < j
  PROVE  i + s[i].n < j
<1> DEFINE n == s[i].n
           c == base[i]
<1>1. n = s[i].n /\ c = base[i]
  OBVIOUS
<1> HIDE DEF n, c
<1>2. InChunk(s, base, m, fin, i, n, c)
  BY <1>1, ChunkFacts
<1>3. n \in Nat /\ c \in Nat /\ i \in Int /\ \A k \in 1 .. n : s[i + k] = Byte(c + k)
  BY <1>2 DEF InChunk
<1>4. j \in Int /\ (s[j].tag = "partial" \/ s[j].tag = "full")
  BY HeaderPlaces
<1>5. CASE j <= i + n
  <2> DEFINE k == j - i
  <2>1. k \in 1 .. n /\ i + k = j /\ c + k \in Nat
    BY <1>3, <1>4, <1>5
  <2> HIDE DEF k
  <2>2. s[j] = Byte(c + k)
    BY <1>3, <2>1
  <2>3. s[j].tag = "byte"
    BY <2>2 DEF Byte
  <2> QED BY <1>4, <2>3
<1>6. CASE ~(j <= i + n)
  BY <1>1, <1>3, <1>4, <1>6
<1> QED BY <1>5, <1>6

(* How many bytes there are before the cut, by the chunk that is cut. *)
CutSize(t, base, c, h) == Largest(t) = base[h] + (c - h) /\ Top(t, Largest(t))

(* How much of the body is in front of a cut inside the chunk at h. *)
LEMMA CutCarries ==
  ASSUME NEW s \in Seq(Symbols), NEW base, NEW m \in Nat, NEW fin, Chunked(s, base, m, fin),
         Carries(s, m), NEW c \in Nat, c > 0, c < Len(s), NEW t, CutOff(s, t, c),
         NEW h \in Headers(s), h <= c, c <= h + s[h].n
  PROVE  CutSize(t, base, c, h)
<1> DEFINE n == s[h].n
           b == base[h]
           a == b + (c - h)
<1>1. n = s[h].n /\ b = base[h]
  OBVIOUS
<1> HIDE DEF n, b
<1>2. InChunk(s, base, m, fin, h, n, b)
  BY <1>1, ChunkFacts
<1>3. /\ n \in Nat /\ b \in Nat /\ h \in 1 .. Len(s) /\ h + n <= Len(s) /\ Len(s) \in Nat /\ c <= h + n
      /\ a \in Nat
  <2>1. n \in Nat /\ b \in Nat /\ h \in 1 .. Len(s) /\ h + n <= Len(s) /\ Len(s) \in Nat
    BY <1>2 DEF InChunk
  <2>2. c <= h + n
    BY <1>1
  <2>3. a \in Nat
    BY <2>1
  <2> QED BY <2>1, <2>2, <2>3
<1>4. /\ t \in Seq(Symbols)
      /\ \A i \in 1 .. c : t[i] = s[i]
      /\ BytesIn(t) = {i \in BytesIn(s) : i <= c}
  BY DEF CutOff
<1>5. /\ BytesIn(s) = {i \in 1 .. Len(s) : s[i].tag = "byte"}
      /\ Headers(s) = {i \in 1 .. Len(s) : s[i].tag = "partial" \/ s[i].tag = "full"}
  BY HeaderPlaces
<1>6. \A i, j \in BytesIn(s) : i < j => s[i].n < s[j].n
  BY DEF Carries
<1>7. \A i \in BytesIn(t) : i \in 1 .. c /\ i \in BytesIn(s) /\ t[i] = s[i] /\ s[i].n \in Nat
  BY <1>4, <1>5, SymbolAt
<1>8. ASSUME NEW q \in 1 .. c, s[q] = Byte(a), \A i \in BytesIn(t) : i <= q
      PROVE  Largest(t) = a /\ Top(t, Largest(t))
  <2>1. s[q].tag = "byte" /\ s[q].n = a
    BY <1>3, <1>8, ByteIs
  <2>2. q \in BytesIn(s) /\ q \in BytesIn(t) /\ t[q].n = a
    <3>1. q \in 1 .. Len(s) /\ q <= c
      BY <1>3
    <3> QED BY <1>4, <1>5, <2>1, <3>1
  <2>3. ASSUME NEW i \in BytesIn(t) PROVE t[i].n <= a
    <3>1. i \in BytesIn(s) /\ t[i].n = s[i].n /\ s[i].n \in Nat /\ i <= q /\ i \in Int
      BY <1>7, <1>8
    <3>2. CASE i = q
      BY <1>3, <2>1, <3>1, <3>2
    <3>3. CASE i # q
      <4>1. i < q
        BY <3>1, <3>3
      <4>2. s[i].n < s[q].n
        BY <1>6, <2>2, <3>1, <4>1
      <4> QED BY <1>3, <2>1, <3>1, <4>2
    <3> QED BY <3>2, <3>3
  <2>4. a \in {0} \union {t[i].n : i \in BytesIn(t)}
    BY <2>2
  <2> HIDE DEF a
  <2>5. \A i \in BytesIn(t) : t[i].n <= a
    BY <2>3
  <2> QED BY <1>4, <2>4, <2>5, LargestIs
<1>9. CASE c > h
  <2> DEFINE k == c - h
             q == c
  <2>1. k \in 1 .. n /\ h + k = c /\ b + k = a
    BY <1>3, <1>9
  <2>2. \A j \in 1 .. n : s[h + j] = Byte(b + j)
    BY <1>2 DEF InChunk
  <2> HIDE DEF k, a
  <2>3. s[c] = Byte(a)
    BY <2>1, <2>2
  <2>4. \A i \in BytesIn(t) : i <= c
    BY <1>7
  <2>5. c \in 1 .. c
    OBVIOUS
  <2>6. Largest(t) = a /\ Top(t, Largest(t))
    BY <1>8, <2>3, <2>4, <2>5
  <2> QED BY <1>1, <2>6 DEF a, CutSize
<1>10. CASE c = h /\ c = 1
  <2>1. s # <<>>
    BY <1>3, EmptySeq
  <2>2. base[1] = 0
    BY <2>1 DEF Chunked
  <2>3. a = 0
    BY <1>1, <1>3, <1>10, <2>2
  <2>4. BytesIn(t) = {}
    <3>1. ASSUME NEW i \in BytesIn(t) PROVE FALSE
      <4>1. i = 1 /\ s[i].tag = "byte"
        BY <1>5, <1>7, <1>10
      <4>2. s[h].tag # "byte"
        BY <1>5
      <4> QED BY <1>10, <4>1, <4>2
    <3> QED BY <3>1
  <2> HIDE DEF a
  <2>5. a \in {0} \union {t[i].n : i \in BytesIn(t)} /\ \A i \in BytesIn(t) : t[i].n <= a
    BY <2>3, <2>4
  <2>6. Largest(t) = a /\ Top(t, Largest(t))
    BY <1>4, <2>5, LargestIs
  <2> QED BY <1>1, <2>6 DEF a, CutSize
<1>11. CASE c = h /\ c # 1
  <2> DEFINE q == c - 1
  <2>1. q \in 1 .. Len(s) /\ q \in 1 .. c /\ q + 1 = h /\ q \in Int
    BY <1>3, <1>11
  <2>2. \A j \in 1 .. Len(s) : \E i \in Headers(s) : i <= j /\ j <= i + s[i].n
    BY DEF Chunked
  <2>3. PICK g \in Headers(s) : g <= q /\ q <= g + s[g].n
    BY <2>1, <2>2
  <2> DEFINE x == s[g].n
             y == base[g]
  <2>4. x = s[g].n /\ y = base[g] /\ q <= g + x
    BY <2>3
  <2> HIDE DEF x, y, q
  <2>5. InChunk(s, base, m, fin, g, x, y)
    BY <2>4, ChunkFacts
  <2>6. x \in Nat /\ y \in Nat /\ g \in 1 .. Len(s) /\ g < h
    BY <1>3, <2>1, <2>3, <2>5 DEF InChunk
  <2>7. g + x < h
    BY <2>4, <2>6, NoOverlap
  <2>8. g + x = q /\ g + x + 1 = h /\ g + x # Len(s)
    <3> DEFINE l == Len(s)
    <3>1. /\ g \in Int /\ x \in Int /\ q \in Int /\ h \in Int /\ l \in Int /\ h <= l
          /\ q + 1 = h /\ q <= g + x /\ g + x < h
      BY <1>3, <2>1, <2>4, <2>6, <2>7
    <3> HIDE DEF l
    <3>2. g + x = q /\ g + x + 1 = h /\ g + x # l
      BY <3>1
    <3> QED BY <3>2 DEF l
  <2>9. base[g + x + 1] = y + x /\ x > 0
    BY <2>5, <2>8 DEF InChunk
  <2>10. y + x = b /\ a = b
    BY <1>1, <1>3, <1>11, <2>8, <2>9
  <2>11. s[g + x] = Byte(y + x)
    <3>1. \A k \in 1 .. x : s[g + k] = Byte(y + k)
      BY <2>5 DEF InChunk
    <3>2. x \in 1 .. x
      BY <2>6, <2>9
    <3> QED BY <3>1, <3>2
  <2>12. s[q] = Byte(a)
    BY <2>8, <2>10, <2>11
  <2>13. ASSUME NEW i \in BytesIn(t) PROVE i <= q
    <3>1. i \in 1 .. c /\ s[i].tag = "byte"
      BY <1>5, <1>7
    <3>2. s[h].tag # "byte"
      BY <1>5
    <3>3. i # c
      BY <1>11, <3>1, <3>2
    <3> QED BY <1>11, <2>1, <3>1, <3>3
  <2> HIDE DEF a
  <2>14. Largest(t) = a /\ Top(t, Largest(t))
    BY <1>8, <2>1, <2>12, <2>13
  <2> QED BY <1>1, <2>14 DEF a, CutSize
<1> QED BY <1>3, <1>9, <1>10, <1>11

(* What is left when it was cut. *)
LEMMA CutBound ==
  ASSUME NEW s \in Seq(Symbols), NEW base, NEW m \in Nat, NEW fin, Chunked(s, base, m, fin),
         Carries(s, m), NEW c \in Nat, c > 0, c < Len(s), NEW t, CutOff(s, t, c)
  PROVE  Largest(t) <= m
<1>1. Len(s) \in Nat
  BY LenProperties
<1>2. PICK h \in Headers(s) : h <= c /\ c <= h + s[h].n
  <2>1. c \in 1 .. Len(s)
    BY <1>1
  <2> QED BY <2>1 DEF Chunked
<1>3. CutSize(t, base, c, h)
  BY <1>2, CutCarries
<1> DEFINE n == s[h].n
           b == base[h]
<1>4. n = s[h].n /\ b = base[h]
  OBVIOUS
<1>5. Largest(t) = b + (c - h) /\ c <= h + n
  BY <1>2, <1>3 DEF CutSize
<1> HIDE DEF n, b
<1>6. InChunk(s, base, m, fin, h, n, b)
  BY <1>4, ChunkFacts
<1>7. n \in Nat /\ b \in Nat /\ h \in 1 .. Len(s) /\ b + n <= m
  BY <1>6 DEF InChunk
<1> QED BY <1>1, <1>5, <1>7

(* A stream that was cut is chunked up to the cut. *)
LEMMA CutOpened ==
  ASSUME NEW s \in Seq(Symbols), NEW base, NEW m \in Nat, NEW fin, fin = TRUE,
         Chunked(s, base, m, fin),
         Carries(s, m), NEW c \in Nat, c > 0, c < Len(s), NEW t, CutOff(s, t, c),
         NEW new, new = [i \in Headers(t) |-> base[i]], NEW a, a = Largest(t)
  PROVE  Opened(t, new, a, TRUE)
<1>1. /\ t \in Seq(Symbols) /\ Len(t) = c /\ Headers(t) = {i \in Headers(s) : i <= c}
      /\ \A i \in 1 .. c : t[i] = s[i]
      /\ BytesIn(t) = {i \in BytesIn(s) : i <= c}
  BY DEF CutOff
<1>2. Len(s) \in Nat /\ base \in [Headers(s) -> Nat]
  BY LenProperties DEF Chunked
<1>3. /\ new \in [Headers(t) -> Nat]
      /\ \A i \in Headers(t) : new[i] = base[i] /\ i \in Headers(s) /\ i <= c
  BY <1>1, <1>2
<1>4. PICK h \in Headers(s) : h <= c /\ c <= h + s[h].n
  <2>1. c \in 1 .. Len(s)
    BY <1>2
  <2> QED BY <2>1 DEF Chunked
<1>5. CutSize(t, base, c, h)
  BY <1>4, CutCarries
<1>6. a = base[h] + (c - h) /\ Top(t, a)
  BY <1>5 DEF CutSize
<1>7. a \in Nat /\ \A j \in BytesIn(t) : t[j].n <= a
  BY <1>6 DEF Top
<1>8. ASSUME NEW i \in Headers(t) PROVE FrameOK(t, new, a, TRUE, i)
  <2> DEFINE n == s[i].n
             b == base[i]
             end == i + n
  <2>1. n = s[i].n /\ b = base[i] /\ i \in Headers(s) /\ i <= c /\ new[i] = b
    BY <1>3
  <2> HIDE DEF n, b
  <2>2. InChunk(s, base, m, fin, i, n, b)
    BY <2>1, ChunkFacts
  <2>3. /\ n \in Nat /\ b \in Nat /\ i \in 1 .. Len(s) /\ Len(s) \in Nat
        /\ end <= Len(s) /\ end \in Int
    BY <2>2 DEF InChunk
  <2>4. \A k \in 1 .. n : s[i + k] = Byte(b + k)
    BY <2>2 DEF InChunk
  <2>5. /\ \/ end = Len(s)
           \/ end + 1 \in Headers(s) /\ end + 1 <= Len(s) /\ base[end + 1] = b + n
        /\ s[i].tag = "full" <=> end = Len(s)
        /\ s[i].tag = "partial" \/ s[i].tag = "full"
        /\ s[i].tag = "partial" => n > 0
    BY <2>2 DEF InChunk
  <2>6. t[i] = s[i] /\ t[i].n = n
    BY <1>1, <2>1, <2>3
  <2>7. \A k \in 1 .. n : i + k <= Len(t) => t[i + k] = Byte(b + k)
    <3> SUFFICES ASSUME NEW k \in 1 .. n, i + k <= Len(t) PROVE t[i + k] = Byte(b + k)
      OBVIOUS
    <3>1. i + k \in 1 .. c
      BY <1>1, <2>3
    <3> QED BY <1>1, <2>4, <3>1
  <2> HIDE DEF end
  <2>8. end = i + n
    BY DEF end
  <2>9. CASE end < c
    <3>1. end + 1 \in Headers(s) /\ base[end + 1] = b + n /\ end + 1 <= c /\ s[i].tag = "partial" /\ n > 0
      BY <1>2, <2>3, <2>5, <2>9
    <3>2. end + 1 \in Headers(t) /\ new[end + 1] = b + n
      BY <1>1, <1>3, <3>1
    <3>3. b + Lesser(n, Len(t) - i) <= a
      <4>1. Lesser(n, Len(t) - i) = n
        BY <1>1, <2>3, <2>8, <2>9 DEF Lesser
      <4>2. s[end] = Byte(b + n) /\ end \in 1 .. c /\ b + n \in Nat
        BY <2>3, <2>4, <2>8, <2>9, <3>1
      <4>3. s[end].tag = "byte" /\ s[end].n = b + n
        BY <4>2, ByteIs
      <4>4. end \in BytesIn(t) /\ t[end].n = b + n
        <5>1. end \in BytesIn(s)
          BY <2>3, <4>2, <4>3, HeaderPlaces
        <5> QED BY <1>1, <4>2, <4>3, <5>1
      <4>6. b + n <= a
        BY <1>7, <4>4
      <4> QED BY <4>1, <4>6
    <3> QED BY <2>1, <2>6, <2>7, <2>8, <3>1, <3>2, <3>3 DEF FrameOK
  <2>10. CASE ~(end < c)
    <3>1. i = h
      <4>1. h \in Int /\ i \in Int /\ s[h].n \in Nat /\ n \in Nat
        BY <1>4, <2>3, HeaderPlaces, SymbolAt
      <4>2. CASE h < i
        <5>1. h + s[h].n < i
          BY <2>1, <4>2, NoOverlap
        <5> QED BY <1>4, <2>1, <4>1, <5>1
      <4>3. CASE i < h
        <5>1. i + s[i].n < h
          BY <1>4, <2>1, <4>3, NoOverlap
        <5> QED BY <1>4, <2>1, <2>8, <2>10, <4>1, <5>1
      <4> QED BY <4>1, <4>2, <4>3
    <3>2. a = b + Len(t) - i
      BY <1>1, <1>6, <1>7, <2>1, <2>3, <3>1
    <3>3. b + Lesser(n, Len(t) - i) <= a
      BY <1>1, <2>1, <2>3, <2>8, <2>10, <3>2 DEF Lesser
    <3>4. end >= Len(t) /\ (t[i].tag = "full" => end > Len(t) \/ n = 0)
      BY <1>1, <1>2, <2>3, <2>5, <2>6, <2>10
    <3> QED BY <2>1, <2>6, <2>7, <2>8, <3>2, <3>3, <3>4 DEF FrameOK
  <2> QED BY <2>9, <2>10
<1> QED BY <1>3, <1>8, <1>7 DEF Opened

(* No header of a stream that was cut is that of an empty last chunk. *)
LEMMA CutNoStray ==
  ASSUME NEW s \in Seq(Symbols), NEW base, NEW m \in Nat, NEW fin, fin = TRUE,
         Chunked(s, base, m, fin), NEW c \in Nat, c < Len(s), NEW t, CutOff(s, t, c)
  PROVE  ~Stray(t)
<1> SUFFICES ASSUME NEW i \in Headers(t), t[i].tag = "full", t[i].n = 0 PROVE FALSE
  BY DEF Stray
<1>1. i \in Headers(s) /\ i <= c /\ \A j \in 1 .. c : t[j] = s[j]
  BY DEF CutOff
<1> DEFINE n == s[i].n
           b == base[i]
<1>2. n = s[i].n /\ b = base[i]
  OBVIOUS
<1> HIDE DEF n, b
<1>3. InChunk(s, base, m, fin, i, n, b)
  BY <1>1, <1>2, ChunkFacts
<1>4. i \in 1 .. Len(s) /\ Len(s) \in Nat /\ (s[i].tag = "full" <=> i + n = Len(s))
  BY <1>3 DEF InChunk
<1>5. i \in 1 .. c
  BY <1>1, <1>4
<1>6. s[i].tag = "full" /\ n = 0
  BY <1>1, <1>2, <1>5
<1> QED BY <1>1, <1>4, <1>6

(* Where the stream was cut in front of a header, all chunks before are    *)
(* complete.                                                               *)
Complete(u) == \A i \in Headers(u) : u[i].tag = "partial" /\ i + u[i].n <= Len(u)

LEMMA CutComplete ==
  ASSUME NEW s \in Seq(Symbols), NEW base, NEW m \in Nat, NEW fin, fin = TRUE,
         Chunked(s, base, m, fin), NEW c \in Nat, c + 1 \in Headers(s), NEW u, CutOff(s, u, c)
  PROVE  Complete(u)
<1> SUFFICES ASSUME NEW i \in Headers(u)
             PROVE  u[i].tag = "partial" /\ i + u[i].n <= Len(u)
  BY DEF Complete
<1>1. i \in Headers(s) /\ i <= c /\ Len(u) = c /\ \A j \in 1 .. c : u[j] = s[j]
  BY DEF CutOff
<1> DEFINE n == s[i].n
           b == base[i]
           k == c + 1
<1>2. n = s[i].n /\ b = base[i] /\ k = c + 1 /\ k \in Headers(s)
  OBVIOUS
<1> HIDE DEF n, b, k
<1>3. InChunk(s, base, m, fin, i, n, b)
  BY <1>1, <1>2, ChunkFacts
<1>4. /\ i \in 1 .. Len(s) /\ Len(s) \in Nat /\ n \in Nat
      /\ s[i].tag = "full" => i + n = Len(s)
      /\ s[i].tag = "partial" \/ s[i].tag = "full"
  BY <1>3 DEF InChunk
<1>5. i < k /\ k <= Len(s)
  BY <1>1, <1>2, <1>4, HeaderPlaces
<1>6. i + n < k
  BY <1>1, <1>2, <1>5, NoOverlap
<1>7. u[i] = s[i]
  <2>1. i \in 1 .. c
    BY <1>1, <1>4
  <2> QED BY <1>1, <2>1
<1>8. i + n <= c /\ i + n # Len(s)
  BY <1>2, <1>4, <1>5, <1>6
<1> QED BY <1>1, <1>2, <1>4, <1>7, <1>8

(* The rest of a header changes nothing of what is before it. *)
LEMMA TornOpened ==
  ASSUME NEW u \in Seq(Symbols), NEW base, NEW a, Opened(u, base, a, TRUE), Complete(u),
         NEW t \in Seq(Symbols), Longer(u, t, "full", 0, 0),
         NEW new, new = [i \in Headers(t) |-> IF i = Len(u) + 1 THEN a ELSE base[i]]
  PROVE  Opened(t, new, a, TRUE)
<1> DEFINE l == Len(u)
           k == l + 1
<1>1. /\ l \in Nat /\ Len(t) = k /\ k = l + 1 /\ t[k].tag = "full" /\ t[k].n = 0
      /\ \A i \in 1 .. l : t[i] = u[i]
      /\ Headers(t) = Headers(u) \union {k}
  BY DEF Longer
<1>2. base \in [Headers(u) -> Nat] /\ a \in Nat
  BY DEF Opened
<1>3. Headers(u) \subseteq 1 .. l
  BY HeaderPlaces
<1>4. new = [i \in Headers(t) |-> IF i = k THEN a ELSE base[i]]
  OBVIOUS
<1> HIDE DEF l, k
<1>5. new[k] = a /\ \A i \in Headers(u) : new[i] = base[i] /\ i # k
  BY <1>1, <1>3, <1>4
<1>6. new \in [Headers(t) -> Nat]
  BY <1>1, <1>2, <1>4
<1>7. FrameOK(t, new, a, TRUE, k)
  <2> DEFINE n == t[k].n
             e == k + n
  <2>1. n = 0 /\ e = k /\ k \in Nat /\ Len(t) - k = 0
    BY <1>1
  <2>2. Lesser(n, Len(t) - k) = 0
    BY <2>1 DEF Lesser
  <2>3. a = a + Len(t) - k /\ a + Lesser(n, Len(t) - k) <= a
    BY <1>1, <1>2, <2>1, <2>2
  <2>4. \A j \in 1 .. n : FALSE
    BY <2>1
  <2>5. e >= Len(t)
    BY <1>1, <2>1
  <2> QED BY <1>5, <2>1, <2>3, <2>4, <2>5 DEF FrameOK
<1>8. ASSUME NEW i \in Headers(u) PROVE FrameOK(t, new, a, TRUE, i)
  <2> DEFINE n == u[i].n
             b == base[i]
             end == i + n
  <2>1. FrameOK(u, base, a, TRUE, i) /\ b \in Nat
    BY <1>2 DEF Opened
  <2>2. u[i].tag = "partial" /\ end <= l
    BY DEF Complete, l
  <2>3. i \in 1 .. l /\ n \in Nat
    <3>1. i \in 1 .. l
      BY <1>3
    <3> QED BY <3>1, SymbolAt DEF l
  <2>4. t[i] = u[i] /\ t[i].n = n /\ new[i] = b
    BY <1>1, <1>5, <2>3
  <2>5. \A j \in 1 .. n : i + j <= l => u[i + j] = Byte(b + j)
    BY <2>1 DEF FrameOK, l
  <2>6. b + Lesser(n, l - i) <= a
    BY <2>1 DEF FrameOK, l
  <2>7. \/ end + 1 \in Headers(u) /\ base[end + 1] = b + n
        \/ end >= l /\ a = b + l - i
    BY <2>1, <2>2 DEF FrameOK, l
  <2>8. end = i + n
    OBVIOUS
  <2> HIDE DEF n, b, end
  <2>9. ASSUME NEW j \in 1 .. n PROVE t[i + j] = Byte(b + j)
    <3>1. i + j \in 1 .. l /\ i + j <= l
      BY <1>1, <2>2, <2>3, <2>8
    <3> QED BY <1>1, <2>5, <3>1
  <2>10. b + Lesser(n, Len(t) - i) <= a
    <3>1. Lesser(n, Len(t) - i) = n /\ Lesser(n, l - i) = n
      BY <1>1, <2>2, <2>3, <2>8 DEF Lesser
    <3> QED BY <2>6, <3>1
  <2>11. end + 1 \in Headers(t) /\ new[end + 1] = b + n
    <3>1. CASE end + 1 \in Headers(u) /\ base[end + 1] = b + n
      BY <1>1, <1>5, <3>1
    <3>2. CASE end >= l /\ a = b + l - i
      <4>1. end + 1 = k /\ a = b + n
        BY <1>1, <2>1, <2>2, <2>3, <2>8, <3>2
      <4> QED BY <1>1, <1>5, <4>1
    <3> QED BY <2>7, <3>1, <3>2
  <2>12. i + t[i].n = end /\ t[i].tag = "partial"
    BY <2>2, <2>4, <2>8
  <2> QED BY <2>4, <2>9, <2>10, <2>11, <2>12 DEF FrameOK
<1>9. \A i \in Headers(t) : FrameOK(t, new, a, TRUE, i)
  BY <1>1, <1>7, <1>8
<1> QED BY <1>2, <1>6, <1>9 DEF Opened

LEMMA TornLargest ==
  ASSUME NEW u \in Seq(Symbols), Top(u, Largest(u)),
         NEW t \in Seq(Symbols), Longer(u, t, "full", 0, 0)
  PROVE  Largest(t) = Largest(u)
<1> DEFINE m == Largest(u)
<1>1. Len(u) \in Nat /\ \A i \in 1 .. Len(u) : t[i] = u[i]
  BY DEF Longer
<1>2. BytesIn(t) = BytesIn(u)
  <2>1. BytesIn(t) = BytesIn(u) \union (Len(u) + 2 .. Len(u) + 1 + 0)
    BY DEF Longer
  <2>2. \A i \in Len(u) + 2 .. Len(u) + 1 + 0 : FALSE
    BY <1>1
  <2> QED BY <2>1, <2>2
<1>3. \A i \in BytesIn(u) : t[i] = u[i]
  BY <1>1, HeaderPlaces
<1>4. m \in {0} \union {u[i].n : i \in BytesIn(u)} /\ \A i \in BytesIn(u) : u[i].n <= m
  BY DEF Top
<1> HIDE DEF m
<1>5. m \in {0} \union {t[i].n : i \in BytesIn(t)} /\ \A i \in BytesIn(t) : t[i].n <= m
  BY <1>2, <1>3, <1>4
<1> QED BY <1>5, LargestIs DEF m

(* A stream that was cut, in a header or elsewhere: how the reader finds   *)
(* it.                                                                     *)
CutStarts(s, t, new, base, a, m) ==
  /\ t \in Seq(Symbols) /\ Opened(t, new, a, TRUE) /\ a = Largest(t) /\ a <= m
  /\ 1 \in Headers(t) /\ t[1] = s[1] /\ new[1] = base[1]

LEMMA CutStartsAt ==
  ASSUME NEW s \in Seq(Symbols), NEW base, NEW m \in Nat, NEW fin, fin = TRUE,
         Chunked(s, base, m, fin), Carries(s, m), 1 \in Headers(s),
         NEW c \in Nat, c > 0, c < Len(s), NEW u, CutOff(s, u, c)
  PROVE  /\ \E new : CutStarts(s, u, new, base, Largest(u), m)
         /\ \A t \in Seq(Symbols) : c + 1 \in Headers(s) /\ Longer(u, t, "full", 0, 0) =>
              \E new : CutStarts(s, t, new, base, Largest(t), m)
<1> DEFINE a == Largest(u)
           new == [i \in Headers(u) |-> base[i]]
<1>1. a = Largest(u) /\ new = [i \in Headers(u) |-> base[i]]
  OBVIOUS
<1>2. /\ u \in Seq(Symbols) /\ Len(u) = c /\ Headers(u) = {i \in Headers(s) : i <= c}
      /\ \A i \in 1 .. c : u[i] = s[i]
  BY DEF CutOff
<1>3. 1 \in Headers(u) /\ u[1] = s[1] /\ new[1] = base[1]
  <2>1. 1 \in 1 .. c /\ 1 <= c
    OBVIOUS
  <2> QED BY <1>2, <2>1
<1> HIDE DEF a, new
<1>4. Opened(u, new, a, TRUE)
  BY <1>1, CutOpened
<1>5. a <= m
  BY <1>1, CutBound
<1>6. CutStarts(s, u, new, base, a, m)
  BY <1>1, <1>2, <1>3, <1>4, <1>5 DEF CutStarts
<1>7. ASSUME NEW t \in Seq(Symbols), c + 1 \in Headers(s), Longer(u, t, "full", 0, 0)
      PROVE  \E n : CutStarts(s, t, n, base, Largest(t), m)
  <2> DEFINE n == [i \in Headers(t) |-> IF i = Len(u) + 1 THEN a ELSE new[i]]
  <2>1. n = [i \in Headers(t) |-> IF i = Len(u) + 1 THEN a ELSE new[i]]
    OBVIOUS
  <2>2. Complete(u)
    BY <1>7, CutComplete
  <2>3. Opened(t, n, a, TRUE)
    BY <1>2, <1>4, <1>7, <2>1, <2>2, TornOpened
  <2>4. Top(u, a)
    <3>1. PICK h \in Headers(s) : h <= c /\ c <= h + s[h].n
      <4>1. c \in 1 .. Len(s)
        BY LenProperties
      <4> QED BY <4>1 DEF Chunked
    <3>2. CutSize(u, base, c, h)
      BY <3>1, CutCarries
    <3> QED BY <1>1, <3>2 DEF CutSize
  <2>5. Largest(t) = a
    BY <1>1, <1>2, <1>7, <2>4, TornLargest
  <2>6. /\ Headers(t) = Headers(u) \union {Len(u) + 1}
        /\ \A i \in 1 .. Len(u) : t[i] = u[i]
    BY <1>7 DEF Longer
  <2>7. 1 \in Headers(t) /\ t[1] = s[1] /\ n[1] = base[1]
    <3>1. 1 \in 1 .. Len(u) /\ 1 # Len(u) + 1
      BY <1>2
    <3> QED BY <1>3, <2>6, <3>1
  <2> HIDE DEF n
  <2>8. CutStarts(s, t, n, base, Largest(t), m)
    BY <1>5, <2>3, <2>5, <2>7 DEF CutStarts
  <2> QED BY <2>8
<1>8. \E n : CutStarts(s, u, n, base, Largest(u), m)
  BY <1>1, <1>6
<1> QED BY <1>7, <1>8

-----------------------------------------------------------------------------
(* The reader. *)

(* What the reader may take of the stream ends where its packet does: no   *)
(* other packet follows, or the caller takes nothing with data_consume()   *)
(* and data_consume_hard().                                                *)
NoOverrun == Following = 0 \/ Calls \subseteq {"data", "data_hard"}

Readers == [open : BOOLEAN, pos : Nat, partial_body_length : Nat, last : BOOLEAN,
            some : BOOLEAN, buffer : Seq(Symbols), cursor : Nat, hash_headers : BOOLEAN,
            cut : BOOLEAN]

LEMMA ReaderFields ==
  ASSUME NEW x \in Readers
  PROVE  /\ x.pos \in Nat /\ x.partial_body_length \in Nat /\ x.cursor \in Nat
         /\ x.buffer \in Seq(Symbols) /\ x.open \in BOOLEAN /\ x.last \in BOOLEAN
         /\ x.some \in BOOLEAN /\ x.hash_headers \in BOOLEAN /\ x.cut \in BOOLEAN
BY DEF Readers

(* The reader is in the chunk at h, and has g bytes of the body behind it. *)
ReaderIn(s, base, h, x, g) ==
  /\ h \in Headers(s) /\ h <= x.pos /\ x.pos <= Len(s)
  /\ x.pos + x.partial_body_length = h + s[h].n
  /\ x.last <=> s[h].tag = "full"
  /\ g = base[h] + (x.pos - h)

(* There are d bytes ahead in the chunk, of a in the stream. *)
InBody(s, x, a, g, d) ==
  /\ d \in Nat /\ g \in Nat /\ a \in Nat /\ g + d <= a
  /\ Len(s) \in Nat /\ d <= x.partial_body_length /\ x.pos + d <= Len(s)
  /\ \A k \in 1 .. d : s[x.pos + k] = Byte(g + k)
  /\ d < x.partial_body_length => x.cut /\ g + d = a /\ x.pos + d = Len(s)
  /\ x.last /\ d = x.partial_body_length =>
       /\ g + d = a
       /\ IF x.cut THEN Stray(s) /\ x.pos + d = Len(s) ELSE x.pos + d + Following = Len(s)

(* What lies in front of the reader in its chunk: the next d bytes of the  *)
(* body.                                                                   *)
LEMMA BodyIs ==
  ASSUME NEW s \in Seq(Symbols), NEW x \in Readers, NEW base, NEW a, NEW h, NEW g, NEW d,
         Opened(s, base, a, x.cut), ReaderIn(s, base, h, x, g),
         d = Lesser(x.partial_body_length, Len(s) - x.pos)
  PROVE  InBody(s, x, a, g, d)
<1> DEFINE n == s[h].n
           b == base[h]
           p == x.pos
           q == x.partial_body_length
           l == Len(s)
           end == h + n
<1>1. /\ h \in Headers(s) /\ h <= p /\ p <= l /\ p + q = end /\ g = b + (p - h)
      /\ x.last <=> s[h].tag = "full"
  BY DEF ReaderIn
<1>2. /\ p \in Nat /\ q \in Nat /\ x.cut \in BOOLEAN /\ x.last \in BOOLEAN
  BY ReaderFields
<1>3. h \in 1 .. l /\ l \in Nat /\ (s[h].tag = "partial" \/ s[h].tag = "full")
      /\ Headers(s) \subseteq 1 .. l
  BY <1>1, HeaderPlaces
<1>4. n \in Nat
  BY <1>3, SymbolAt
<1>5. a \in Nat /\ b \in Nat /\ FrameOK(s, base, a, x.cut, h)
  BY <1>1 DEF Opened
<1>6. \A k \in 1 .. n : h + k <= l => s[h + k] = Byte(b + k)
  BY <1>5 DEF FrameOK
<1>7. b + Lesser(n, l - h) <= a
  BY <1>5 DEF FrameOK
<1>8. \/ s[h].tag = "partial" /\ end + 1 \in Headers(s)
      \/ s[h].tag = "full" /\ ~x.cut /\ end + Following = l /\ b + n = a
      \/ x.cut /\ end >= l /\ a = b + l - h /\ (s[h].tag = "full" => end > l \/ n = 0)
  BY <1>5 DEF FrameOK
<1>18. s[h].tag = "full" /\ n = 0 => Stray(s)
  BY <1>1 DEF Stray
<1>9. d = Lesser(q, l - p)
  OBVIOUS
<1> HIDE DEF n, b, p, q, l, end
<1>10. end = h + n
  BY DEF end
<1>11. /\ d \in Nat /\ g \in Nat /\ d <= q /\ p + d <= l /\ (d < q => p + d = l)
  BY <1>1, <1>2, <1>3, <1>4, <1>5, <1>9 DEF Lesser
<1>12. g + d <= a
  <2>1. g + d = b + Lesser(n, l - h)
    BY <1>1, <1>2, <1>3, <1>4, <1>5, <1>9, <1>10 DEF Lesser
  <2> QED BY <1>7, <2>1
<1>13. ASSUME NEW k \in 1 .. d PROVE s[p + k] = Byte(g + k)
  <2> DEFINE j == p + k - h
  <2>1. j \in 1 .. n /\ h + j = p + k /\ h + j <= l /\ b + j = g + k
    BY <1>1, <1>2, <1>3, <1>4, <1>5, <1>10, <1>11
  <2> HIDE DEF j
  <2>2. s[h + j] = Byte(b + j)
    BY <1>6, <2>1
  <2> QED BY <2>1, <2>2
<1>14. d < q => x.cut /\ g + d = a /\ p + d = l
  <2> SUFFICES ASSUME d < q PROVE x.cut /\ g + d = a /\ p + d = l
    OBVIOUS
  <2>1. p + d = l /\ end > l
    BY <1>1, <1>2, <1>3, <1>4, <1>10, <1>11
  <2>2. ~(end + 1 \in Headers(s))
    BY <1>3, <1>4, <1>10, <2>1
  <2>3. end + Following # l
    BY <1>3, <1>4, <1>10, <2>1, Limits
  <2>4. x.cut /\ a = b + l - h
    BY <1>8, <2>2, <2>3
  <2>5. g + d = a
    BY <1>1, <1>2, <1>3, <1>4, <1>5, <1>11, <2>1, <2>4
  <2> QED BY <2>1, <2>4, <2>5
<1>15. x.last /\ d = q =>
         /\ g + d = a
         /\ IF x.cut THEN Stray(s) /\ p + d = l ELSE p + d + Following = l
  <2> SUFFICES ASSUME x.last, d = q
               PROVE  /\ g + d = a
                      /\ IF x.cut THEN Stray(s) /\ p + d = l ELSE p + d + Following = l
    OBVIOUS
  <2>1. s[h].tag = "full" /\ s[h].tag # "partial"
    BY <1>1
  <2>2. p + d = end /\ end <= l
    BY <1>1, <1>2, <1>3, <1>4, <1>10, <1>11
  <2>3. \/ ~x.cut /\ end + Following = l /\ b + n = a
        \/ x.cut /\ end >= l /\ a = b + l - h /\ n = 0
    BY <1>3, <1>4, <1>8, <1>10, <2>1, <2>2
  <2>4. g + d = b + n
    <3>1. h \in Int /\ n \in Int /\ b \in Int /\ p \in Int /\ d \in Int
      BY <1>2, <1>3, <1>4, <1>5, <1>11
    <3>2. g = b + (p - h) /\ p + d = h + n
      BY <1>1, <1>10, <2>2
    <3> QED BY <3>1, <3>2
  <2>5. CASE ~x.cut
    BY <2>2, <2>3, <2>4, <2>5
  <2>6. CASE x.cut
    <3>1. end >= l /\ a = b + l - h /\ n = 0
      BY <2>3, <2>6
    <3>2. end = l /\ b + n = a
      BY <1>3, <1>4, <1>5, <1>10, <2>2, <3>1
    <3> QED BY <1>18, <2>1, <2>2, <2>4, <2>6, <3>1, <3>2
  <2> QED BY <2>5, <2>6
<1>16. \A k \in 1 .. d : s[p + k] = Byte(g + k)
  BY <1>13
<1>17. p = x.pos /\ q = x.partial_body_length /\ l = Len(s)
  BY DEF p, q, l
<1> QED BY <1>3, <1>5, <1>11, <1>12, <1>14, <1>15, <1>16, <1>17 DEF InBody

(* The bytes ahead. *)
LEMMA ReadIs ==
  ASSUME NEW s \in Seq(Symbols), NEW x \in Readers, NEW a, NEW g, NEW d,
         InBody(s, x, a, g, d), NEW n \in Nat, n <= x.partial_body_length,
         NEW e, e = Lesser(n, d), NEW t, t = Take(Drop(s, x.pos), n)
  PROVE  t = Bytes(g + 1, g + e) /\ e \in Nat /\ e <= n /\ e <= d
<1> DEFINE p == x.pos
           u == Drop(s, p)
           l == Len(s)
           i == g + 1
           j == g + e
<1>1. p \in Nat /\ x.partial_body_length \in Nat
  BY ReaderFields
<1>2. /\ d \in Nat /\ g \in Nat /\ l \in Nat /\ p + d <= l /\ d <= x.partial_body_length
      /\ (d < x.partial_body_length => p + d = l)
  BY DEF InBody
<1>3. \A k \in 1 .. d : s[p + k] = Byte(g + k)
  BY DEF InBody
<1> HIDE DEF p
<1>4. e \in Nat /\ e <= n /\ e <= d
  BY <1>2 DEF Lesser
<1>5. p <= l
  BY <1>1, <1>2
<1>6. u \in Seq(Symbols) /\ Len(u) = l - p /\ \A k \in 1 .. l - p : u[k] = s[p + k]
  BY <1>1, <1>5, DropIs
<1>7. t = Take(u, n)
  BY DEF p
<1> HIDE DEF u, l
<1>8. /\ Take(u, n) \in Seq(Symbols) /\ Len(Take(u, n)) = Lesser(n, Len(u))
      /\ \A k \in 1 .. Lesser(n, Len(u)) : Take(u, n)[k] = u[k]
  BY <1>6, TakeIs
<1>9. Lesser(n, Len(u)) = e /\ e <= l - p
  BY <1>1, <1>2, <1>4, <1>5, <1>6 DEF Lesser
<1>10. i \in Nat /\ i > 0 /\ j \in Int /\ i - 1 <= j /\ j - i + 1 = e
  BY <1>2, <1>4
<1>11. t \in Seq(Symbols) /\ Len(t) = j - i + 1
  BY <1>7, <1>8, <1>9, <1>10
<1>12. ASSUME NEW k \in 1 .. j - i + 1 PROVE t[k] = Byte(i + k - 1)
  <2>1. k \in 1 .. e /\ k \in 1 .. d /\ k \in 1 .. l - p
    BY <1>1, <1>2, <1>4, <1>9, <1>10
  <2>2. t[k] = s[p + k]
    BY <1>6, <1>7, <1>8, <1>9, <2>1
  <2>3. i + k - 1 = g + k
    BY <1>2, <2>1
  <2> QED BY <1>3, <2>1, <2>2, <2>3
<1> HIDE DEF i, j
<1>13. t = Bytes(i, j)
  BY <1>10, <1>11, <1>12, BytesAre
<1> QED BY <1>4, <1>13 DEF i, j

-----------------------------------------------------------------------------
(* The steps of the contract.  The caller has consumed the first l bytes   *)
(* of the a that there are.                                                *)

Consumed(l, a) == l \in Nat /\ a \in Nat /\ l <= a /\ out = Bytes(1, l) /\ Own = Bytes(1, a)

(* The abstract stream in numbers. *)
LEMMA AheadIs ==
  ASSUME NEW l, NEW a, Consumed(l, a)
  PROVE  /\ Abstract!Ahead = Bytes(l + 1, a) /\ Abstract!Ahead \in Seq(Symbols)
         /\ Len(Abstract!Ahead) = a - l /\ Len(out) = l /\ out \in Seq(Symbols)
<1> DEFINE o == 1
           i == l + 1
           u == Own
<1>1. /\ o \in Nat /\ o > 0 /\ o = 1 /\ l \in Int /\ a \in Int /\ o - 1 <= l /\ o - 1 <= a
      /\ l - o + 1 = l /\ a - o + 1 = a /\ l \in Nat /\ i = o + l /\ a - i + 1 = a - l
      /\ l <= a - o + 1
  BY DEF Consumed
<1>2. out = Bytes(o, l) /\ u = Bytes(o, a)
  BY DEF Consumed
<1> HIDE DEF o, i, u
<1>3. out \in Seq(Symbols) /\ Len(out) = l
  BY <1>1, <1>2, RunIs
<1>4. u \in Seq(Symbols) /\ Len(u) = a
  BY <1>1, <1>2, RunIs
<1>5. Drop(u, l) = Bytes(i, a) /\ i \in Nat /\ i > 0 /\ i - 1 <= a
  BY <1>1, <1>2, DropRun
<1>6. Abstract!Ahead = Drop(u, l)
  BY <1>3, <1>4 DEF Abstract!Ahead, Drop, u
<1>7. Drop(u, l) \in Seq(Symbols) /\ Len(Drop(u, l)) = a - l
  <2>1. Bytes(i, a) \in Seq(Symbols) /\ Len(Bytes(i, a)) = a - i + 1
    BY <1>1, <1>5, BytesSeq
  <2> QED BY <1>1, <1>5, <2>1
<1> QED BY <1>3, <1>5, <1>6, <1>7 DEF i

LEMMA AheadTake ==
  ASSUME NEW l, NEW a, Consumed(l, a), NEW n \in Nat, l + n <= a
  PROVE  /\ SubSeq(Abstract!Ahead, 1, n) = Bytes(l + 1, l + n)
         /\ out \o Bytes(l + 1, l + n) = Bytes(1, l + n)
<1> DEFINE i == l + 1
           e == l + n
           u == Abstract!Ahead
           o == 1
<1>1. /\ l \in Nat /\ a \in Int /\ i \in Nat /\ i > 0 /\ e \in Int /\ i - 1 <= a
      /\ (n <= a - i + 1 => e = i - 1 + n) /\ (n >= a - i + 1 => e = a)
      /\ Lesser(n, a - l) = n
      /\ o \in Nat /\ o > 0 /\ o = 1 /\ l \in Int /\ o - 1 <= l /\ l <= e /\ i = l + 1
  BY DEF Consumed, Lesser
<1>2. u = Bytes(i, a) /\ Len(u) = a - l
  BY AheadIs
<1>3. out = Bytes(o, l)
  BY DEF Consumed
<1> HIDE DEF i, e, u, o
<1>4. Take(u, n) = Bytes(i, e)
  BY <1>1, <1>2, TakeRun
<1>5. Take(u, n) = SubSeq(u, 1, n)
  BY <1>1, <1>2 DEF Take
<1>6. Bytes(o, l) \o Bytes(l + 1, e) = Bytes(o, e)
  BY <1>1, BytesConcat
<1>7. out \o Bytes(i, e) = Bytes(o, e)
  BY <1>1, <1>3, <1>6
<1> QED BY <1>4, <1>5, <1>7 DEF i, e, u, o

(* A call that returns n bytes, of which took are consumed. *)
Answers(l, a, n, amount, took) ==
  /\ n \in Nat /\ amount \in Nat /\ took \in Nat /\ seen \in Nat
  /\ l + n <= a /\ amount > 0 /\ seen <= n
  /\ took = 0 \/ took = Lesser(amount, n)
  /\ n >= amount \/ l + n = a

Answered(l, n, took) == out' = Bytes(1, l + took) /\ seen' = n - took /\ took \in Nat /\ took <= n

(* A call that returns the next n bytes is an Answer of the contract. *)
LEMMA AnswerStep ==
  ASSUME NEW l, NEW a, Consumed(l, a), NEW n, NEW amount, NEW took,
         Answers(l, a, n, amount, took), Own' = Own, NEW call,
         NEW data, data = Bytes(l + 1, l + n), NEW err, err = FALSE,
         Return(call, amount, err, data, took)
  PROVE  Abstract!Next /\ Answered(l, n, took)
<1> DEFINE u == Abstract!Ahead
           i == l + 1
           j == l + n
<1>1. /\ l \in Nat /\ a \in Nat /\ l <= a /\ n \in Nat /\ amount \in Nat /\ took \in Nat
      /\ seen \in Nat /\ l + n <= a /\ amount > 0 /\ seen <= n
      /\ (took = 0 \/ took = Lesser(amount, n)) /\ (n >= amount \/ l + n = a)
      /\ i \in Nat /\ i > 0 /\ j \in Int /\ i - 1 <= j /\ j - i + 1 = n
  BY DEF Consumed, Answers
<1>2. took <= n /\ l + took <= a
  BY <1>1 DEF Lesser
<1>3. data = Bytes(i, j)
  OBVIOUS
<1> HIDE DEF u, i, j
<1>4. data \in Seq(Symbols) /\ Len(data) = n
  BY <1>1, <1>3, RunIs
<1>5. u = Bytes(l + 1, a) /\ u \in Seq(Symbols) /\ Len(u) = a - l
  BY AheadIs DEF u
<1>6. /\ result' = [call |-> call, amount |-> amount, err |-> err, data |-> data]
      /\ out' = out \o Take(data, took)
      /\ seen' = IF took > 0 THEN Len(data) - Lesser(took, Len(data))
                 ELSE IF Len(data) > seen THEN Len(data) ELSE seen
  BY DEF Return
<1>7. seen' = n - took
  BY <1>1, <1>2, <1>4, <1>6 DEF Lesser
<1>8. Take(data, took) = Bytes(l + 1, l + took)
  <2> DEFINE e == l + took
  <2>1. e \in Int /\ (took <= j - i + 1 => e = i - 1 + took) /\ (took >= j - i + 1 => e = j) /\ i = l + 1
    BY <1>1, <1>2 DEF i, j
  <2> HIDE DEF e
  <2>2. Take(data, took) = Bytes(i, e)
    BY <1>1, <1>3, <2>1, TakeRun
  <2> QED BY <2>1, <2>2 DEF e
<1>9. SubSeq(u, 1, took) = Bytes(l + 1, l + took) /\ out \o Bytes(l + 1, l + took) = Bytes(1, l + took)
  BY <1>1, <1>2, AheadTake DEF u
<1>10. SubSeq(u, 1, n) = data
  BY <1>1, AheadTake DEF u
<1>11. out' = out \o SubSeq(u, 1, took) /\ out' = Bytes(1, l + took)
  BY <1>6, <1>8, <1>9
<1>12. Abstract!IsPrefix(data, u)
  <2>1. SubSeq(data, 1, n) = data
    <3>1. SubSeq(data, 1, Len(data)) = data
      BY <1>4, SubSeqFull
    <3> QED BY <1>4, <3>1
  <2> QED BY <1>1, <1>4, <1>5, <1>10, <2>1 DEF Abstract!IsPrefix
<1>13. n >= amount \/ data = u
  BY <1>1, <1>5
<1>14. result'.err = FALSE /\ result'.data = data /\ result'.amount = amount
  BY <1>6
<1>15. seen' + took >= seen /\ seen' + took <= Len(u)
  BY <1>1, <1>2, <1>5, <1>7
<1>16. Abstract!Answer(took)
  BY <1>2, <1>4, <1>11, <1>12, <1>13, <1>14, <1>15 DEF Abstract!Answer, u
<1>17. took \in 0 .. Len(Abstract!Ahead)
  BY <1>1, <1>2, <1>5 DEF u
<1>18. Abstract!Next
  BY <1>16, <1>17 DEF Abstract!Next
<1> QED BY <1>1, <1>2, <1>7, <1>11, <1>18 DEF Answered

(* An error for more than was shown is a Fail of the contract. *)
LEMMA FailStep ==
  ASSUME NEW l, NEW a, Consumed(l, a), Own' = Own, NEW amount \in Nat,
         seen \in Nat, seen < amount, l + seen <= a, NEW call, NEW took, took = 0,
         NEW data, data = <<>>, NEW err, err = TRUE,
         Return(call, amount, err, data, took)
  PROVE  Abstract!Next /\ out' = out /\ seen' = seen
<1>1. /\ result' = [call |-> call, amount |-> amount, err |-> err, data |-> data]
      /\ out' = out \o Take(data, took) /\ seen' = seen
  BY DEF Return
<1>2. Take(data, took) = <<>>
  <2>1. data \in Seq(Symbols) /\ Len(data) = 0 /\ took \in Nat
    BY EmptySeq
  <2>2. Take(data, took) \in Seq(Symbols) /\ Len(Take(data, took)) = Lesser(took, Len(data))
    BY <2>1, TakeIs
  <2>3. Len(Take(data, took)) = 0
    BY <2>1, <2>2 DEF Lesser
  <2> QED BY <2>2, <2>3, EmptySeq
<1>3. Len(Abstract!Ahead) = a - l /\ out \in Seq(Symbols) /\ l \in Nat /\ a \in Nat
  BY AheadIs DEF Consumed
<1>4. out' = out
  BY <1>1, <1>2, <1>3, ConcatEmptySeq
<1>5. result'.err = TRUE /\ result'.amount = amount
  BY <1>1
<1>6. seen' >= seen /\ seen' <= Len(Abstract!Ahead) /\ amount > seen
  BY <1>1, <1>3
<1>7. Abstract!Fail
  BY <1>4, <1>5, <1>6 DEF Abstract!Fail
<1> QED BY <1>1, <1>4, <1>7 DEF Abstract!Next

(* consume() of what was shown is a Consume of the contract. *)
LEMMA ConsumeStep ==
  ASSUME NEW l, NEW a, Consumed(l, a), Own' = Own, NEW amount \in Nat,
         seen \in Nat, amount <= seen, l + seen <= a,
         result' = NoResult, seen' = seen - amount, out' = out \o Bytes(l + 1, l + amount)
  PROVE  Abstract!Next /\ out' = Bytes(1, l + amount)
<1>1. Len(Abstract!Ahead) = a - l /\ l \in Nat /\ a \in Nat
  BY AheadIs DEF Consumed
<1>2. l + amount <= a
  BY <1>1
<1>3. /\ SubSeq(Abstract!Ahead, 1, amount) = Bytes(l + 1, l + amount)
      /\ out \o Bytes(l + 1, l + amount) = Bytes(1, l + amount)
  BY <1>2, AheadTake
<1>4. result'.amount = 0 /\ result'.err = FALSE /\ result'.data = <<>>
  BY DEF NoResult
<1>5. Abstract!Consume(amount)
  BY <1>3, <1>4 DEF Abstract!Consume, Abstract!Silent
<1>6. amount \in 0 .. Len(Abstract!Ahead)
  BY <1>1, <1>2
<1> QED BY <1>3, <1>5, <1>6 DEF Abstract!Next

-----------------------------------------------------------------------------
(* The invariant of the reader. *)

Fills == [on : BOOLEAN, amount : Nat, hard : BOOLEAN, consume : BOOLEAN, buf : Seq(Symbols)]

Shape(x, f) ==
  /\ x \in Readers /\ f \in Fills
  /\ x.cursor <= Len(x.buffer)
  /\ ~x.some => x.buffer = <<>> /\ x.cursor = 0
  /\ f.on => Len(f.buf) < f.amount

(* What has been read of the stream, and not been consumed. *)
Held(x, f) == IF f.on THEN f.buf ELSE Drop(x.buffer, x.cursor)

(* How much the caller may have been shown, with d bytes ahead. *)
InView(x, f, d) ==
  IF f.on THEN Len(f.buf) + Lesser(d, f.amount - Len(f.buf))
  ELSE IF x.some THEN Len(x.buffer) - x.cursor ELSE d

(* The first l bytes were consumed, g were read and, if that is all that   *)
(* is, hashed.                                                             *)
Holding(x, f, o, hs, sn, l, g, d) ==
  /\ l \in Nat /\ l <= g
  /\ o = Bytes(1, l) /\ Held(x, f) = Bytes(l + 1, g)
  /\ sn \in Nat /\ sn <= InView(x, f, d)
  /\ hs \in Seq(Symbols)
  /\ ~x.hash_headers => hs = Bytes(1, g)

(* Where the reader is in the stream. *)
Spot(s, base, a, h, g, d, x) ==
  /\ Opened(s, base, a, x.cut) /\ ReaderIn(s, base, h, x, g)
  /\ d = Lesser(x.partial_body_length, Len(s) - x.pos)

Reads(s, base, a, h, g, d, l, x, f, o, hs, sn) ==
  Spot(s, base, a, h, g, d, x) /\ Shape(x, f) /\ Holding(x, f, o, hs, sn, l, g, d)

Avail(x) == IF x.cut THEN Received ELSE w.position

(* The end is only reported where it is. *)
EndOK(x, o, res) ==
  res.call \in {"data", "data_consume"} /\ ~res.err /\ res.data = <<>> =>
    x.cut \/ (x.last /\ x.partial_body_length = 0 /\ o = Written)

Fresh ==
  /\ fill = NoFill /\ out = <<>> /\ result = NoResult /\ hashed = <<>> /\ seen = 0
  /\ r.pos = 0 /\ r.last = FALSE /\ r.some = FALSE

RInv ==
  /\ Shape(r, fill)
  /\ ~r.open => Fresh
  /\ r.open =>
       /\ \E base, h, g, d, l :
            Reads(stream, base, Avail(r), h, g, d, l, r, fill, out, hashed, seen)
       /\ EndOK(r, out, result)
       /\ Avail(r) <= w.position
       /\ r.cut /\ Stray(stream) => torn # 0

LEMMA FillFields ==
  ASSUME NEW f \in Fills
  PROVE  /\ f.on \in BOOLEAN /\ f.amount \in Nat /\ f.hard \in BOOLEAN /\ f.consume \in BOOLEAN
         /\ f.buf \in Seq(Symbols)
BY DEF Fills

(* What the caller may expect: the body, or what was not cut off. *)
LEMMA OwnIs ==
  ASSUME r.open = TRUE
  PROVE  Own = Bytes(1, Avail(r))
BY DEF Own, Avail, Written

LEMMA OwnSame ==
  ASSUME w' = w, stream' = stream, r'.open = r.open, r'.cut = r.cut
  PROVE  Own' = Own /\ Avail(r)' = Avail(r)
<1>1. Received' = Received
  BY DEF Received, BytesIn
<1> QED BY <1>1 DEF Own, Avail, Written

(* A step of the reader keeps RInv. *)
LEMMA ReaderInto ==
  ASSUME RInv, r.open = TRUE, w' = w, stream' = stream, torn' = torn,
         NEW y, r' = y, y.open = r.open, y.cut = r.cut,
         NEW f, fill' = f, NEW o, out' = o, NEW hs, hashed' = hs, NEW sn, seen' = sn,
         NEW res, result' = res,
         NEW base, NEW h, NEW g, NEW d, NEW l,
         Reads(stream, base, Avail(r), h, g, d, l, y, f, o, hs, sn), EndOK(y, o, res)
  PROVE  RInv'
<1> DEFINE a == Avail(r)
           s == stream
<1>1. Avail(r)' = a
  BY OwnSame
<1>2. Reads(s, base, a, h, g, d, l, y, f, o, hs, sn) /\ stream' = s
  OBVIOUS
<1>3. Shape(y, f) /\ y.open = TRUE
  BY <1>2 DEF Reads
<1> HIDE DEF a, s
<1>4. \E b1, h1, g1, d1, l1 : Reads(s, b1, a, h1, g1, d1, l1, y, f, o, hs, sn)
  BY <1>2
<1>5. EndOK(r, out, result)'
  BY DEF EndOK, Written
<1>6. Shape(r, fill)'
  BY <1>3 DEF Shape
<1>7. (\E b1, h1, g1, d1, l1 :
         Reads(stream, b1, Avail(r), h1, g1, d1, l1, r, fill, out, hashed, seen))'
  BY <1>1, <1>2, <1>4
<1>8. (Avail(r) <= w.position)'
  BY <1>1 DEF RInv, a
<1>9. (r.cut /\ Stray(stream) => torn # 0)'
  <2>1. r.cut /\ Stray(stream) => torn # 0
    BY DEF RInv
  <2> QED BY <2>1 DEF Stray
<1> QED BY <1>3, <1>5, <1>6, <1>7, <1>8, <1>9 DEF RInv

(* y is x, perhaps with an exhausted buffer put away. *)
Tidied(x, y) ==
  /\ y \in Readers /\ y.open = x.open /\ y.cut = x.cut /\ y.pos = x.pos
  /\ y.partial_body_length = x.partial_body_length /\ y.last = x.last
  /\ y.hash_headers = x.hash_headers
  /\ \/ /\ x.some /\ Len(x.buffer) = x.cursor
        /\ y.some = FALSE /\ y.buffer = <<>> /\ y.cursor = 0
     \/ y = x /\ ~(x.some /\ Len(x.buffer) = x.cursor)

(* Tidy() only forgets a buffer that is used up. *)
LEMMA TidyFields ==
  ASSUME NEW x \in Readers, NEW y, y = Tidy(x)
  PROVE  Tidied(x, y)
<1>1. CASE x.some /\ Len(x.buffer) = x.cursor
  <2> DEFINE e == <<>>
             z == 0
             n == FALSE
  <2>1. e \in Seq(Symbols) /\ e = <<>> /\ z \in Nat /\ z = 0 /\ n \in BOOLEAN /\ n = FALSE
    BY EmptySeq
  <2>2. y = [x EXCEPT !.some = n, !.buffer = e, !.cursor = z]
    BY <1>1 DEF Tidy
  <2> HIDE DEF e, z, n
  <2>3. y \in Readers
    BY <2>1, <2>2 DEF Readers
  <2>4. /\ y.open = x.open /\ y.cut = x.cut /\ y.pos = x.pos
        /\ y.partial_body_length = x.partial_body_length /\ y.last = x.last
        /\ y.hash_headers = x.hash_headers
    BY <2>2 DEF Readers
  <2>5. y.some = n /\ y.buffer = e /\ y.cursor = z
    BY <2>2 DEF Readers
  <2> QED BY <1>1, <2>1, <2>3, <2>4, <2>5 DEF Tidied
<1>2. CASE ~(x.some /\ Len(x.buffer) = x.cursor)
  BY <1>2 DEF Tidy, Tidied
<1> QED BY <1>1, <1>2

(* Putting an exhausted buffer away changes nothing. *)
LEMMA TidyReads ==
  ASSUME NEW s \in Seq(Symbols), NEW base, NEW a, NEW h, NEW g, NEW d, NEW l,
         NEW x, NEW f, NEW o, NEW hs, NEW sn,
         Reads(s, base, a, h, g, d, l, x, f, o, hs, sn), ~f.on, NEW y, y = Tidy(x)
  PROVE  /\ Reads(s, base, a, h, g, d, l, y, f, o, hs, sn)
         /\ y.open = x.open /\ y.cut = x.cut /\ y.last = x.last
         /\ y.partial_body_length = x.partial_body_length
         /\ ~y.some => l = g
<1>1. x \in Readers /\ f \in Fills /\ Shape(x, f)
  BY DEF Reads, Shape
<1> DEFINE full == x.some /\ Len(x.buffer) = x.cursor
<1>2. /\ y \in Readers /\ y.open = x.open /\ y.cut = x.cut /\ y.pos = x.pos
      /\ y.partial_body_length = x.partial_body_length /\ y.last = x.last
      /\ y.hash_headers = x.hash_headers
      /\ full => y.some = FALSE /\ y.buffer = <<>> /\ y.cursor = 0
      /\ ~full => y = x
  <2>1. Tidied(x, y)
    BY <1>1, TidyFields
  <2> QED BY <2>1 DEF Tidied
<1>3. /\ x.cursor \in Nat /\ x.buffer \in Seq(Symbols) /\ Len(x.buffer) \in Nat
      /\ x.cursor <= Len(x.buffer) /\ (~x.some => x.buffer = <<>> /\ x.cursor = 0)
      /\ x.partial_body_length \in Nat /\ x.pos \in Nat
  BY <1>1, ReaderFields, LenProperties DEF Shape
<1>4. Spot(s, base, a, h, g, d, y)
  BY <1>2 DEF Reads, Spot, ReaderIn
<1>5. InBody(s, x, a, g, d)
  BY <1>1, BodyIs DEF Reads, Spot
<1>6. d \in Nat /\ g \in Nat
  BY <1>5 DEF InBody
<1>7. /\ l \in Nat /\ l <= g /\ o = Bytes(1, l) /\ Drop(x.buffer, x.cursor) = Bytes(l + 1, g)
      /\ sn \in Nat /\ sn <= (IF x.some THEN Len(x.buffer) - x.cursor ELSE d)
      /\ hs \in Seq(Symbols) /\ (~x.hash_headers => hs = Bytes(1, g))
  BY DEF Reads, Holding, Held, InView
<1>8. Len(x.buffer) - x.cursor = g - l
  <2> DEFINE i == l + 1
             t == Drop(x.buffer, x.cursor)
  <2>1. i \in Nat /\ i > 0 /\ g \in Int /\ i - 1 <= g /\ g - i + 1 = g - l
    BY <1>6, <1>7
  <2>2. t = Bytes(i, g)
    BY <1>7
  <2>3. Len(t) = Len(x.buffer) - x.cursor
    BY <1>3, DropIs
  <2> HIDE DEF i, t
  <2>4. Len(t) = g - i + 1
    BY <2>1, <2>2, RunIs
  <2> QED BY <2>1, <2>3, <2>4
<1>9. CASE full
  <2>1. y.some = FALSE /\ y.buffer = <<>> /\ y.cursor = 0 /\ g = l
    BY <1>2, <1>3, <1>6, <1>7, <1>8, <1>9
  <2>2. Len(<<>>) = 0 /\ <<>> \in Seq(Symbols)
    BY EmptySeq
  <2>3. Drop(y.buffer, y.cursor) = Bytes(l + 1, g)
    <3> DEFINE e == <<>>
               z == 0
               i == l + 1
    <3>1. e \in Seq(Symbols) /\ z \in Nat /\ z = 0 /\ Len(e) = 0 /\ z <= Len(e)
      BY <2>2
    <3>2. i \in Nat /\ i > 0 /\ g = i - 1
      BY <1>6, <1>7, <2>1
    <3> HIDE DEF e, z, i
    <3>3. Drop(e, z) \in Seq(Symbols) /\ Len(Drop(e, z)) = Len(e) - z
      BY <3>1, DropIs
    <3>4. Drop(e, z) = <<>>
      <4>1. Len(Drop(e, z)) = 0
        BY <3>1, <3>3
      <4> QED BY <3>3, <4>1, EmptySeq
    <3>5. Bytes(i, g) = <<>>
      BY <3>2, EmptyRun
    <3> QED BY <2>1, <3>4, <3>5 DEF e, z, i
  <2>4. sn <= d
    BY <1>3, <1>6, <1>7, <1>9
  <2>5. Holding(y, f, o, hs, sn, l, g, d)
    BY <1>2, <1>7, <2>1, <2>3, <2>4 DEF Holding, Held, InView
  <2>6. Shape(y, f)
    BY <1>1, <1>2, <2>1, <2>2 DEF Shape
  <2> QED BY <1>2, <1>4, <2>1, <2>5, <2>6 DEF Reads
<1>10. CASE ~full
  <2>1. y = x
    BY <1>2, <1>10
  <2>2. ~y.some => l = g
    <3> SUFFICES ASSUME ~y.some PROVE l = g
      OBVIOUS
    <3>1. x.buffer = <<>> /\ x.cursor = 0
      BY <1>3, <2>1
    <3>2. Len(x.buffer) = 0
      BY <3>1, EmptySeq
    <3> QED BY <1>6, <1>7, <1>8, <3>1, <3>2
  <2> QED BY <2>1, <2>2
<1> QED BY <1>9, <1>10

(* y is x after c more bytes of the chunk. *)
Moved(x, y, c) ==
  /\ y \in Readers /\ y.open = x.open /\ y.cut = x.cut /\ y.last = x.last
  /\ y.hash_headers = x.hash_headers /\ y.some = x.some
  /\ y.buffer = x.buffer /\ y.cursor = x.cursor
  /\ y.pos = x.pos + c /\ y.partial_body_length = x.partial_body_length - c

(* Reading c bytes below moves the reader by c. *)
LEMMA MoveFields ==
  ASSUME NEW x \in Readers, NEW c \in Nat, c <= x.partial_body_length,
         NEW y, y = [x EXCEPT !.pos = @ + c, !.partial_body_length = @ - c]
  PROVE  Moved(x, y, c)
<1> DEFINE p == x.pos + c
           q == x.partial_body_length - c
<1>1. p \in Nat /\ q \in Nat
  BY ReaderFields
<1>2. y = [x EXCEPT !.pos = p, !.partial_body_length = q]
  BY DEF Readers
<1> HIDE DEF p, q
<1>3. y \in Readers
  BY <1>1, <1>2 DEF Readers
<1>4. /\ y.open = x.open /\ y.cut = x.cut /\ y.last = x.last
      /\ y.hash_headers = x.hash_headers /\ y.some = x.some
      /\ y.buffer = x.buffer /\ y.cursor = x.cursor
  BY <1>2 DEF Readers
<1>5. y.pos = p /\ y.partial_body_length = q
  BY <1>2 DEF Readers
<1> QED BY <1>3, <1>4, <1>5 DEF Moved, p, q

(* The reader goes on in its chunk. *)
LEMMA Advance ==
  ASSUME NEW s \in Seq(Symbols), NEW base, NEW a, NEW h, NEW g, NEW d, NEW x \in Readers,
         Spot(s, base, a, h, g, d, x), NEW c \in Nat, c <= d, NEW y, Moved(x, y, c),
         NEW i, i = g + c, NEW e, e = d - c
  PROVE  Spot(s, base, a, h, i, e, y)
<1> DEFINE p == x.pos
           q == x.partial_body_length
           l == Len(s)
           n == s[h].n
           b == base[h]
<1>1. Opened(s, base, a, x.cut) /\ ReaderIn(s, base, h, x, g) /\ d = Lesser(q, l - p)
  BY DEF Spot
<1>2. /\ h \in Headers(s) /\ h <= p /\ p <= l /\ p + q = h + n
      /\ x.last <=> s[h].tag = "full"
      /\ g = b + (p - h)
  BY <1>1 DEF ReaderIn
<1>3. p \in Nat /\ q \in Nat /\ l \in Nat
  BY ReaderFields, LenProperties
<1>4. h \in Nat /\ n \in Nat
  <2>1. h \in 1 .. l
    BY <1>2, HeaderPlaces
  <2> QED BY <1>3, <2>1, SymbolAt
<1>5. b \in Nat
  BY <1>1, <1>2 DEF Opened
<1>6. /\ y.pos = p + c /\ y.partial_body_length = q - c
      /\ y.cut = x.cut /\ y.last = x.last
  BY DEF Moved
<1> HIDE DEF p, q, l, n, b
<1>7. d \in Nat /\ d <= q /\ p + d <= l
  BY <1>1, <1>2, <1>3 DEF Lesser
<1>8. /\ h <= p + c /\ p + c <= l /\ (p + c) + (q - c) = h + n
      /\ i = b + ((p + c) - h) /\ e = Lesser(q - c, l - (p + c))
  BY <1>1, <1>2, <1>3, <1>4, <1>5, <1>7 DEF Lesser
<1>9. /\ h <= y.pos /\ y.pos <= Len(s) /\ y.pos + y.partial_body_length = h + s[h].n
      /\ i = base[h] + (y.pos - h) /\ e = Lesser(y.partial_body_length, Len(s) - y.pos)
  BY <1>6, <1>8 DEF l, n, b
<1>10. ReaderIn(s, base, h, y, i)
  BY <1>2, <1>6, <1>9 DEF ReaderIn
<1> QED BY <1>1, <1>6, <1>9, <1>10 DEF Spot

(* What the hash covers after c more bytes. *)
HashedMore(hs, t, g, c) ==
  /\ hs \o t \in Seq(Symbols)
  /\ hs = Bytes(1, g) => hs \o t = Bytes(1, g + c)

(* A hash over the first g bytes, with the next c. *)
LEMMA HashMore ==
  ASSUME NEW hs \in Seq(Symbols), NEW g \in Nat, NEW c \in Nat,
         NEW t, t = Bytes(g + 1, g + c)
  PROVE  HashedMore(hs, t, g, c)
<1> DEFINE i == g + 1
           j == g + c
           o == 1
<1>1. /\ i \in Nat /\ i > 0 /\ j \in Int /\ i - 1 <= j /\ i = g + 1 /\ g <= j /\ g \in Int
      /\ o \in Nat /\ o > 0 /\ o - 1 <= g /\ o = 1
  OBVIOUS
<1>2. t = Bytes(i, j)
  OBVIOUS
<1> HIDE DEF i, j, o
<1>3. t \in Seq(Symbols)
  BY <1>1, <1>2, RunIs
<1>4. hs \o t \in Seq(Symbols)
  BY <1>3, ConcatIs
<1>5. hs = Bytes(o, g) => hs \o t = Bytes(o, j)
  <2>1. Bytes(o, g) \o Bytes(g + 1, j) = Bytes(o, j)
    BY <1>1, BytesConcat
  <2>2. t = Bytes(g + 1, j)
    BY DEF j
  <2> QED BY <2>1, <2>2
<1> QED BY <1>4, <1>5 DEF HashedMore, o, j

(* What the invariant says of the reader. *)
LEMMA ReadsFacts ==
  ASSUME NEW s \in Seq(Symbols), NEW base, NEW a, NEW h, NEW g, NEW d, NEW l,
         NEW x, NEW f, NEW o, NEW hs, NEW sn,
         Reads(s, base, a, h, g, d, l, x, f, o, hs, sn)
  PROVE  /\ InBody(s, x, a, g, d) /\ x \in Readers /\ f \in Fills
         /\ l \in Nat /\ l <= g /\ g \in Nat /\ d \in Nat /\ a \in Nat /\ g + d <= a /\ l <= a
         /\ sn \in Nat
<1>1. x \in Readers /\ f \in Fills /\ Spot(s, base, a, h, g, d, x)
  BY DEF Reads, Shape
<1>2. InBody(s, x, a, g, d)
  BY <1>1, BodyIs DEF Spot
<1>3. g \in Nat /\ d \in Nat /\ a \in Nat /\ g + d <= a
  BY <1>2 DEF InBody
<1>4. l \in Nat /\ l <= g /\ sn \in Nat
  BY DEF Reads, Holding
<1> QED BY <1>1, <1>2, <1>3, <1>4

LEMMA ConsumedIs ==
  ASSUME stream \in Seq(Symbols), r.open = TRUE,
         NEW base, NEW a, a = Avail(r), NEW h, NEW g, NEW d, NEW l,
         NEW x, NEW f, NEW hs, NEW sn,
         Reads(stream, base, a, h, g, d, l, x, f, out, hs, sn)
  PROVE  Consumed(l, a)
<1>1. l \in Nat /\ a \in Nat /\ l <= a
  BY ReadsFacts
<1>2. out = Bytes(1, l)
  BY DEF Reads, Holding
<1> QED BY <1>1, <1>2, OwnIs DEF Consumed

(* The buffer holds the bytes from l to g. *)
Buffering(x, l, g, d, sn) ==
  /\ Drop(x.buffer, x.cursor) = Bytes(l + 1, g)
  /\ Drop(x.buffer, x.cursor) \in Seq(Symbols) /\ Len(Drop(x.buffer, x.cursor)) = g - l
  /\ Len(x.buffer) - x.cursor = g - l
  /\ x.some => sn <= g - l
  /\ ~x.some => sn <= d /\ l = g

(* Between calls the buffer holds what was read and not consumed. *)
LEMMA BufferIs ==
  ASSUME NEW s \in Seq(Symbols), NEW base, NEW a, NEW h, NEW g, NEW d, NEW l,
         NEW x, NEW f, NEW o, NEW hs, NEW sn,
         Reads(s, base, a, h, g, d, l, x, f, o, hs, sn), f.on = FALSE
  PROVE  Buffering(x, l, g, d, sn)
<1> DEFINE t == Drop(x.buffer, x.cursor)
<1>1. /\ l \in Nat /\ l <= g /\ g \in Nat /\ x \in Readers
  BY ReadsFacts
<1>2. x.cursor \in Nat /\ x.buffer \in Seq(Symbols) /\ x.cursor <= Len(x.buffer)
  BY <1>1, ReaderFields DEF Reads, Shape
<1>3. t \in Seq(Symbols) /\ Len(t) = Len(x.buffer) - x.cursor
  BY <1>2, DropIs
<1>4. t = Bytes(l + 1, g)
  BY DEF Reads, Holding, Held
<1>5. sn <= (IF x.some THEN Len(x.buffer) - x.cursor ELSE d)
  BY DEF Reads, Holding, InView
<1> DEFINE i == l + 1
<1>6. i \in Nat /\ i > 0 /\ g \in Int /\ i - 1 <= g /\ g - i + 1 = g - l
  BY <1>1
<1>7. t = Bytes(i, g)
  BY <1>4
<1> HIDE DEF i, t
<1>8. Len(t) = g - l
  BY <1>6, <1>7, RunIs
<1>9. ~x.some => l = g
  <2> SUFFICES ASSUME ~x.some PROVE l = g
    OBVIOUS
  <2>1. x.buffer = <<>> /\ x.cursor = 0
    BY DEF Reads, Shape
  <2>2. Len(x.buffer) = 0
    BY <2>1, EmptySeq
  <2> QED BY <1>1, <1>3, <1>8, <2>1, <2>2
<1> QED BY <1>3, <1>4, <1>5, <1>8, <1>9 DEF Buffering, t

(* A step of the reader, and what it is in the contract. *)
ReaderStep == RInv' /\ (Abstract!Next \/ UNCHANGED Abstract!streamVars)

LEMMA DropDrop ==
  ASSUME NEW u \in Seq(Symbols), NEW v \in Nat, v <= Len(u), NEW e \in Nat,
         NEW c, c = v + e, c <= Len(u)
  PROVE  Drop(u, c) = Drop(Drop(u, v), e)
<1> DEFINE b == Len(u)
           t == Drop(u, v)
           q == Drop(u, c)
           z == Drop(t, e)
<1>1. b \in Nat /\ v <= b /\ c <= b /\ c \in Nat
  BY LenProperties
<1>2. t \in Seq(Symbols) /\ Len(t) = b - v /\ \A i \in 1 .. b - v : t[i] = u[v + i]
  BY DropIs
<1>3. q \in Seq(Symbols) /\ Len(q) = b - c /\ \A i \in 1 .. b - c : q[i] = u[c + i]
  BY <1>1, DropIs
<1> HIDE DEF b, t, q
<1>4. e <= Len(t)
  BY <1>1, <1>2
<1>5. z \in Seq(Symbols) /\ Len(z) = Len(t) - e /\ \A i \in 1 .. Len(t) - e : z[i] = t[e + i]
  BY <1>2, <1>4, DropIs
<1> HIDE DEF z
<1>6. Len(q) = Len(z)
  BY <1>1, <1>2, <1>3, <1>5
<1>7. ASSUME NEW i \in 1 .. Len(q) PROVE q[i] = z[i]
  <2>1. i \in 1 .. b - c
    BY <1>3
  <2>2. i \in 1 .. (b - v) - e /\ e + i \in 1 .. b - v /\ v + (e + i) = c + i
    BY <1>1, <2>1
  <2>3. i \in 1 .. Len(t) - e
    BY <1>2, <2>2
  <2> QED BY <1>2, <1>3, <1>5, <2>1, <2>2, <2>3
<1>8. q = z
  BY <1>3, <1>5, <1>6, <1>7, SeqEqual
<1> QED BY <1>8 DEF q, z, t

(* The next took bytes are gone from the buffer. *)
LEMMA EatBuffer ==
  ASSUME NEW s \in Seq(Symbols), NEW base, NEW a, NEW h, NEW g, NEW d, NEW l,
         NEW x, NEW f, NEW o, NEW hs, NEW sn,
         Reads(s, base, a, h, g, d, l, x, f, o, hs, sn), f.on = FALSE, x.some = TRUE,
         NEW took \in Nat, took <= g - l, NEW y, y = [x EXCEPT !.cursor = @ + took],
         NEW p, p = Bytes(1, l + took), NEW m \in Nat, m <= g - l - took,
         NEW k, k = l + took
  PROVE  /\ Reads(s, base, a, h, g, d, k, y, f, p, hs, m)
         /\ y.open = x.open /\ y.cut = x.cut /\ y.last = x.last
         /\ y.partial_body_length = x.partial_body_length
<1>1. /\ l \in Nat /\ l <= g /\ g \in Nat /\ d \in Nat /\ x \in Readers /\ f \in Fills
  BY ReadsFacts
<1>2. x.cursor \in Nat /\ x.buffer \in Seq(Symbols) /\ x.cursor <= Len(x.buffer)
  BY <1>1, ReaderFields DEF Reads, Shape
<1>3. Len(x.buffer) \in Nat
  BY <1>2, LenProperties
<1> DEFINE c == x.cursor + took
           t == Drop(x.buffer, x.cursor)
<1>4. t = Bytes(l + 1, g) /\ Len(t) = g - l /\ Len(x.buffer) - x.cursor = g - l
  <2>1. Buffering(x, l, g, d, sn)
    BY BufferIs
  <2> QED BY <2>1 DEF Buffering
<1>5. c \in Nat /\ c <= Len(x.buffer) /\ Len(x.buffer) - c = g - l - took
  <2> DEFINE b == Len(x.buffer)
             v == x.cursor
  <2>1. b \in Nat /\ v \in Nat /\ b - v = g - l
    BY <1>2, <1>3, <1>4
  <2> HIDE DEF b, v
  <2>2. v + took \in Nat /\ v + took <= b /\ b - (v + took) = g - l - took
    BY <1>1, <2>1
  <2> QED BY <2>2 DEF b, v
<1>6. y = [x EXCEPT !.cursor = c]
  BY <1>1 DEF Readers
<1>7. Drop(x.buffer, c) = Drop(t, took)
  BY <1>2, <1>5, DropDrop
<1> HIDE DEF c
<1>8. /\ y \in Readers /\ y.cursor = c
  BY <1>1, <1>5, <1>6 DEF Readers
<1>9. /\ y.open = x.open /\ y.cut = x.cut /\ y.last = x.last /\ y.pos = x.pos
      /\ y.partial_body_length = x.partial_body_length /\ y.some = x.some
      /\ y.buffer = x.buffer /\ y.hash_headers = x.hash_headers
  BY <1>1, <1>6 DEF Readers
<1>10. Drop(t, took) = Bytes(k + 1, g)
  <2> DEFINE i == l + 1
             e == k + 1
  <2>1. i \in Nat /\ i > 0 /\ g \in Int /\ i - 1 <= g /\ took <= g - i + 1 /\ e = i + took
    BY <1>1, SMTT(30)
  <2>2. t = Bytes(i, g)
    BY <1>4
  <2> HIDE DEF i, e, t
  <2>3. Drop(t, took) = Bytes(e, g)
    BY <2>1, <2>2, DropRun
  <2> QED BY <2>3 DEF e
<1>11. Held(y, f) = Bytes(k + 1, g)
  BY <1>7, <1>8, <1>9, <1>10 DEF Held
<1>12. m <= InView(y, f, d)
  BY <1>5, <1>8, <1>9 DEF InView
<1>13. k \in Nat /\ k <= g /\ p = Bytes(1, k)
  BY <1>1
<1>14. hs \in Seq(Symbols) /\ (~y.hash_headers => hs = Bytes(1, g))
  BY <1>9 DEF Reads, Holding
<1>15. Holding(y, f, p, hs, m, k, g, d)
  BY <1>11, <1>12, <1>13, <1>14 DEF Holding
<1>16. Shape(y, f)
  BY <1>1, <1>5, <1>8, <1>9 DEF Reads, Shape
<1>17. Spot(s, base, a, h, g, d, y)
  BY <1>9 DEF Reads, Spot, ReaderIn
<1> QED BY <1>9, <1>15, <1>16, <1>17 DEF Reads

(* The call is answered from the buffer. *)
BufferCall(base, a, h, g, d, l, x, f, hs, amount, hard, consume) ==
  /\ Reads(stream, base, a, h, g, d, l, x, f, out, hs, seen)
  /\ x.open = r.open /\ x.cut = r.cut /\ x.some = TRUE
  /\ f.on = FALSE /\ fill' = f /\ hashed' = hs /\ w' = w /\ stream' = stream /\ torn' = torn
  /\ amount \in Nat /\ amount > 0 /\ hard \in BOOLEAN /\ consume \in BOOLEAN
  /\ g - l >= amount \/ g = a
  /\ g = l => x.cut \/ (x.last /\ x.partial_body_length = 0 /\ g = a)
  /\ FromBuffer(x, amount, hard, consume)

(* A call that the buffer can answer. *)
LEMMA FromBufferStep ==
  ASSUME RInv, stream \in Seq(Symbols), r.open = TRUE, NEW base, NEW a, a = Avail(r),
         NEW h, NEW g, NEW d, NEW l, NEW x, NEW f, NEW hs, NEW amount, NEW hard, NEW consume,
         BufferCall(base, a, h, g, d, l, x, f, hs, amount, hard, consume)
  PROVE  ReaderStep
<1> DEFINE t == Drop(x.buffer, x.cursor)
           n == g - l
           err == hard /\ Len(t) < amount
           took == IF consume /\ ~err THEN Lesser(amount, Len(t)) ELSE 0
           y == [x EXCEPT !.cursor = @ + took]
           call == NameOf(hard, consume)
           data == IF err THEN <<>> ELSE t
           res == [call |-> call, amount |-> amount, err |-> err, data |-> data]
<1> USE DEF BufferCall
<1>1. r' = y /\ Return(call, amount, err, data, took)
  BY DEF FromBuffer
<1>2. /\ l \in Nat /\ l <= g /\ g \in Nat /\ d \in Nat /\ a \in Nat /\ l <= a /\ seen \in Nat
      /\ g + d <= a
  BY ReadsFacts
<1>3. Buffering(x, l, g, d, seen)
  BY BufferIs
<1>4. t = Bytes(l + 1, g) /\ Len(t) = n /\ seen <= n
  BY <1>3 DEF Buffering
<1>5. err <=> (hard /\ n < amount)
  BY <1>4
<1>6. took = IF consume /\ ~err THEN Lesser(amount, n) ELSE 0
  BY <1>4
<1>7. result' = res
  BY <1>1 DEF Return
<1>8. Consumed(l, a)
  BY ConsumedIs
<1>9. n \in Nat /\ l + n = g /\ took \in Nat /\ took <= n /\ (took = 0 \/ took = Lesser(amount, n))
  BY <1>2, <1>6 DEF Lesser
<1>10. x \in Readers
  BY ReadsFacts
<1>11. y.open = r.open /\ y.cut = r.cut
  BY <1>10 DEF Readers
<1>12. Own' = Own
  BY <1>1, <1>11, OwnSame
<1>13. /\ err \in BOOLEAN
       /\ err => data = <<>> /\ took = 0
       /\ ~err => data = t
  BY <1>6
<1>14. y = [x EXCEPT !.cursor = @ + took]
  OBVIOUS
<1>15. res = [call |-> call, amount |-> amount, err |-> err, data |-> data]
  OBVIOUS
<1> HIDE DEF t, n, err, took, y, call, data, res
<1>16. CASE err
  <2>1. err = TRUE /\ seen < amount /\ l + seen <= a
    BY <1>2, <1>4, <1>5, <1>9, <1>13, <1>16
  <2>2. data = <<>> /\ took = 0
    BY <1>13, <1>16
  <2>3. Abstract!Next /\ out' = out /\ seen' = seen
    BY <1>1, <1>2, <1>8, <1>12, <2>1, <2>2, FailStep
  <2> DEFINE k == l + took
             p == Bytes(1, k)
  <2>4. k = l + took /\ p = Bytes(1, l + took) /\ out = p
    BY <1>2, <1>8, <2>2 DEF Consumed
  <2>5. seen <= g - l - took
    BY <1>2, <1>4, <2>2 DEF n
  <2>6. took \in Nat /\ took <= g - l
    BY <1>9 DEF n
  <2> HIDE DEF k, p
  <2>7. Reads(stream, base, a, h, g, d, k, y, f, p, hs, seen)
    BY <1>2, <1>14, <2>4, <2>5, <2>6, EatBuffer
  <2>8. EndOK(y, p, res)
    BY <1>15, <2>1 DEF EndOK
  <2>9. RInv'
    BY <1>1, <1>7, <1>11, <2>3, <2>4, <2>7, <2>8, ReaderInto
  <2> QED BY <2>3, <2>9 DEF ReaderStep
<1>17. CASE ~err
  <2>1. err = FALSE /\ data = t
    BY <1>13, <1>17
  <2>2. Answers(l, a, n, amount, took)
    <3>1. n >= amount \/ l + n = a
      BY <1>9 DEF n
    <3>2. l + n <= a
      BY <1>2, <1>9
    <3> QED BY <1>2, <1>4, <1>9, <3>1, <3>2 DEF Answers
  <2>3. data = Bytes(l + 1, l + n)
    BY <1>4, <1>9, <2>1
  <2>4. Abstract!Next /\ Answered(l, n, took)
    BY <1>1, <1>8, <1>12, <2>1, <2>2, <2>3, AnswerStep
  <2> DEFINE k == l + took
             p == Bytes(1, k)
             m == n - took
  <2>5. k = l + took /\ p = Bytes(1, l + took) /\ out' = p /\ seen' = m /\ m \in Nat
    BY <1>9, <2>4 DEF Answered
  <2>6. m <= g - l - took
    BY <1>2, <1>9 DEF n
  <2>7. took \in Nat /\ took <= g - l
    BY <1>9 DEF n
  <2> HIDE DEF k, p, m
  <2>8. Reads(stream, base, a, h, g, d, k, y, f, p, hs, m)
    BY <2>5, <2>6, <2>7, <1>14, EatBuffer
  <2>9. EndOK(y, p, res)
    <3>1. CASE n # 0
      <4>1. data # <<>>
        <5>1. Len(data) # 0
          BY <1>4, <2>1, <3>1
        <5>2. Len(<<>>) = 0
          BY EmptySeq
        <5> QED BY <5>1, <5>2
      <4> QED BY <1>15, <4>1 DEF EndOK
    <3>2. CASE n = 0
      <4>1. (g = l /\ k = a) \/ x.cut
        BY <1>2, <1>9, <2>5, <3>2 DEF n
      <4>2. g = l
        BY <1>2, <1>9, <3>2
      <4>3. y.last = x.last /\ y.partial_body_length = x.partial_body_length /\ y.cut = x.cut
        BY <1>10, <1>14 DEF Readers
      <4>4. ~x.cut => a = w.position
        BY DEF Avail
      <4>5. ~x.cut => p = Written
        BY <4>1, <4>4 DEF p, Written
      <4>6. y.cut \/ (y.last /\ y.partial_body_length = 0 /\ p = Written)
        BY <4>2, <4>3, <4>5
      <4> QED BY <4>6 DEF EndOK
    <3> QED BY <3>1, <3>2
  <2>10. RInv'
    BY <1>1, <1>7, <1>11, <2>5, <2>8, <2>9, ReaderInto
  <2> QED BY <2>4, <2>10 DEF ReaderStep
<1> QED BY <1>16, <1>17

(* The reader after its buffer was looked at, when a call begins. *)
Settled(base, a, h, g, d, l, x) ==
  /\ Reads(stream, base, a, h, g, d, l, x, fill, out, hashed, seen)
  /\ x.open = r.open /\ x.cut = r.cut /\ x.last = r.last
  /\ x.partial_body_length = r.partial_body_length
  /\ ~x.some => l = g

(* The reader as data_helper() finds it, the buffer tidied. *)
LEMMA CallBegins ==
  ASSUME stream \in Seq(Symbols), RInv, r.open, ~fill.on,
         NEW x, x = Tidy(r), NEW a, a = Avail(r)
  PROVE  /\ \E base, h, g, d, l : Settled(base, a, h, g, d, l, x)
         /\ r.open = TRUE /\ fill.on = FALSE /\ EndOK(r, out, result)
<1>1. PICK base, h, g, d, l :
        Reads(stream, base, a, h, g, d, l, r, fill, out, hashed, seen)
  BY DEF RInv
<1>2. r \in Readers /\ fill \in Fills /\ EndOK(r, out, result)
  BY DEF RInv, Shape
<1>3. r.open = TRUE /\ fill.on = FALSE
  BY <1>2, ReaderFields, FillFields
<1>4. Settled(base, a, h, g, d, l, x)
  <2>1. Reads(stream, base, a, h, g, d, l, x, fill, out, hashed, seen)
    BY <1>1, <1>3, TidyReads
  <2>2. /\ x.open = r.open /\ x.cut = r.cut /\ x.last = r.last
        /\ x.partial_body_length = r.partial_body_length
    BY <1>2, TidyFields DEF Tidied
  <2>3. Buffering(x, l, g, d, seen)
    BY <1>3, <2>1, BufferIs
  <2>4. ~x.some => l = g
    BY <2>3 DEF Buffering
  <2> QED BY <2>1, <2>2, <2>4 DEF Settled
<1>5. \E b1, h1, g1, d1, l1 : Settled(b1, a, h1, g1, d1, l1, x)
  BY <1>4
<1> QED BY <1>2, <1>3, <1>5

(* data_helper() with enough in the buffer. *)
LEMMA BufferedStep ==
  ASSUME stream \in Seq(Symbols), RInv, NEW amount \in Nat,
         NEW hard \in BOOLEAN, NEW consume \in BOOLEAN, Buffered(amount, hard, consume)
  PROVE  ReaderStep
<1> DEFINE x == Tidy(r)
           a == Avail(r)
           t == Drop(x.buffer, x.cursor)
<1>1. /\ r.open /\ ~fill.on /\ amount > 0 /\ x.some
      /\ amount <= Len(Buffer(x)) \/ (x.last /\ x.partial_body_length = 0)
      /\ FromBuffer(x, amount, hard, consume)
      /\ fill' = fill /\ hashed' = hashed /\ w' = w /\ stream' = stream /\ torn' = torn
  BY DEF Buffered, Caller, ReaderOnly
<1>2. x = Tidy(r) /\ a = Avail(r)
  OBVIOUS
<1> HIDE DEF x, a
<1>3. r.open = TRUE /\ fill.on = FALSE
  BY <1>1, <1>2, CallBegins
<1>4. PICK base, h, g, d, l : Settled(base, a, h, g, d, l, x)
  BY <1>1, <1>2, CallBegins
<1>5. Reads(stream, base, a, h, g, d, l, x, fill, out, hashed, seen)
  BY <1>4 DEF Settled
<1>6. /\ x.open = r.open /\ x.cut = r.cut /\ x.last = r.last
      /\ x.partial_body_length = r.partial_body_length /\ (~x.some => l = g)
  BY <1>4 DEF Settled
<1>7. /\ l \in Nat /\ l <= g /\ g \in Nat /\ d \in Nat /\ a \in Nat /\ x \in Readers
      /\ InBody(stream, x, a, g, d)
  BY <1>5, ReadsFacts
<1>8. x.some = TRUE
  BY <1>1, <1>7, ReaderFields
<1>9. Buffering(x, l, g, d, seen)
  BY <1>3, <1>5, BufferIs
<1>10. Len(Buffer(x)) = g - l
  BY <1>1, <1>9 DEF Buffering, Buffer
<1>11. x.last /\ x.partial_body_length = 0 => g = a
  <2> SUFFICES ASSUME x.last, x.partial_body_length = 0 PROVE g = a
    OBVIOUS
  <2>1. d <= x.partial_body_length /\ (x.last /\ d = x.partial_body_length => g + d = a)
    BY <1>7 DEF InBody
  <2> QED BY <1>7, <2>1
<1>12. g - l >= amount \/ g = a
  BY <1>1, <1>7, <1>10, <1>11
<1>13. g = l => x.cut \/ (x.last /\ x.partial_body_length = 0 /\ g = a)
  BY <1>1, <1>7, <1>10, <1>11
<1>14. /\ FromBuffer(x, amount, hard, consume) /\ amount > 0
       /\ fill' = fill /\ hashed' = hashed /\ w' = w /\ stream' = stream /\ torn' = torn
  BY <1>1
<1>15. x.open = r.open /\ x.cut = r.cut
  BY <1>6
<1>16. BufferCall(base, a, h, g, d, l, x, fill, hashed, amount, hard, consume)
  BY <1>3, <1>5, <1>8, <1>12, <1>13, <1>14, <1>15 DEF BufferCall
<1> QED BY <1>2, <1>3, <1>16, FromBufferStep

(* data_helper() on its way to do_fill_buffer(). *)
LEMMA NeedFillStep ==
  ASSUME stream \in Seq(Symbols), RInv, NEW amount \in Nat,
         NEW hard \in BOOLEAN, NEW consume \in BOOLEAN, NeedFill(amount, hard, consume)
  PROVE  ReaderStep
<1> DEFINE x == Tidy(r)
           a == Avail(r)
           t == Drop(x.buffer, x.cursor)
           f == [on |-> TRUE, amount |-> amount, hard |-> hard, consume |-> consume, buf |-> t]
<1>1. /\ r.open /\ ~fill.on /\ amount > 0
      /\ \/ x.some /\ amount > Len(Buffer(x)) /\ ~(x.last /\ x.partial_body_length = 0)
         \/ ~x.some /\ amount > x.partial_body_length /\ ~x.last
      /\ r' = x /\ fill' = f /\ out' = out /\ result' = result /\ hashed' = hashed /\ seen' = seen
      /\ w' = w /\ stream' = stream /\ torn' = torn
  BY DEF NeedFill, Caller, ReaderOnly
<1>2. x = Tidy(r) /\ a = Avail(r)
  OBVIOUS
<1> HIDE DEF x, a
<1>3. r.open = TRUE /\ fill.on = FALSE
  BY <1>1, <1>2, CallBegins
<1>4. PICK base, h, g, d, l : Settled(base, a, h, g, d, l, x)
  BY <1>1, <1>2, CallBegins
<1>5. Reads(stream, base, a, h, g, d, l, x, fill, out, hashed, seen)
  BY <1>4 DEF Settled
<1>6. /\ x.open = r.open /\ x.cut = r.cut /\ x.last = r.last
      /\ x.partial_body_length = r.partial_body_length /\ (~x.some => l = g)
  BY <1>4 DEF Settled
<1>7. /\ l \in Nat /\ l <= g /\ g \in Nat /\ d \in Nat /\ a \in Nat /\ x \in Readers
      /\ InBody(stream, x, a, g, d) /\ seen \in Nat
  BY <1>5, ReadsFacts
<1>8. /\ t = Bytes(l + 1, g) /\ t \in Seq(Symbols) /\ Len(t) = g - l
      /\ x.some => seen <= g - l
      /\ ~x.some => seen <= d
  <2>1. Buffering(x, l, g, d, seen)
    BY <1>3, <1>5, BufferIs
  <2> QED BY <2>1 DEF Buffering
<1>9. d <= x.partial_body_length /\ x.partial_body_length \in Nat
  BY <1>7, ReaderFields DEF InBody
<1>10. x.some => Len(Buffer(x)) = g - l
  BY <1>8 DEF Buffer
<1>11. Len(t) < amount
  BY <1>1, <1>6, <1>7, <1>8, <1>9, <1>10
<1>12. f.on = TRUE /\ f.amount = amount /\ f.buf = t
  OBVIOUS
<1>13. seen <= Len(t) + Lesser(d, amount - Len(t))
  <2> DEFINE n == Len(t)
             q == x.partial_body_length
  <2>1. n = g - l /\ n < amount
    BY <1>8, <1>11
  <2>2. n \in Nat /\ q \in Nat /\ d <= q
    BY <1>7, <1>9, <2>1
  <2>3. \/ seen <= n
        \/ n = 0 /\ seen <= d /\ amount > q
    BY <1>1, <1>6, <1>7, <1>8, <2>1
  <2> HIDE DEF n, q
  <2>4. seen <= n + Lesser(d, amount - n)
    BY <1>7, <2>1, <2>2, <2>3 DEF Lesser
  <2> QED BY <2>4 DEF n
<1>14. f \in Fills
  BY <1>8 DEF Fills
<1> HIDE DEF t, f
<1>15. Shape(x, f)
  BY <1>5, <1>11, <1>12, <1>14 DEF Reads, Shape
<1>16. Holding(x, f, out, hashed, seen, l, g, d)
  <2>1. Held(x, f) = Bytes(l + 1, g)
    BY <1>8, <1>12 DEF Held
  <2>2. seen <= InView(x, f, d)
    BY <1>12, <1>13 DEF InView
  <2> QED BY <1>5, <1>7, <2>1, <2>2 DEF Reads, Holding
<1>17. Reads(stream, base, a, h, g, d, l, x, f, out, hashed, seen)
  BY <1>5, <1>15, <1>16 DEF Reads
<1>18. EndOK(x, out, result)
  <2>1. EndOK(r, out, result)
    BY <1>1 DEF RInv
  <2>2. ~(x.last /\ x.partial_body_length = 0)
    BY <1>1
  <2> QED BY <1>6, <2>1, <2>2 DEF EndOK
<1>19. RInv'
  BY <1>1, <1>2, <1>3, <1>6, <1>17, <1>18, ReaderInto
<1>20. Own' = Own
  BY <1>1, <1>6, OwnSame
<1> QED BY <1>1, <1>19, <1>20 DEF ReaderStep, Abstract!streamVars, Hard

-----------------------------------------------------------------------------
(* do_fill_buffer().  A round reads c bytes of the chunk. *)

Filling(base, a, h, g, d, l, c) ==
  /\ InBody(stream, r, a, g, d) /\ r \in Readers /\ fill \in Fills
  /\ l \in Nat /\ g \in Nat /\ d \in Nat /\ a \in Nat /\ l <= g /\ seen \in Nat
  /\ Len(fill.buf) = g - l /\ g - l < fill.amount /\ fill.amount \in Nat
  /\ fill.buf = Bytes(l + 1, g) /\ out = Bytes(1, l)
  /\ ToRead = Lesser(r.partial_body_length, fill.amount - (g - l)) /\ ToRead \in Nat
  /\ c \in Nat /\ c = Lesser(ToRead, d) /\ Len(Chunk) = c
  /\ Chunk \in Seq(Symbols) /\ Chunk = Bytes(g + 1, g + c)
  /\ seen <= g - l + c
  /\ hashed \in Seq(Symbols)
  /\ ~r.hash_headers => hashed = Bytes(1, g)
  /\ r.partial_body_length \in Nat

(* do_fill_buffer() in numbers: what is in the new buffer and what comes   *)
(* next.                                                                   *)
LEMMA FillFacts ==
  ASSUME stream \in Seq(Symbols), NEW base, NEW a, NEW h, NEW g, NEW d, NEW l, fill.on,
         Reads(stream, base, a, h, g, d, l, r, fill, out, hashed, seen),
         NEW c, c = Len(Chunk)
  PROVE  Filling(base, a, h, g, d, l, c)
<1>1. /\ InBody(stream, r, a, g, d) /\ r \in Readers /\ fill \in Fills
      /\ l \in Nat /\ g \in Nat /\ d \in Nat /\ a \in Nat /\ l <= g /\ seen \in Nat
  BY ReadsFacts
<1>2. /\ fill.amount \in Nat /\ fill.buf \in Seq(Symbols) /\ r.partial_body_length \in Nat
  BY <1>1, FillFields, ReaderFields
<1>3. /\ fill.buf = Bytes(l + 1, g) /\ out = Bytes(1, l) /\ Len(fill.buf) < fill.amount
  BY DEF Reads, Holding, Held, Shape
<1>4. /\ seen <= Len(fill.buf) + Lesser(d, fill.amount - Len(fill.buf))
      /\ hashed \in Seq(Symbols) /\ (~r.hash_headers => hashed = Bytes(1, g))
  BY DEF Reads, Holding, InView
<1>5. Len(fill.buf) = g - l
  <2> DEFINE i == l + 1
             t == fill.buf
  <2>1. i \in Nat /\ i > 0 /\ g \in Int /\ i - 1 <= g /\ g - i + 1 = g - l
    BY <1>1
  <2>2. t = Bytes(i, g)
    BY <1>3
  <2> HIDE DEF i, t
  <2>3. Len(t) = g - l
    BY <2>1, <2>2, RunIs
  <2> QED BY <2>3 DEF t
<1> DEFINE n == g - l
           q == r.partial_body_length
           m == fill.amount
           e == Lesser(ToRead, d)
           t == Chunk
           i == g + 1
           j == g + e
           v == ToRead
<1>6. n \in Nat /\ n < m /\ m \in Nat /\ q \in Nat /\ d <= q
  BY <1>1, <1>2, <1>3, <1>5 DEF InBody
<1>7. v = Lesser(q, m - n)
  BY <1>5 DEF ToRead
<1>8. t = Take(Drop(stream, r.pos), v)
  BY DEF Chunk, Left
<1>9. e = Lesser(v, d) /\ j = g + e /\ i = g + 1
  OBVIOUS
<1> HIDE DEF n, m, t, v, e
<1>10. v \in Nat /\ v <= q
  BY <1>6, <1>7 DEF Lesser
<1>11. t = Bytes(g + 1, g + e) /\ e \in Nat /\ e <= d
  BY <1>1, <1>8, <1>9, <1>10, ReadIs
<1>12. i \in Nat /\ i > 0 /\ j \in Int /\ i - 1 <= j /\ j - i + 1 = e
  BY <1>1, <1>11
<1>13. t = Bytes(i, j)
  BY <1>11
<1> HIDE DEF i, j
<1>14. t \in Seq(Symbols) /\ Len(t) = e
  BY <1>12, <1>13, RunIs
<1>15. c = e
  BY <1>14 DEF t
<1>16. seen <= n + e
  <2>1. seen <= n + Lesser(d, m - n)
    BY <1>4, <1>5 DEF n, m
  <2> QED BY <1>1, <1>6, <1>7, <1>9, <1>10, <2>1, SMTT(30) DEF Lesser
<1>17. /\ g - l < fill.amount /\ ToRead = Lesser(r.partial_body_length, fill.amount - (g - l))
       /\ ToRead \in Nat /\ seen <= g - l + c /\ c = Lesser(ToRead, d)
  BY <1>6, <1>7, <1>9, <1>10, <1>15, <1>16 DEF n, m, q, v
<1>18. Len(Chunk) = c /\ Chunk \in Seq(Symbols) /\ Chunk = Bytes(g + 1, g + c) /\ c \in Nat
  BY <1>11, <1>14, <1>15 DEF t
<1> QED BY <1>1, <1>2, <1>3, <1>4, <1>5, <1>17, <1>18 DEF Filling

(* The buffer after the round. *)
Joined(t, l, g, c) == t = Bytes(l + 1, g + c) /\ Len(t) = g - l + c /\ t \in Seq(Symbols)

(* The new buffer and the next part of the chunk join. *)
LEMMA FillJoins ==
  ASSUME NEW base, NEW a, NEW h, NEW g, NEW d, NEW l, NEW c, Filling(base, a, h, g, d, l, c),
         NEW t, t = fill.buf \o Chunk
  PROVE  Joined(t, l, g, c)
<1>1. /\ l \in Nat /\ g \in Nat /\ c \in Nat /\ l <= g
      /\ Chunk \in Seq(Symbols) /\ Chunk = Bytes(g + 1, g + c) /\ fill.buf = Bytes(l + 1, g)
  BY DEF Filling
<1> DEFINE i == l + 1
           e == g + c
           k == g + 1
           u == fill.buf
           v == Chunk
<1>2. /\ i \in Nat /\ i > 0 /\ g \in Int /\ e \in Int /\ i - 1 <= g /\ g <= e /\ k = g + 1
      /\ i - 1 <= e /\ e - i + 1 = g - l + c
  BY <1>1
<1>3. u = Bytes(i, g) /\ v = Bytes(k, e)
  BY <1>1
<1>4. t = u \o v
  OBVIOUS
<1> HIDE DEF i, e, k, u, v
<1>5. u \o v = Bytes(i, e)
  <2>1. Bytes(i, g) \o Bytes(g + 1, e) = Bytes(i, e)
    BY <1>2, BytesConcat
  <2> QED BY <1>2, <1>3, <2>1
<1>6. t = Bytes(i, e)
  BY <1>4, <1>5
<1>7. t \in Seq(Symbols) /\ Len(t) = e - i + 1
  BY <1>2, <1>6, RunIs
<1> QED BY <1>2, <1>6, <1>7 DEF Joined, i, e

(* The reader when that part has been read. *)
LEMMA AfterReadIs ==
  ASSUME stream \in Seq(Symbols), NEW base, NEW a, NEW h, NEW g, NEW d, NEW l, NEW c,
         Filling(base, a, h, g, d, l, c), Spot(stream, base, a, h, g, d, r),
         NEW y, y = AfterRead, NEW i, i = g + c, NEW e, e = d - c
  PROVE  Moved(r, y, c) /\ Spot(stream, base, a, h, i, e, y)
<1>1. /\ c \in Nat /\ c = Lesser(ToRead, d) /\ Len(Chunk) = c /\ r \in Readers /\ d \in Nat
      /\ ToRead \in Nat /\ g \in Nat
  BY DEF Filling
<1>2. c <= d /\ d <= r.partial_body_length /\ r.partial_body_length \in Nat
  BY <1>1 DEF Filling, InBody, Lesser
<1>3. c <= r.partial_body_length
  BY <1>1, <1>2
<1>4. y = [r EXCEPT !.pos = @ + c, !.partial_body_length = @ - c]
  BY <1>1 DEF AfterRead
<1>5. Moved(r, y, c)
  BY <1>1, <1>3, <1>4, MoveFields
<1>6. Spot(stream, base, a, h, i, e, y)
  BY <1>1, <1>2, <1>5, Advance
<1> QED BY <1>5, <1>6

(* The new buffer takes the place of the old one. *)
Renewed(z, c) ==
  /\ z.open = r.open /\ z.cut = r.cut /\ z.last = r.last /\ z.some = TRUE
  /\ z.partial_body_length = r.partial_body_length - c

(* The reader when the new buffer has taken the place of the old one. *)
LEMMA NewBufferReads ==
  ASSUME stream \in Seq(Symbols), NEW base, NEW a, NEW h, NEW g, NEW d, NEW l, NEW c,
         Filling(base, a, h, g, d, l, c), Spot(stream, base, a, h, g, d, r),
         NEW z, z = NewBuffer(AfterRead), NEW f, f = NoFill,
         NEW i, i = g + c, NEW e, e = d - c, NEW hs, hs = hashed \o Chunk
  PROVE  Reads(stream, base, a, h, i, e, l, z, f, out, hs, seen) /\ Renewed(z, c)
<1> DEFINE y == AfterRead
           t == fill.buf \o Chunk
           o == 0
           b == TRUE
<1>1. y = AfterRead /\ t = fill.buf \o Chunk /\ o = 0 /\ o \in Nat /\ b = TRUE /\ b \in BOOLEAN
  OBVIOUS
<1>2. z = [y EXCEPT !.some = b, !.buffer = t, !.cursor = o]
  BY DEF NewBuffer
<1> HIDE DEF y, t, o, b
<1>3. Moved(r, y, c) /\ Spot(stream, base, a, h, i, e, y)
  BY <1>1, AfterReadIs
<1>4. t = Bytes(l + 1, g + c) /\ Len(t) = g - l + c /\ t \in Seq(Symbols)
  <2>1. Joined(t, l, g, c)
    BY <1>1, FillJoins
  <2> QED BY <2>1 DEF Joined
<1>5. /\ l \in Nat /\ g \in Nat /\ c \in Nat /\ l <= g /\ out = Bytes(1, l) /\ seen \in Nat
      /\ seen <= g - l + c /\ hashed \in Seq(Symbols)
      /\ ~r.hash_headers => hashed = Bytes(1, g)
      /\ Chunk = Bytes(g + 1, g + c)
  BY DEF Filling
<1>6. /\ y \in Readers /\ y.open = r.open /\ y.cut = r.cut /\ y.last = r.last
      /\ y.hash_headers = r.hash_headers
      /\ y.partial_body_length = r.partial_body_length - c
  BY <1>3 DEF Moved
<1>7. z \in Readers
  BY <1>1, <1>2, <1>4, <1>6 DEF Readers
<1>8. z.some = b /\ z.buffer = t /\ z.cursor = o
  BY <1>2, <1>6 DEF Readers
<1>9. /\ z.open = y.open /\ z.cut = y.cut /\ z.last = y.last /\ z.pos = y.pos
      /\ z.hash_headers = y.hash_headers /\ z.partial_body_length = y.partial_body_length
  BY <1>2, <1>6 DEF Readers
<1>10. f.on = FALSE /\ f \in Fills
  <2>1. <<>> \in Seq(Symbols)
    BY EmptySeq
  <2> QED BY <2>1 DEF NoFill, Fills
<1>11. Drop(t, o) = t
  <2>1. SubSeq(t, 1, Len(t)) = t
    BY <1>4, SubSeqFull
  <2> QED BY <1>1, <2>1 DEF Drop
<1>12. Shape(z, f)
  <2>1. o <= Len(t)
    BY <1>1, <1>4, <1>5
  <2> QED BY <1>1, <1>7, <1>8, <1>10, <2>1 DEF Shape
<1>13. hs \in Seq(Symbols) /\ (~z.hash_headers => hs = Bytes(1, g + c))
  <2>1. HashedMore(hashed, Chunk, g, c)
    BY <1>5, HashMore
  <2> QED BY <1>5, <1>6, <1>9, <2>1 DEF HashedMore
<1>14. Holding(z, f, out, hs, seen, l, i, e)
  <2>1. Held(z, f) = Bytes(l + 1, i)
    BY <1>4, <1>8, <1>10, <1>11 DEF Held
  <2>2. InView(z, f, e) = Len(t) - o
    BY <1>1, <1>8, <1>10 DEF InView
  <2>3. seen <= Len(t) - o /\ l <= i
    BY <1>1, <1>4, <1>5
  <2> QED BY <1>5, <1>13, <2>1, <2>2, <2>3 DEF Holding
<1>15. Spot(stream, base, a, h, i, e, z)
  BY <1>3, <1>9 DEF Spot, ReaderIn
<1>16. Renewed(z, c)
  BY <1>1, <1>6, <1>8, <1>9 DEF Renewed
<1> QED BY <1>12, <1>14, <1>15, <1>16 DEF Reads

LEMMA FillBegins ==
  ASSUME RInv, fill.on, NEW a, a = Avail(r)
  PROVE  /\ \E base, h, g, d, l :
              Reads(stream, base, a, h, g, d, l, r, fill, out, hashed, seen)
         /\ r.open = TRUE /\ EndOK(r, out, result)
<1>1. r.open \in BOOLEAN
  BY ReaderFields DEF RInv, Shape
<1>2. r.open
  <2> SUFFICES ASSUME ~r.open PROVE FALSE
    BY <1>1
  <2>1. fill = NoFill
    BY DEF RInv, Fresh
  <2> QED BY <2>1 DEF NoFill
<1> QED BY <1>1, <1>2 DEF RInv

(* do_fill_buffer() returns: enough was read, or there is no more. *)
LEMMA FillEndStep ==
  ASSUME stream \in Seq(Symbols), RInv, FillEnd
  PROVE  ReaderStep
<1> DEFINE a == Avail(r)
           z == NewBuffer(AfterRead)
           f == NoFill
           hs == hashed \o Chunk
           c == Len(Chunk)
           amount == fill.amount
           hard == fill.hard
           consume == fill.consume
<1>1. /\ fill.on /\ (IsShort \/ IsFilled)
      /\ FromBuffer(z, amount, hard, consume)
      /\ hashed' = hs /\ fill' = f /\ w' = w /\ stream' = stream /\ torn' = torn
  BY DEF FillEnd, Hash, ReaderOnly
<1>2. a = Avail(r) /\ z = NewBuffer(AfterRead) /\ f = NoFill /\ hs = hashed \o Chunk /\ c = Len(Chunk)
  OBVIOUS
<1> HIDE DEF a, z, f, hs, c
<1>3. r.open = TRUE
  BY <1>1, <1>2, FillBegins
<1>4. PICK base, h, g, d, l :
        Reads(stream, base, a, h, g, d, l, r, fill, out, hashed, seen)
  BY <1>1, <1>2, FillBegins
<1>5. Filling(base, a, h, g, d, l, c)
  BY <1>1, <1>2, <1>4, FillFacts
<1>6. Spot(stream, base, a, h, g, d, r)
  BY <1>4 DEF Reads
<1> DEFINE i == g + c
           e == d - c
<1>7. i = g + c /\ e = d - c
  OBVIOUS
<1> HIDE DEF i, e
<1>8. /\ Reads(stream, base, a, h, i, e, l, z, f, out, hs, seen)
      /\ z.open = r.open /\ z.cut = r.cut /\ z.last = r.last /\ z.some = TRUE
      /\ z.partial_body_length = r.partial_body_length - c
  <2>1. Reads(stream, base, a, h, i, e, l, z, f, out, hs, seen) /\ Renewed(z, c)
    BY <1>2, <1>5, <1>6, <1>7, NewBufferReads
  <2> QED BY <2>1 DEF Renewed
<1> DEFINE q == r.partial_body_length
           v == ToRead
<1>9. /\ l \in Nat /\ g \in Nat /\ d \in Nat /\ a \in Nat /\ l <= g
      /\ g - l < amount /\ amount \in Nat
      /\ v = Lesser(q, amount - (g - l)) /\ v \in Nat /\ c \in Nat /\ c = Lesser(v, d)
      /\ q \in Nat /\ Len(fill.buf) = g - l
  BY <1>5 DEF Filling
<1>10. /\ d <= q /\ (d < q => r.cut /\ g + d = a)
       /\ r.last /\ d = q => g + d = a
  BY <1>5 DEF Filling, InBody
<1>11. IsShort <=> c < v
  BY <1>2 DEF IsShort
<1>12. IsFilled <=> (g - l + c = amount \/ r.last)
  BY <1>2, <1>9 DEF IsFilled
<1>13. \/ i - l >= amount
       \/ i = a /\ (r.cut \/ (r.last /\ q - c = 0))
  <2>1. CASE c < v
    <3>1. c = d /\ d < q
      BY <1>9, <1>10, <2>1 DEF Lesser
    <3> QED BY <1>7, <1>10, <3>1
  <2>2. CASE g - l + c = amount
    BY <1>7, <1>9, <2>2
  <2>3. CASE ~(c < v) /\ g - l + c # amount /\ r.last
    <3>1. c = q /\ d = q
      BY <1>9, <1>10, <2>3 DEF Lesser
    <3> QED BY <1>7, <1>9, <1>10, <2>3, <3>1
  <2> QED BY <1>1, <1>11, <1>12, <2>1, <2>2, <2>3
<1>14. i - l >= amount \/ i = a
  BY <1>13
<1>15. i = l => z.cut \/ (z.last /\ z.partial_body_length = 0 /\ i = a)
  <2> SUFFICES ASSUME i = l PROVE z.cut \/ (z.last /\ z.partial_body_length = 0 /\ i = a)
    OBVIOUS
  <2>1. ~(i - l >= amount)
    BY <1>9
  <2>2. i = a /\ (r.cut \/ (r.last /\ r.partial_body_length - c = 0))
    BY <1>13, <2>1
  <2> QED BY <1>8, <2>2
<1>16. hard \in BOOLEAN /\ consume \in BOOLEAN /\ amount \in Nat /\ amount > 0
  <2>1. fill \in Fills
    BY <1>5 DEF Filling
  <2> QED BY <1>9, <2>1, FillFields
<1>17. f.on = FALSE
  BY <1>2 DEF NoFill
<1> HIDE DEF amount, hard, consume
<1>18. BufferCall(base, a, h, i, e, l, z, f, hs, amount, hard, consume)
  BY <1>1, <1>8, <1>14, <1>15, <1>16, <1>17 DEF BufferCall
<1> QED BY <1>2, <1>3, <1>18, FromBufferStep

(* do_fill_buffer() runs into the cut and keeps what it has read. *)
LEMMA FillErrorStep ==
  ASSUME stream \in Seq(Symbols), RInv, FillError
  PROVE  ReaderStep
<1> DEFINE a == Avail(r)
           z == NewBuffer(AfterRead)
           f == NoFill
           hs == hashed \o Chunk
           c == Len(Chunk)
           amount == fill.amount
           call == NameOf(fill.hard, fill.consume)
           err == TRUE
           data == <<>>
           took == 0
           res == [call |-> call, amount |-> amount, err |-> err, data |-> data]
<1>1. /\ fill.on /\ ~IsShort /\ ~IsFilled
      /\ Return(call, amount, err, data, took)
      /\ hashed' = hs /\ fill' = f /\ w' = w /\ stream' = stream /\ torn' = torn /\ r' = z
  BY DEF FillError, Hash, ReaderOnly
<1>2. a = Avail(r) /\ z = NewBuffer(AfterRead) /\ f = NoFill /\ hs = hashed \o Chunk /\ c = Len(Chunk)
  OBVIOUS
<1>3. result' = res
  BY <1>1 DEF Return
<1>4. err = TRUE /\ data = <<>> /\ took = 0 /\ res.err = TRUE
  OBVIOUS
<1> HIDE DEF a, z, f, hs, c, call, err, data, took, res
<1>5. r.open = TRUE
  BY <1>1, <1>2, FillBegins
<1>6. PICK base, h, g, d, l :
        Reads(stream, base, a, h, g, d, l, r, fill, out, hashed, seen)
  BY <1>1, <1>2, FillBegins
<1>7. Filling(base, a, h, g, d, l, c)
  BY <1>1, <1>2, <1>6, FillFacts
<1>8. Spot(stream, base, a, h, g, d, r)
  BY <1>6 DEF Reads
<1> DEFINE i == g + c
           e == d - c
<1>9. i = g + c /\ e = d - c
  OBVIOUS
<1> HIDE DEF i, e
<1>10. /\ Reads(stream, base, a, h, i, e, l, z, f, out, hs, seen)
       /\ z.open = r.open /\ z.cut = r.cut
  <2>1. Reads(stream, base, a, h, i, e, l, z, f, out, hs, seen) /\ Renewed(z, c)
    BY <1>2, <1>7, <1>8, <1>9, NewBufferReads
  <2> QED BY <2>1 DEF Renewed
<1> DEFINE v == ToRead
<1>11. /\ l \in Nat /\ g \in Nat /\ d \in Nat /\ a \in Nat /\ l <= g /\ seen \in Nat
       /\ g - l < amount /\ amount \in Nat
       /\ v = Lesser(r.partial_body_length, amount - (g - l)) /\ c \in Nat /\ c = Lesser(v, d)
       /\ Len(fill.buf) = g - l /\ seen <= g - l + c /\ r.partial_body_length \in Nat
  BY <1>7 DEF Filling
<1>12. g + d <= a
  BY <1>7 DEF Filling, InBody
<1>13. g - l + c # amount
  BY <1>1, <1>2, <1>11 DEF IsFilled
<1> HIDE DEF v
<1>20. c <= v /\ c <= d /\ v <= amount - (g - l) /\ v \in Int
  <2>1. v <= amount - (g - l) /\ v \in Int
    BY <1>11 DEF Lesser
  <2> QED BY <1>11, <2>1 DEF Lesser
<1>14. seen < amount /\ l + seen <= a
  BY <1>11, <1>12, <1>13, <1>20
<1>15. Consumed(l, a)
  BY <1>2, <1>5, <1>6, ConsumedIs
<1>16. Own' = Own
  BY <1>1, <1>10, OwnSame
<1> HIDE DEF amount
<1>17. Abstract!Next /\ out' = out /\ seen' = seen
  BY <1>1, <1>4, <1>11, <1>14, <1>15, <1>16, FailStep
<1>18. EndOK(z, out, res)
  BY <1>4 DEF EndOK
<1>19. RInv'
  BY <1>1, <1>2, <1>3, <1>5, <1>10, <1>17, <1>18, ReaderInto
<1> QED BY <1>17, <1>19 DEF ReaderStep

(* After an exhausted chunk comes the header of the next. *)
NextAt(s, base, g, k) == k \in Headers(s) /\ base[k] = g /\ k \in Nat /\ k <= Len(s) /\ s[k].n \in Nat

(* Behind a partial chunk that was read comes the header of the next. *)
LEMMA NextChunk ==
  ASSUME NEW s \in Seq(Symbols), NEW base, NEW a, NEW h, NEW g, NEW d, NEW x \in Readers,
         Spot(s, base, a, h, g, d, x), x.partial_body_length = 0, ~x.last,
         x.pos < Len(s), NEW k, k = x.pos + 1
  PROVE  NextAt(s, base, g, k)
<1> DEFINE p == x.pos
           n == s[h].n
           l == Len(s)
           b == base[h]
           end == h + n
<1>1. /\ h \in Headers(s) /\ p + x.partial_body_length = end
      /\ x.last <=> s[h].tag = "full"
      /\ g = b + (p - h)
  BY DEF Spot, ReaderIn
<1>2. p \in Nat /\ l \in Nat
  BY ReaderFields, LenProperties
<1>3. h \in 1 .. l /\ Headers(s) \subseteq 1 .. l
  BY <1>1, HeaderPlaces
<1>4. n \in Nat /\ b \in Nat /\ FrameOK(s, base, a, x.cut, h)
  BY <1>1, <1>3, SymbolAt DEF Spot, Opened
<1>5. \/ s[h].tag = "partial" /\ end + 1 \in Headers(s) /\ base[end + 1] = b + n
      \/ s[h].tag = "full"
      \/ end >= l
  BY <1>4 DEF FrameOK
<1>6. p < l /\ end = h + n /\ k = p + 1 /\ x.partial_body_length = 0
  OBVIOUS
<1> HIDE DEF p, n, l, b, end
<1>7. p = end /\ g = b + n /\ k = end + 1
  BY <1>1, <1>2, <1>3, <1>4, <1>6
<1>8. end + 1 \in Headers(s) /\ base[end + 1] = b + n
  BY <1>1, <1>2, <1>5, <1>6, <1>7
<1>9. k \in Headers(s) /\ base[k] = g
  BY <1>7, <1>8
<1>10. k \in 1 .. l
  BY <1>3, <1>9
<1>11. s[k].n \in Nat
  BY <1>10, SymbolAt DEF l
<1> QED BY <1>2, <1>9, <1>10, <1>11 DEF NextAt, l

(* The header has been read. *)
Entered(x, y, s, k) ==
  /\ y \in Readers /\ y.open = x.open /\ y.cut = x.cut /\ y.hash_headers = x.hash_headers
  /\ y.some = x.some /\ y.buffer = x.buffer /\ y.cursor = x.cursor
  /\ y.pos = k /\ y.partial_body_length = s[k].n /\ (y.last <=> s[k].tag = "full")

(* Entering a chunk. *)
LEMMA EnterFields ==
  ASSUME NEW s, NEW x \in Readers, NEW k \in Nat, k = x.pos + 1, s[k].n \in Nat,
         NEW y, y = [x EXCEPT !.pos = @ + 1, !.partial_body_length = s[k].n,
                              !.last = s[k].tag = "full"]
  PROVE  Entered(x, y, s, k)
<1> DEFINE n == s[k].n
           b == s[k].tag = "full"
<1>1. n \in Nat /\ b \in BOOLEAN
  OBVIOUS
<1>2. y = [x EXCEPT !.pos = k, !.partial_body_length = n, !.last = b]
  BY DEF Readers
<1> HIDE DEF n, b
<1>3. y \in Readers
  BY <1>1, <1>2 DEF Readers
<1>4. /\ y.open = x.open /\ y.cut = x.cut /\ y.hash_headers = x.hash_headers
      /\ y.some = x.some /\ y.buffer = x.buffer /\ y.cursor = x.cursor
  BY <1>2 DEF Readers
<1>5. y.pos = k /\ y.partial_body_length = n /\ y.last = b
  BY <1>2 DEF Readers
<1> QED BY <1>3, <1>4, <1>5 DEF Entered, n, b

LEMMA EnterSpot ==
  ASSUME NEW s \in Seq(Symbols), NEW base, NEW a, NEW h, NEW g, NEW d, NEW x,
         Spot(s, base, a, h, g, d, x), NEW k, NextAt(s, base, g, k), g \in Nat,
         NEW y, Entered(x, y, s, k), NEW e, e = Lesser(s[k].n, Len(s) - k)
  PROVE  Spot(s, base, a, k, g, e, y)
<1>1. /\ y.cut = x.cut /\ y.pos = k /\ y.partial_body_length = s[k].n
      /\ y.last <=> s[k].tag = "full"
  BY DEF Entered
<1>2. k \in Headers(s) /\ base[k] = g /\ k \in Nat /\ k <= Len(s) /\ s[k].n \in Nat
  BY DEF NextAt
<1>3. g = base[k] + (y.pos - k)
  BY <1>1, <1>2
<1>4. k <= y.pos /\ y.pos <= Len(s) /\ y.pos + y.partial_body_length = k + s[k].n
  BY <1>1, <1>2
<1>5. ReaderIn(s, base, k, y, g)
  BY <1>1, <1>2, <1>3, <1>4 DEF ReaderIn
<1> QED BY <1>1, <1>5 DEF Spot

(* do_fill_buffer() goes on to the next chunk. *)
LEMMA FillHeaderStep ==
  ASSUME stream \in Seq(Symbols), RInv, FillHeader
  PROVE  ReaderStep
<1> DEFINE a == Avail(r)
           x == AfterRead
           k == x.pos + 1
           y == [x EXCEPT !.pos = @ + 1, !.partial_body_length = stream[k].n,
                          !.last = stream[k].tag = "full"]
           t == fill.buf \o Chunk
           f == [fill EXCEPT !.buf = t]
           more == Chunk \o IF r.hash_headers THEN <<stream[k]>> ELSE <<>>
           hs == hashed \o more
           c == Len(Chunk)
           amount == fill.amount
<1>1. /\ fill.on /\ ~IsShort /\ ~IsFilled /\ ~(x.pos >= Len(stream))
      /\ r' = y /\ fill' = f /\ hashed' = hs /\ w' = w /\ stream' = stream /\ torn' = torn
      /\ out' = out /\ result' = result /\ seen' = seen
  BY DEF FillHeader, NoHeader, Hash, ReaderOnly
<1>2. /\ a = Avail(r) /\ x = AfterRead /\ c = Len(Chunk) /\ t = fill.buf \o Chunk
      /\ k = x.pos + 1 /\ amount = fill.amount
  OBVIOUS
<1>3. y = [x EXCEPT !.pos = @ + 1, !.partial_body_length = stream[k].n,
                    !.last = stream[k].tag = "full"]
  OBVIOUS
<1>4. f = [fill EXCEPT !.buf = t]
  OBVIOUS
<1> HIDE DEF a, x, k, y, t, f, hs, c, amount
<1>5. r.open = TRUE /\ EndOK(r, out, result)
  BY <1>1, <1>2, FillBegins
<1>6. PICK base, h, g, d, l :
        Reads(stream, base, a, h, g, d, l, r, fill, out, hashed, seen)
  BY <1>1, <1>2, FillBegins
<1>7. Filling(base, a, h, g, d, l, c)
  BY <1>1, <1>2, <1>6, FillFacts
<1>8. Spot(stream, base, a, h, g, d, r)
  BY <1>6 DEF Reads
<1> DEFINE i == g + c
           e == d - c
           v == ToRead
           q == r.partial_body_length
<1>9. i = g + c /\ e = d - c
  OBVIOUS
<1> HIDE DEF i, e
<1>10. Moved(r, x, c) /\ Spot(stream, base, a, h, i, e, x)
  BY <1>2, <1>7, <1>8, <1>9, AfterReadIs
<1>11. /\ l \in Nat /\ g \in Nat /\ d \in Nat /\ a \in Nat /\ l <= g /\ seen \in Nat
       /\ g - l < amount /\ amount \in Nat
       /\ v = Lesser(q, amount - (g - l)) /\ v \in Nat /\ c \in Nat /\ c = Lesser(v, d)
       /\ q \in Nat /\ Len(fill.buf) = g - l /\ seen <= g - l + c
  BY <1>2, <1>7 DEF Filling
<1>12. ~r.last /\ g - l + c # amount /\ ~(c < v)
  BY <1>1, <1>2, <1>11 DEF IsFilled, IsShort
<1>13. c = q /\ g - l + c < amount
  BY <1>11, <1>12 DEF Lesser
<1>14. /\ x \in Readers /\ x.open = r.open /\ x.cut = r.cut /\ x.last = r.last
       /\ x.hash_headers = r.hash_headers /\ x.some = r.some
       /\ x.buffer = r.buffer /\ x.cursor = r.cursor
       /\ x.partial_body_length = q - c
  BY <1>10 DEF Moved
<1>15. x.partial_body_length = 0 /\ ~x.last
  BY <1>11, <1>12, <1>13, <1>14
<1>34. x.pos < Len(stream)
  BY <1>1, <1>14, ReaderFields, LenProperties
<1>16. NextAt(stream, base, i, k)
  BY <1>2, <1>10, <1>14, <1>15, <1>34, NextChunk
<1>17. k \in Nat /\ stream[k].n \in Nat
  BY <1>16 DEF NextAt
<1>18. Entered(x, y, stream, k)
  BY <1>2, <1>3, <1>14, <1>17, EnterFields
<1> DEFINE j == Lesser(stream[k].n, Len(stream) - k)
<1>19. j = Lesser(stream[k].n, Len(stream) - k)
  OBVIOUS
<1> HIDE DEF j
<1>20. i \in Nat
  BY <1>9, <1>11, SMTT(30)
<1>21. Spot(stream, base, a, k, i, j, y)
  BY <1>10, <1>16, <1>18, <1>19, <1>20, EnterSpot
<1>22. /\ y \in Readers /\ y.open = r.open /\ y.cut = r.cut
       /\ y.hash_headers = r.hash_headers /\ y.some = r.some
       /\ y.buffer = r.buffer /\ y.cursor = r.cursor
  BY <1>14, <1>18 DEF Entered
<1>23. t = Bytes(l + 1, i) /\ Len(t) = g - l + c /\ t \in Seq(Symbols)
  <2>1. Joined(t, l, g, c)
    BY <1>2, <1>7, FillJoins
  <2> QED BY <1>9, <2>1 DEF Joined
<1>24. f \in Fills /\ f.on /\ f.amount = amount /\ f.buf = t
  <2>1. fill \in Fills
    BY <1>7 DEF Filling
  <2> QED BY <1>1, <1>2, <1>4, <1>23, <2>1 DEF Fills
<1>25. Shape(y, f)
  <2>1. Len(f.buf) < f.amount
    BY <1>13, <1>23, <1>24
  <2>2. Shape(r, fill)
    BY DEF RInv
  <2> QED BY <1>22, <1>24, <2>1, <2>2 DEF Shape
<1>26. j \in Nat
  <2>1. k \in Nat /\ k <= Len(stream) /\ Len(stream) \in Nat
    BY <1>16, LenProperties DEF NextAt
  <2> QED BY <1>17, <1>19, <2>1 DEF Lesser
<1>27. /\ hs \in Seq(Symbols)
       /\ ~y.hash_headers => hs = Bytes(1, i)
  <2>1. /\ Chunk \in Seq(Symbols) /\ hashed \in Seq(Symbols)
        /\ ~r.hash_headers => hashed = Bytes(1, g)
        /\ Chunk = Bytes(g + 1, g + c)
    BY <1>7 DEF Filling
  <2>2. stream[k] \in Symbols
    <3>1. k \in Headers(stream)
      BY <1>16 DEF NextAt
    <3>2. k \in 1 .. Len(stream)
      BY <3>1, HeaderPlaces
    <3> QED BY <3>2, SymbolAt
  <2>3. CASE r.hash_headers
    <3> DEFINE u == <<stream[k]>>
    <3>1. u \in Seq(Symbols)
      BY <2>2
    <3>2. more = Chunk \o u
      BY <2>3
    <3> HIDE DEF u, more
    <3>3. more \in Seq(Symbols)
      BY <2>1, <3>1, <3>2, ConcatIs
    <3>4. hashed \o more \in Seq(Symbols)
      BY <2>1, <3>3, ConcatIs
    <3> QED BY <1>22, <2>3, <3>4 DEF hs
  <2>4. CASE ~r.hash_headers
    <3>1. more = Chunk \o <<>>
      BY <2>4
    <3> HIDE DEF more
    <3>2. more = Chunk
      BY <2>1, <3>1, ConcatEmptySeq
    <3>3. hs = hashed \o Chunk
      BY <3>2 DEF hs
    <3>4. HashedMore(hashed, Chunk, g, c)
      BY <1>11, <2>1, HashMore
    <3> QED BY <1>9, <1>22, <2>1, <2>4, <3>3, <3>4 DEF HashedMore
  <2> QED BY <2>3, <2>4
<1>28. Holding(y, f, out, hs, seen, l, i, j)
  <2>1. Held(y, f) = Bytes(l + 1, i)
    BY <1>23, <1>24 DEF Held
  <2>2. InView(y, f, j) = Len(t) + Lesser(j, amount - Len(t))
    BY <1>24 DEF InView
  <2>3. seen <= Len(t) + Lesser(j, amount - Len(t))
    <3> DEFINE n == Len(t)
    <3>1. n = g - l + c /\ n < amount /\ seen <= n
      BY <1>11, <1>13, <1>23
    <3>2. n \in Nat /\ amount \in Nat /\ j \in Nat /\ seen \in Nat
      BY <1>11, <1>26, <3>1
    <3> HIDE DEF n
    <3>3. seen <= n + Lesser(j, amount - n)
      BY <3>1, <3>2 DEF Lesser
    <3> QED BY <3>3 DEF n
  <2>4. out = Bytes(1, l)
    BY <1>7 DEF Filling
  <2>5. l <= i
    BY <1>9, <1>11
  <2> QED BY <1>11, <1>27, <2>1, <2>2, <2>3, <2>4, <2>5 DEF Holding
<1>29. Reads(stream, base, a, k, i, j, l, y, f, out, hs, seen)
  BY <1>21, <1>25, <1>28 DEF Reads
<1>30. EndOK(y, out, result)
  BY <1>5, <1>12, <1>22 DEF EndOK
<1>31. y.open = r.open /\ y.cut = r.cut
  BY <1>22
<1>32. RInv'
  BY <1>1, <1>2, <1>5, <1>29, <1>30, <1>31, ReaderInto
<1>33. Own' = Own
  BY <1>1, <1>31, OwnSame
<1> QED BY <1>1, <1>32, <1>33 DEF ReaderStep, Abstract!streamVars, Hard

-----------------------------------------------------------------------------
(* Calls that go to the reader below. *)

(* The bytes of the chunk that the reader below has. *)
LEMMA BelowIs ==
  ASSUME stream \in Seq(Symbols), NEW x \in Readers, NEW a, NEW g, NEW d,
         InBody(stream, x, a, g, d), NEW t, t = Left(x)
  PROVE  /\ t \in Seq(Symbols) /\ Len(t) = Len(stream) - x.pos /\ d <= Len(t)
         /\ Take(t, x.partial_body_length) = Bytes(g + 1, g + d)
<1> DEFINE q == x.partial_body_length
           v == Take(Drop(stream, x.pos), q)
<1>1. /\ x.pos \in Nat /\ q \in Nat /\ d \in Nat /\ x.pos + d <= Len(stream)
      /\ Len(stream) \in Nat /\ d <= q
  BY ReaderFields DEF InBody
<1>2. x.pos <= Len(stream)
  BY <1>1
<1>3. t = Drop(stream, x.pos)
  BY DEF Left
<1>4. t \in Seq(Symbols) /\ Len(t) = Len(stream) - x.pos
  BY <1>1, <1>2, <1>3, DropIs
<1>5. d <= Len(t)
  BY <1>1, <1>4
<1> DEFINE n == q
           e == Lesser(n, d)
<1>6. e = Lesser(n, d) /\ n \in Nat /\ n <= x.partial_body_length
  BY <1>1
<1>7. e = d
  BY <1>1 DEF Lesser
<1>8. v = Take(Drop(stream, x.pos), n)
  BY <1>3
<1>9. v = Take(t, q)
  BY <1>3
<1> HIDE DEF v, n, e
<1>10. v = Bytes(g + 1, g + e)
  BY <1>6, <1>8, ReadIs
<1> QED BY <1>4, <1>5, <1>7, <1>9, <1>10

(* A reader without a buffer goes on by n bytes. *)
EatsBelow(s, base, a, h, g, d, x, f, o, hs, sn, n, y, p, hp, m) ==
  /\ Reads(s, base, a, h, g, d, g, x, f, o, hs, sn) /\ f.on = FALSE /\ ~x.some
  /\ n \in Nat /\ n <= d /\ Moved(x, y, n) /\ m \in Nat /\ m <= d - n
  /\ p = Bytes(1, g + n) /\ hp = hs \o Bytes(g + 1, g + n)

(* Bytes that go from the reader below to the caller, past the buffer. *)
LEMMA EatBelow ==
  ASSUME NEW s \in Seq(Symbols), NEW base, NEW a, NEW h, NEW g, NEW d,
         NEW x, NEW f, NEW o, NEW hs, NEW sn, NEW n, NEW y, NEW p, NEW hp, NEW m,
         EatsBelow(s, base, a, h, g, d, x, f, o, hs, sn, n, y, p, hp, m),
         NEW i, i = g + n, NEW e, e = d - n
  PROVE  Reads(s, base, a, h, i, e, i, y, f, p, hp, m)
<1> DEFINE l == g
           t == Bytes(g + 1, g + n)
<1> USE DEF EatsBelow
<1>1. /\ g \in Nat /\ d \in Nat /\ x \in Readers /\ f \in Fills
  BY ReadsFacts
<1>2. Spot(s, base, a, h, g, d, x) /\ Shape(x, f)
  BY DEF Reads
<1>3. hs \in Seq(Symbols) /\ (~x.hash_headers => hs = Bytes(1, g))
  BY DEF Reads, Holding
<1>4. /\ y \in Readers /\ y.some = x.some /\ y.buffer = x.buffer /\ y.cursor = x.cursor
      /\ y.hash_headers = x.hash_headers
  BY DEF Moved
<1>5. Spot(s, base, a, h, i, e, y)
  BY <1>1, <1>2, Advance
<1>6. HashedMore(hs, t, g, n)
  BY <1>1, <1>3, HashMore
<1>7. hp \in Seq(Symbols) /\ (~y.hash_headers => hp = Bytes(1, i))
  BY <1>3, <1>4, <1>6 DEF HashedMore
<1>8. Shape(y, f)
  BY <1>2, <1>4 DEF Shape
<1>9. Held(y, f) = Bytes(i + 1, i)
  <2>1. Drop(x.buffer, x.cursor) = Bytes(l + 1, g)
    BY DEF Reads, Holding, Held
  <2> DEFINE j == g + 1
             k == i + 1
  <2>2. j \in Nat /\ j > 0 /\ g = j - 1 /\ k \in Nat /\ k > 0 /\ i = k - 1 /\ l + 1 = j
    BY <1>1
  <2> HIDE DEF j, k
  <2>3. Bytes(j, g) = <<>> /\ Bytes(k, i) = <<>>
    BY <2>2, EmptyRun
  <2>4. Drop(x.buffer, x.cursor) = Bytes(k, i)
    BY <2>1, <2>2, <2>3
  <2> QED BY <1>4, <2>4 DEF Held, k
<1>10. InView(y, f, e) = e
  BY <1>4 DEF InView
<1>11. i \in Nat /\ i <= i /\ m <= e
  BY <1>1
<1>12. Holding(y, f, p, hp, m, i, i, e)
  BY <1>7, <1>9, <1>10, <1>11 DEF Holding
<1> QED BY <1>5, <1>8, <1>12 DEF Reads

(* What a call eats of the reader below.  Where it asks for more than the  *)
(* chunk has, nothing follows the chunk that it could take.                *)
LEMMA Below ==
  ASSUME NoOverrun, stream \in Seq(Symbols), NEW x \in Readers, NEW a, NEW g, NEW d,
         InBody(stream, x, a, g, d), NEW amount \in Nat, NEW hard \in BOOLEAN,
         NEW consume \in BOOLEAN, consume => NameOf(hard, consume) \in Calls,
         amount <= x.partial_body_length \/ x.last, NEW t, t = Left(x)
  PROVE  /\ consume /\ d < amount => Len(t) = d
         /\ d < amount => g + d = a
         /\ d = 0 /\ amount > 0 => x.cut \/ (x.last /\ x.partial_body_length = 0)
<1>1. /\ d \in Nat /\ d <= x.partial_body_length /\ x.partial_body_length \in Nat
      /\ x.pos \in Nat /\ Len(stream) \in Nat
      /\ d < x.partial_body_length => x.cut /\ g + d = a /\ x.pos + d = Len(stream)
      /\ x.last /\ d = x.partial_body_length =>
           g + d = a /\ (x.pos + d = Len(stream) \/ x.pos + d + Following = Len(stream))
  BY ReaderFields DEF InBody
<1>2. Len(t) = Len(stream) - x.pos
  BY BelowIs
<1>3. consume => Following = 0
  <2> SUFFICES ASSUME consume PROVE Following = 0
    OBVIOUS
  <2>1. NameOf(hard, consume) \notin {"data", "data_hard"}
    BY DEF NameOf
  <2> QED BY <2>1 DEF NoOverrun
<1>4. consume /\ d < amount => Len(t) = d
  <2> SUFFICES ASSUME consume, d < amount PROVE Len(t) = d
    OBVIOUS
  <2>1. Following = 0
    BY <1>3
  <2> QED BY <1>1, <1>2, <2>1
<1>5. d < amount => g + d = a
  BY <1>1
<1>6. d = 0 /\ amount > 0 => x.cut \/ (x.last /\ x.partial_body_length = 0)
  BY <1>1
<1> QED BY <1>4, <1>5, <1>6

(* data_helper() without a buffer; this is where the caller may run over   *)
(* the packet.                                                             *)
LEMMA DirectStep ==
  ASSUME NoOverrun, stream \in Seq(Symbols), RInv, NEW amount \in Nat,
         NEW hard \in BOOLEAN, NEW consume \in BOOLEAN, Direct(amount, hard, consume)
  PROVE  ReaderStep
<1> DEFINE x == Tidy(r)
           a == Avail(r)
           below == Left(x)
           fails == hard /\ consume /\ Len(below) < amount
           eaten == IF consume /\ ~fails THEN Take(below, amount) ELSE <<>>
           read == Take(below, x.partial_body_length)
           err == fails \/ (hard /\ Len(read) < amount)
           took == IF consume /\ ~err THEN Lesser(amount, Len(read)) ELSE 0
           y == [x EXCEPT !.pos = @ + Len(eaten), !.partial_body_length = @ - took]
           call == NameOf(hard, consume)
           data == IF err THEN <<>> ELSE read
           res == [call |-> call, amount |-> amount, err |-> err, data |-> data]
           hs == hashed \o eaten
<1>1. /\ r.open /\ ~fill.on /\ amount > 0 /\ call \in Calls
      /\ ~x.some /\ (amount <= x.partial_body_length \/ x.last)
      /\ r' = y /\ hashed' = hs
      /\ Return(call, amount, err, data, took)
      /\ fill' = fill /\ w' = w /\ stream' = stream /\ torn' = torn
  BY DEF Direct, Caller, Hash, ReaderOnly
<1>2. x = Tidy(r) /\ a = Avail(r) /\ below = Left(x)
  OBVIOUS
<1>3. result' = res
  BY <1>1 DEF Return
<1>4. y = [x EXCEPT !.pos = @ + Len(eaten), !.partial_body_length = @ - took]
  OBVIOUS
<1>5. eaten = IF consume /\ ~fails THEN Take(below, amount) ELSE <<>>
  OBVIOUS
<1>6. read = Take(below, x.partial_body_length)
  OBVIOUS
<1>7. /\ fails \in BOOLEAN /\ err \in BOOLEAN
      /\ fails <=> (hard /\ consume /\ Len(below) < amount)
      /\ err <=> (fails \/ (hard /\ Len(read) < amount))
  OBVIOUS
<1>8. took = IF consume /\ ~err THEN Lesser(amount, Len(read)) ELSE 0
  OBVIOUS
<1>9. (err => data = <<>>) /\ (~err => data = read)
  OBVIOUS
<1>10. res = [call |-> call, amount |-> amount, err |-> err, data |-> data]
  OBVIOUS
<1>11. hs = hashed \o eaten
  OBVIOUS
<1>12. consume => NameOf(hard, consume) \in Calls
  BY <1>1
<1> HIDE DEF x, a, below, fails, eaten, read, err, took, y, call, data, res, hs
<1>13. r.open = TRUE /\ fill.on = FALSE
  BY <1>1, <1>2, CallBegins
<1>14. PICK base, h, g, d, l : Settled(base, a, h, g, d, l, x)
  BY <1>1, <1>2, CallBegins
<1>15. Reads(stream, base, a, h, g, d, l, x, fill, out, hashed, seen)
  BY <1>14 DEF Settled
<1>16. x.open = r.open /\ x.cut = r.cut /\ l = g
  BY <1>1, <1>14 DEF Settled
<1>17. /\ InBody(stream, x, a, g, d) /\ x \in Readers /\ g \in Nat /\ d \in Nat /\ a \in Nat
       /\ g + d <= a /\ seen \in Nat
  BY <1>15, ReadsFacts
<1>18. seen <= d
  <2>1. Buffering(x, l, g, d, seen)
    BY <1>13, <1>15, BufferIs
  <2> QED BY <1>1, <2>1 DEF Buffering
<1>19. below \in Seq(Symbols) /\ d <= Len(below) /\ read = Bytes(g + 1, g + d)
  BY <1>2, <1>6, <1>17, BelowIs
<1>20. /\ consume /\ d < amount => Len(below) = d
       /\ d < amount => g + d = a
       /\ d = 0 /\ amount > 0 => x.cut \/ (x.last /\ x.partial_body_length = 0)
  BY <1>1, <1>2, <1>12, <1>17, Below
<1>21. Len(read) = d
  <2> DEFINE i == g + 1
             j == g + d
  <2>1. i \in Nat /\ i > 0 /\ j \in Int /\ i - 1 <= j /\ j - i + 1 = d
    BY <1>17
  <2>2. read = Bytes(i, j)
    BY <1>19
  <2> HIDE DEF i, j
  <2> QED BY <2>1, <2>2, RunIs
<1>22. err <=> (hard /\ d < amount)
  BY <1>7, <1>17, <1>19, <1>20, <1>21, LenProperties
<1>23. fails <=> (hard /\ consume /\ d < amount)
  BY <1>7, <1>17, <1>19, <1>20, LenProperties
<1>24. took = IF consume /\ ~err THEN Lesser(amount, d) ELSE 0
  BY <1>8, <1>21
<1>25. took \in Nat /\ took <= d /\ (took = 0 \/ took = Lesser(amount, d)) /\ took <= x.partial_body_length
  <2>1. d <= x.partial_body_length /\ x.partial_body_length \in Nat
    BY <1>17, ReaderFields DEF InBody
  <2> QED BY <1>17, <1>24, <2>1 DEF Lesser
<1>26. eaten = Bytes(g + 1, g + took)
  <2>1. CASE consume /\ ~err
    <3>1. eaten = Take(below, amount)
      BY <1>5, <1>22, <1>23, <2>1
    <3>2. took = Lesser(amount, d)
      BY <1>24, <2>1
    <3> DEFINE n == took
               e == Lesser(n, d)
               v == Take(Drop(stream, x.pos), n)
    <3>3. e = took /\ e = Lesser(n, d) /\ n \in Nat /\ n <= x.partial_body_length
      BY <1>17, <1>25 DEF Lesser
    <3>4. v = Take(Drop(stream, x.pos), n)
      OBVIOUS
    <3>5. Take(below, took) = v
      BY <1>2 DEF Left
    <3> HIDE DEF n, e, v
    <3>6. v = Bytes(g + 1, g + e)
      BY <1>17, <3>3, <3>4, ReadIs
    <3>7. Lesser(amount, Len(below)) = Lesser(took, Len(below))
      <4>1. Len(below) \in Nat
        BY <1>19, LenProperties
      <4>2. d < amount => Len(below) = d
        BY <1>20, <2>1
      <4> QED BY <1>17, <1>19, <3>2, <4>1, <4>2 DEF Lesser
    <3>8. Take(below, amount) = Take(below, took)
      BY <3>7 DEF Take
    <3> QED BY <3>1, <3>3, <3>5, <3>6, <3>8
  <2>2. CASE ~(consume /\ ~err)
    <3>1. eaten = <<>>
      BY <1>5, <1>7, <1>22, <1>23, <2>2
    <3>2. took = 0
      BY <1>24, <2>2
    <3> DEFINE i == g + 1
               j == g + took
    <3>3. i \in Nat /\ i > 0 /\ j = i - 1
      BY <1>17, <3>2
    <3> HIDE DEF i, j
    <3>4. Bytes(i, j) = <<>>
      BY <3>3, EmptyRun
    <3> QED BY <3>1, <3>4 DEF i, j
  <2> QED BY <2>1, <2>2
<1>27. Len(eaten) = took
  <2> DEFINE i == g + 1
             j == g + took
  <2>1. i \in Nat /\ i > 0 /\ j \in Int /\ i - 1 <= j /\ j - i + 1 = took
    BY <1>17, <1>25
  <2>2. eaten = Bytes(i, j)
    BY <1>26
  <2> HIDE DEF i, j
  <2> QED BY <2>1, <2>2, RunIs
<1>28. Moved(x, y, took)
  BY <1>4, <1>17, <1>25, <1>27, MoveFields
<1>29. y.open = r.open /\ y.cut = r.cut /\ y.last = x.last
       /\ y.partial_body_length = x.partial_body_length - took
  BY <1>16, <1>28 DEF Moved
<1>30. Own' = Own
  BY <1>1, <1>29, OwnSame
<1>31. Consumed(l, a)
  BY <1>2, <1>13, <1>15, ConsumedIs
<1> DEFINE i == g + took
           e == d - took
           p == Bytes(1, i)
<1>32. i = g + took /\ e = d - took /\ p = Bytes(1, g + took)
  OBVIOUS
<1>33. out = Bytes(1, g)
  BY <1>16, <1>31 DEF Consumed
<1> HIDE DEF i, e, p
<1>34. CASE err
  <2>1. err = TRUE /\ data = <<>> /\ took = 0 /\ d < amount
    BY <1>7, <1>9, <1>22, <1>24, <1>34
  <2>2. seen < amount /\ l + seen <= a
    BY <1>16, <1>17, <1>18, <2>1
  <2>3. Abstract!Next /\ out' = out /\ seen' = seen
    BY <1>1, <1>17, <1>30, <1>31, <2>1, <2>2, FailStep
  <2>4. out = p
    BY <1>17, <1>32, <1>33, <2>1
  <2>5. seen <= d - took
    BY <1>17, <1>18, <2>1
  <2>6. EatsBelow(stream, base, a, h, g, d, x, fill, out, hashed, seen, took, y, p, hs, seen)
    BY <1>1, <1>11, <1>13, <1>15, <1>16, <1>17, <1>25, <1>26, <1>28, <1>32, <2>5 DEF EatsBelow
  <2>7. Reads(stream, base, a, h, i, e, i, y, fill, p, hs, seen)
    BY <1>32, <2>6, EatBelow
  <2>8. EndOK(y, p, res)
    BY <1>10, <2>1 DEF EndOK
  <2>9. RInv'
    BY <1>1, <1>2, <1>3, <1>13, <1>29, <2>3, <2>4, <2>7, <2>8, ReaderInto
  <2> QED BY <2>3, <2>9 DEF ReaderStep
<1>35. CASE ~err
  <2>1. err = FALSE /\ data = read
    BY <1>7, <1>9, <1>35
  <2>2. Answers(l, a, d, amount, took)
    <3>1. d >= amount \/ l + d = a
      BY <1>16, <1>17, <1>20
    <3> QED BY <1>1, <1>16, <1>17, <1>18, <1>25, <3>1 DEF Answers
  <2>3. data = Bytes(l + 1, l + d)
    BY <1>16, <1>19, <2>1
  <2>4. Abstract!Next /\ Answered(l, d, took)
    BY <1>1, <1>30, <1>31, <2>1, <2>2, <2>3, AnswerStep
  <2> DEFINE m == d - took
  <2>5. out' = p /\ seen' = m /\ m \in Nat /\ m <= d - took
    BY <1>16, <1>17, <1>25, <1>32, <2>4 DEF Answered
  <2> HIDE DEF m
  <2>6. EatsBelow(stream, base, a, h, g, d, x, fill, out, hashed, seen, took, y, p, hs, m)
    BY <1>1, <1>11, <1>13, <1>15, <1>16, <1>25, <1>26, <1>28, <1>32, <2>5 DEF EatsBelow
  <2>7. Reads(stream, base, a, h, i, e, i, y, fill, p, hs, m)
    BY <1>32, <2>6, EatBelow
  <2>8. EndOK(y, p, res)
    <3>1. CASE d # 0
      <4>1. data # <<>>
        <5>1. Len(data) # 0
          BY <1>21, <2>1, <3>1
        <5>2. Len(<<>>) = 0
          BY EmptySeq
        <5> QED BY <5>1, <5>2
      <4> QED BY <1>10, <4>1 DEF EndOK
    <3>2. CASE d = 0
      <4>1. took = 0 /\ i = g /\ g = a
        BY <1>1, <1>17, <1>20, <1>25, <1>32, <3>2
      <4>2. x.cut \/ (x.last /\ x.partial_body_length = 0)
        BY <1>1, <1>20, <3>2
      <4>3. ~x.cut => a = w.position
        BY <1>2, <1>16 DEF Avail
      <4>4. ~x.cut => p = Written
        BY <4>1, <4>3 DEF p, Written
      <4>5. y.cut \/ (y.last /\ y.partial_body_length = 0 /\ p = Written)
        BY <1>16, <1>29, <4>1, <4>2, <4>4
      <4> QED BY <4>5 DEF EndOK
    <3> QED BY <3>1, <3>2
  <2>9. RInv'
    BY <1>1, <1>2, <1>3, <1>13, <1>29, <2>5, <2>7, <2>8, ReaderInto
  <2> QED BY <2>4, <2>9 DEF ReaderStep
<1> QED BY <1>34, <1>35

(* consume(), from the buffer or from the reader below. *)
LEMMA ConsumeReaderStep ==
  ASSUME stream \in Seq(Symbols), RInv, NEW amount \in Nat, Consume(amount)
  PROVE  ReaderStep
<1> DEFINE a == Avail(r)
           t == Take(Buffer(r), amount)
           sn == seen - amount
<1>1. /\ r.open /\ ~fill.on /\ amount \in 1 .. seen
      /\ out' = out \o t /\ seen' = sn /\ result' = NoResult
      /\ fill' = fill /\ w' = w /\ stream' = stream /\ torn' = torn
  BY DEF Consume, ReaderOnly
<1>2. a = Avail(r)
  OBVIOUS
<1>3. r \in Readers /\ fill \in Fills
  BY DEF RInv, Shape
<1>4. r.open = TRUE /\ fill.on = FALSE
  BY <1>1, <1>3, ReaderFields, FillFields
<1>5. PICK base, h, g, d, l :
        Reads(stream, base, a, h, g, d, l, r, fill, out, hashed, seen)
  BY <1>1 DEF RInv
<1> HIDE DEF a
<1>6. /\ l \in Nat /\ l <= g /\ g \in Nat /\ d \in Nat /\ a \in Nat /\ g + d <= a /\ seen \in Nat
      /\ InBody(stream, r, a, g, d)
  BY <1>5, ReadsFacts
<1>7. /\ Drop(r.buffer, r.cursor) = Bytes(l + 1, g)
      /\ r.some => seen <= g - l
      /\ ~r.some => seen <= d /\ l = g
  <2>1. Buffering(r, l, g, d, seen)
    BY <1>4, <1>5, BufferIs
  <2> QED BY <2>1 DEF Buffering
<1>8. Consumed(l, a)
  BY <1>2, <1>4, <1>5, ConsumedIs
<1>9. sn \in Nat /\ amount <= seen /\ l + seen <= a /\ sn = seen - amount
  BY <1>1, <1>6, <1>7, <1>3, ReaderFields
<1> DEFINE p == Bytes(1, l + amount)
<1>10. EndOK(r', p, NoResult)
  BY DEF EndOK, NoResult
<1> HIDE DEF sn, t
<1>11. CASE r.some
  <2> DEFINE y == [r EXCEPT !.cursor = @ + amount]
             k == l + amount
             hs == hashed
  <2>1. r' = y /\ hashed' = hs
    BY <1>11 DEF Consume
  <2>2. r.some = TRUE
    BY <1>3, <1>11, ReaderFields
  <2>3. y = [r EXCEPT !.cursor = @ + amount] /\ k = l + amount /\ p = Bytes(1, l + amount)
    OBVIOUS
  <2>4. amount <= g - l /\ sn <= g - l - amount
    BY <1>6, <1>7, <1>9, <1>11
  <2>5. t = Bytes(l + 1, l + amount)
    <3> DEFINE i == l + 1
               v == Drop(r.buffer, r.cursor)
    <3>1. /\ i \in Nat /\ i > 0 /\ g \in Int /\ i - 1 <= g /\ k \in Int
          /\ (amount <= g - i + 1 => k = i - 1 + amount) /\ (amount >= g - i + 1 => k = g)
      BY <1>6, <2>4
    <3>2. v = Bytes(i, g)
      BY <1>7
    <3>3. t = Take(v, amount)
      BY <1>11 DEF t, Buffer
    <3> HIDE DEF i, v, k
    <3>4. Take(v, amount) = Bytes(i, k)
      BY <3>1, <3>2, TakeRun
    <3> QED BY <3>3, <3>4 DEF i, k
  <2> HIDE DEF y, k, hs, p
  <2>6. Reads(stream, base, a, h, g, d, k, y, fill, p, hashed, sn)
    BY <1>4, <1>5, <1>9, <2>2, <2>3, <2>4, EatBuffer
  <2>7. y.open = r.open /\ y.cut = r.cut
    BY <1>3, <2>3 DEF Readers
  <2>8. Own' = Own
    BY <1>1, <2>1, <2>7, OwnSame
  <2>9. Abstract!Next /\ out' = p
    BY <1>1, <1>6, <1>8, <1>9, <2>5, <2>8, ConsumeStep DEF p
  <2>10. hashed' = hashed /\ EndOK(y, p, NoResult)
    BY <1>10, <2>1 DEF hs
  <2> DEFINE res == NoResult
  <2>11. result' = res /\ EndOK(y, p, res)
    BY <1>1, <2>10
  <2> HIDE DEF res
  <2>12. RInv'
    BY <1>1, <1>2, <1>4, <2>1, <2>6, <2>7, <2>9, <2>10, <2>11, ReaderInto
  <2> QED BY <2>9, <2>12 DEF ReaderStep
<1>12. CASE ~r.some
  <2> DEFINE y == [r EXCEPT !.pos = @ + amount, !.partial_body_length = @ - amount]
             u == Take(Left(r), amount)
             hs == hashed \o u
             i == g + amount
             e == d - amount
  <2>1. r' = y /\ hashed' = hs
    BY <1>12 DEF Consume, Hash
  <2>2. y = [r EXCEPT !.pos = @ + amount, !.partial_body_length = @ - amount]
    OBVIOUS
  <2>3. l = g /\ amount <= d /\ sn <= d - amount
    BY <1>6, <1>7, <1>9, <1>12
  <2>4. d <= r.partial_body_length /\ r.partial_body_length \in Nat
    BY <1>3, <1>6, ReaderFields DEF InBody
  <2>5. amount <= r.partial_body_length
    BY <1>6, <2>3, <2>4
  <2>6. u = Bytes(g + 1, g + amount)
    <3> DEFINE v == Lesser(amount, d)
    <3>1. v = amount
      BY <1>6, <2>3 DEF Lesser
    <3>2. v = Lesser(amount, d)
      OBVIOUS
    <3>3. u = Take(Drop(stream, r.pos), amount)
      BY DEF Left
    <3> HIDE DEF v, u
    <3>4. u = Bytes(g + 1, g + v)
      BY <1>3, <1>6, <2>5, <3>2, <3>3, ReadIs
    <3> QED BY <3>1, <3>4
  <2>7. t = Bytes(l + 1, l + amount)
    <3> DEFINE v == Take(Left(r), r.partial_body_length)
               k == g + 1
               j == g + d
    <3>1. t = Take(v, amount)
      BY <1>12 DEF t, Buffer
    <3>2. v = Bytes(k, j)
      BY <1>3, <1>6, BelowIs
    <3>3. /\ k \in Nat /\ k > 0 /\ j \in Int /\ k - 1 <= j /\ i \in Int
          /\ (amount <= j - k + 1 => i = k - 1 + amount) /\ (amount >= j - k + 1 => i = j)
      BY <1>6, <2>3
    <3> HIDE DEF v, k, j, i
    <3>4. Take(v, amount) = Bytes(k, i)
      BY <3>2, <3>3, TakeRun
    <3> QED BY <2>3, <3>1, <3>4 DEF k, i
  <2>8. i = g + amount /\ e = d - amount /\ hs = hashed \o u /\ p = Bytes(1, g + amount)
    BY <2>3
  <2> HIDE DEF y, u, hs, i, e, p
  <2>9. Moved(r, y, amount)
    BY <1>3, <2>2, <2>5, MoveFields
  <2>10. EatsBelow(stream, base, a, h, g, d, r, fill, out, hashed, seen, amount, y, p, hs, sn)
    BY <1>4, <1>5, <1>9, <1>12, <2>3, <2>6, <2>8, <2>9 DEF EatsBelow
  <2>11. Reads(stream, base, a, h, i, e, i, y, fill, p, hs, sn)
    BY <2>8, <2>10, EatBelow
  <2>12. y.open = r.open /\ y.cut = r.cut
    BY <2>9 DEF Moved
  <2>13. Own' = Own
    BY <1>1, <2>1, <2>12, OwnSame
  <2>14. Abstract!Next /\ out' = p
    BY <1>1, <1>6, <1>8, <1>9, <2>7, <2>13, ConsumeStep DEF p
  <2> DEFINE res == NoResult
  <2>15. result' = res /\ EndOK(y, p, res)
    BY <1>1, <1>10, <2>1
  <2> HIDE DEF res
  <2>16. RInv'
    BY <1>1, <1>2, <1>4, <2>1, <2>11, <2>12, <2>14, <2>15, ReaderInto
  <2> QED BY <2>14, <2>16 DEF ReaderStep
<1> QED BY <1>11, <1>12

-----------------------------------------------------------------------------
(* The reader is created, at the first byte of the first chunk. *)

Created(y, s) ==
  /\ y \in Readers /\ y.pos = 1 /\ y.partial_body_length = s[1].n /\ y.last = FALSE
  /\ y.some = FALSE /\ y.buffer = <<>> /\ y.cursor = 0

StartsAt(s, base, a, cut) ==
  /\ s \in Seq(Symbols) /\ Opened(s, base, a, cut)
  /\ 1 \in Headers(s) /\ base[1] = 0 /\ s[1].tag = "partial"

(* The reader when it was created, behind the header of the first chunk. *)
LEMMA CreatedReads ==
  ASSUME NEW s, NEW base, NEW a, NEW y, Created(y, s), StartsAt(s, base, a, y.cut),
         NEW f, f = NoFill, NEW o, o = <<>>
  PROVE  \E h, g, d, l : Reads(s, base, a, h, g, d, l, y, f, o, o, 0)
<1> DEFINE h == 1
           z == 0
           d == Lesser(y.partial_body_length, Len(s) - y.pos)
<1>1. /\ s \in Seq(Symbols) /\ Opened(s, base, a, y.cut)
      /\ h \in Headers(s) /\ base[h] = z /\ s[h].tag = "partial" /\ h = 1 /\ z = 0 /\ z \in Nat
  BY DEF StartsAt
<1>2. /\ y \in Readers /\ y.pos = h /\ y.partial_body_length = s[h].n /\ y.last = FALSE
      /\ y.some = FALSE /\ y.buffer = <<>> /\ y.cursor = z
  BY DEF Created
<1>3. d = Lesser(y.partial_body_length, Len(s) - y.pos)
  OBVIOUS
<1> HIDE DEF h, z, d
<1>4. h \in 1 .. Len(s) /\ Len(s) \in Nat
  BY <1>1, HeaderPlaces
<1>5. s[h].n \in Nat
  BY <1>1, <1>4, SymbolAt
<1>6. h <= y.pos /\ y.pos <= Len(s) /\ y.pos + y.partial_body_length = h + s[h].n
  BY <1>1, <1>2, <1>4, <1>5
<1>7. z = base[h] + (y.pos - h)
  BY <1>1, <1>2
<1>8. ReaderIn(s, base, h, y, z)
  BY <1>1, <1>2, <1>6, <1>7 DEF ReaderIn
<1>9. Spot(s, base, a, h, z, d, y)
  BY <1>1, <1>3, <1>8 DEF Spot
<1>10. f.on = FALSE /\ f \in Fills /\ Len(<<>>) = 0 /\ <<>> \in Seq(Symbols)
  <2>1. <<>> \in Seq(Symbols) /\ Len(<<>>) = 0
    BY EmptySeq
  <2> QED BY <2>1 DEF NoFill, Fills
<1>11. Shape(y, f)
  BY <1>1, <1>2, <1>10 DEF Shape
<1>12. d \in Nat
  BY <1>2, <1>3, <1>4, <1>5 DEF Lesser
<1>13. o = Bytes(1, z) /\ Drop(y.buffer, y.cursor) = Bytes(z + 1, z)
  <2> DEFINE i == 1
             k == z + 1
             u == <<>>
  <2>1. i \in Nat /\ i > 0 /\ z = i - 1 /\ k \in Nat /\ k > 0 /\ z = k - 1
    BY <1>1
  <2>2. u \in Seq(Symbols) /\ Len(u) = 0 /\ z <= Len(u) /\ Len(u) - z = 0
    BY <1>1, <1>10
  <2> HIDE DEF i, k, u
  <2>3. Bytes(i, z) = <<>> /\ Bytes(k, z) = <<>>
    BY <2>1, EmptyRun
  <2>4. Drop(u, z) \in Seq(Symbols) /\ Len(Drop(u, z)) = Len(u) - z
    BY <1>1, <2>2, DropIs
  <2>5. Drop(u, z) = <<>>
    <3>1. Len(Drop(u, z)) = 0
      BY <2>2, <2>4
    <3> QED BY <2>4, <3>1, EmptySeq
  <2> QED BY <1>2, <2>3, <2>5 DEF i, k, u
<1>14. InView(y, f, d) = d
  BY <1>2, <1>10 DEF InView
<1>15. z <= z /\ z <= d
  BY <1>1, <1>12
<1>16. Held(y, f) = Bytes(z + 1, z) /\ o \in Seq(Symbols)
  BY <1>10, <1>13 DEF Held
<1>17. Holding(y, f, o, o, z, z, z, d)
  BY <1>1, <1>13, <1>14, <1>15, <1>16 DEF Holding
<1>18. Reads(s, base, a, h, z, d, z, y, f, o, o, z)
  BY <1>9, <1>11, <1>17 DEF Reads
<1>19. \E h1, g1, d1, l1 : Reads(s, base, a, h1, g1, d1, l1, y, f, o, o, z)
  BY <1>18
<1> QED BY <1>1, <1>19

(* The packet parser puts the reader on a stream, cut or not. *)
LEMMA OpenReaderStep ==
  ASSUME WInv, RInv, NEW cut, NEW octets \in 0 .. 4, NEW hash_headers \in BOOLEAN,
         Open(cut, octets, hash_headers)
  PROVE  ReaderStep
<1> DEFINE s == stream
           t == stream'
           y == r'
           m == w.position
           b == cut < Len(s)
<1>1. /\ w.op = "done" /\ ~r.open /\ s[1].tag = "partial" /\ cut \in 1 .. Len(s)
      /\ w' = w /\ fill' = fill /\ out' = out /\ result' = result /\ hashed' = hashed /\ seen' = seen
      /\ y = [r EXCEPT !.open = TRUE, !.pos = 1, !.partial_body_length = s[1].n,
                       !.hash_headers = hash_headers, !.cut = b]
      /\ b => t = Take(s, cut) \o Remainder(octets)
      /\ octets > 0 => b /\ IsHeader(s[cut + 1]) /\ torn' = cut
      /\ ~b => t = s \o [k \in 1 .. Following |-> [tag |-> "next", n |-> k]]
  BY DEF Open
<1>2. Shape(r, fill) /\ Fresh
  BY <1>1 DEF RInv
<1>3. /\ r \in Readers /\ fill = NoFill /\ out = <<>> /\ result = NoResult /\ hashed = <<>>
      /\ seen = 0 /\ r.last = FALSE /\ r.some = FALSE /\ r.buffer = <<>> /\ r.cursor = 0
  BY <1>2 DEF Shape, Fresh
<1>4. s \in Seq(Symbols) /\ Len(s) \in Nat /\ m \in Nat
  BY LenProperties, WriterFields DEF WInv
<1>5. PICK base : Carries(s, m) /\ Chunked(s, base, m, TRUE)
  <2>1. PICK i, j \in Nat : WriterAt(w, i, j) /\ Framed(s, i, w.op = "done")
    BY <1>1 DEF WInv
  <2>2. i = m
    BY <1>1, <1>4, <2>1 DEF WriterAt
  <2> DEFINE fin == w.op = "done"
  <2>3. fin = TRUE /\ Framed(s, m, fin)
    BY <1>1, <2>1, <2>2
  <2> HIDE DEF fin, m, s
  <2>4. Framed(s, m, TRUE)
    BY <2>3
  <2> QED BY <2>4 DEF Framed
<1>6. 1 \in Headers(s) /\ base[1] = 0 /\ base \in [Headers(s) -> Nat] /\ 1 \in 1 .. Len(s)
  <2>1. s # <<>>
    <3>1. Len(s) # 0
      BY <1>1, <1>4
    <3> QED BY <3>1, EmptySeq
  <2>2. 1 \in 1 .. Len(s)
    BY <1>1, <1>4
  <2> QED BY <1>5, <2>1, <2>2 DEF Chunked
<1>7. s[1].n \in Nat
  BY <1>4, <1>6, SymbolAt
<1> DEFINE n == s[1].n
<1>8. b \in BOOLEAN /\ n \in Nat
  BY <1>7
<1>9. /\ y \in Readers /\ y.open = TRUE /\ y.pos = 1 /\ y.partial_body_length = n
      /\ y.cut = b /\ y.last = FALSE /\ y.some = FALSE /\ y.buffer = <<>> /\ y.cursor = 0
  <2> HIDE DEF b, n
  <2>1. y = [r EXCEPT !.open = TRUE, !.pos = 1, !.partial_body_length = n,
                      !.hash_headers = hash_headers, !.cut = b]
    BY <1>1 DEF n
  <2> HIDE DEF y
  <2>2. y \in Readers
    BY <1>3, <1>8, <2>1 DEF Readers
  <2>3. y.open = TRUE /\ y.pos = 1 /\ y.partial_body_length = n /\ y.cut = b
    BY <1>3, <2>1 DEF Readers
  <2>4. y.last = r.last /\ y.some = r.some /\ y.buffer = r.buffer /\ y.cursor = r.cursor
    BY <1>3, <2>1 DEF Readers
  <2> QED BY <1>3, <2>2, <2>3, <2>4
<1> DEFINE a == Avail(r)'
<1>10. \E new : /\ StartsAt(t, new, a, y.cut) /\ t[1] = s[1] /\ a <= m
                /\ y.cut /\ Stray(t) => torn' # 0
  <2>1. CASE b
    <3>1. /\ t = Take(s, cut) \o Remainder(octets)
          /\ cut \in Nat /\ cut > 0 /\ cut < Len(s) /\ cut <= Len(s)
      BY <1>1, <1>4, <2>1
    <3>2. y.cut = TRUE
      BY <1>8, <1>9, <2>1
    <3>3. a = Largest(t)
      BY <3>2 DEF Avail, Received, Largest
    <3> DEFINE fin == TRUE
    <3>4. fin = TRUE /\ Chunked(s, base, m, fin) /\ s[1].tag = "partial"
      BY <1>1, <1>5
    <3>5. octets >= 2 => torn' = cut /\ cut + 1 \in Headers(s)
      <4> SUFFICES ASSUME octets >= 2 PROVE torn' = cut /\ cut + 1 \in Headers(s)
        OBVIOUS
      <4>1. IsHeader(s[cut + 1]) /\ torn' = cut
        BY <1>1
      <4>2. cut + 1 \in 1 .. Len(s)
        BY <1>4, <3>1
      <4> QED BY <4>1, <4>2 DEF Headers
    <3> DEFINE v == torn'
    <3>6. octets >= 2 => v = cut
      BY <3>5
    <3> HIDE DEF s, t, a, m, fin, v, y
    <3>7. /\ ~(octets >= 2) => CutOff(s, t, cut)
          /\ octets >= 2 => \E u : Torn(s, t, cut, u)
      BY <1>4, <3>1, CutStream
    <3>8. ASSUME NEW new, CutStarts(s, t, new, base, Largest(t), m)
          PROVE  StartsAt(t, new, a, y.cut) /\ t[1] = s[1] /\ a <= m
      BY <1>6, <3>2, <3>3, <3>4, <3>8 DEF StartsAt, CutStarts
    <3>9. CASE ~(octets >= 2)
      <4>1. CutOff(s, t, cut)
        BY <3>7, <3>9
      <4>2. PICK new : CutStarts(s, t, new, base, Largest(t), m)
        BY <1>4, <1>5, <1>6, <3>1, <3>4, <4>1, CutStartsAt
      <4>3. ~Stray(t)
        BY <1>4, <3>1, <3>4, <4>1, CutNoStray
      <4> QED BY <3>8, <4>2, <4>3
    <3>10. CASE octets >= 2
      <4>1. PICK u : Torn(s, t, cut, u)
        BY <3>7, <3>10
      <4>2. CutOff(s, u, cut) /\ t \in Seq(Symbols) /\ Longer(u, t, "full", 0, 0)
        BY <4>1 DEF Torn
      <4>3. \E new : CutStarts(s, t, new, base, Largest(t), m)
        BY <1>4, <1>5, <1>6, <3>1, <3>4, <3>5, <3>10, <4>2, CutStartsAt
      <4>4. PICK new : CutStarts(s, t, new, base, Largest(t), m)
        BY <4>3
      <4>5. v # 0
        BY <3>1, <3>6, <3>10
      <4> QED BY <3>8, <4>4, <4>5 DEF v
    <3> QED BY <3>9, <3>10
  <2>2. CASE ~b
    <3> DEFINE u == [k \in 1 .. Following |-> [tag |-> "next", n |-> k]]
    <3>1. t = s \o u
      BY <1>1, <2>2
    <3>2. y.cut = FALSE
      BY <1>8, <1>9, <2>2
    <3>3. a = m
      BY <1>1, <3>2 DEF Avail
    <3>4. u = [k \in 1 .. Following |-> [tag |-> "next", n |-> k]]
      OBVIOUS
    <3> HIDE DEF s, t, a, m, u
    <3>5. Followed(s, t)
      BY <1>4, <3>1, <3>4, FollowedIs
    <3>6. t \in Seq(Symbols) /\ Headers(t) = Headers(s) /\ \A i \in 1 .. Len(s) : t[i] = s[i]
      BY <3>5 DEF Followed
    <3>7. Opened(t, base, m, FALSE)
      BY <1>4, <1>5, <3>5, FollowOpened
    <3>8. t[1] = s[1] /\ 1 \in Headers(t)
      BY <1>6, <3>6
    <3>9. t[1].tag = "partial"
      BY <1>1, <3>8 DEF s
    <3>10. StartsAt(t, base, a, y.cut)
      BY <1>6, <3>2, <3>3, <3>6, <3>7, <3>8, <3>9 DEF StartsAt
    <3>11. a <= m
      BY <1>4, <3>3
    <3> QED BY <3>2, <3>8, <3>10, <3>11
  <2> QED BY <2>1, <2>2
<1>11. PICK new : /\ StartsAt(t, new, a, y.cut) /\ t[1] = s[1] /\ a <= m
                  /\ y.cut /\ Stray(t) => torn' # 0
  BY <1>10
<1>12. Created(y, t)
  BY <1>9, <1>11 DEF Created
<1> DEFINE f == fill'
           o == out'
<1>13. f = NoFill /\ o = <<>> /\ hashed' = o /\ seen' = 0
  BY <1>1, <1>3
<1>14. \E h, g, d, l : Reads(t, new, a, h, g, d, l, y, f, o, o, 0)
  <2> HIDE DEF t, y, f, o, a
  <2> QED BY <1>11, <1>12, <1>13, CreatedReads
<1>15. \E bs, h, g, d, l : Reads(t, bs, a, h, g, d, l, y, f, o, hashed', seen')
  <2> HIDE DEF t, y, f, o, a
  <2> QED BY <1>13, <1>14
<1>16. (\E bs, h, g, d, l :
          Reads(stream, bs, Avail(r), h, g, d, l, r, fill, out, hashed, seen))'
  BY <1>15
<1>17. Shape(r, fill)'
  <2>1. Shape(y, f)
    BY <1>15 DEF Reads
  <2> QED BY <2>1
<1>18. EndOK(r, out, result)'
  BY <1>1, <1>3 DEF EndOK, NoResult
<1>19. RInv'
  <2>1. (Avail(r) <= w.position)'
    BY <1>1, <1>11
  <2>2. (r.cut /\ Stray(stream) => torn # 0)'
    <3>1. y.cut /\ Stray(t) => torn' # 0
      BY <1>11
    <3> QED BY <3>1 DEF Stray
  <2> QED BY <1>9, <1>16, <1>17, <1>18, <2>1, <2>2 DEF RInv
<1>20. Abstract!Create
  BY <1>1, <1>3 DEF Abstract!Create, Hard
<1> QED BY <1>19, <1>20 DEF ReaderStep, Abstract!Next

-----------------------------------------------------------------------------
(* Every step. *)

LEMMA ReaderInit == Init => RInv /\ Abstract!Init
<1> SUFFICES ASSUME Init PROVE RInv /\ Abstract!Init
  OBVIOUS
<1> DEFINE e == <<>>
<1>1. e \in Seq(Symbols) /\ Len(e) = 0
  BY EmptySeq
<1>2. /\ r = [open |-> FALSE, pos |-> 0, partial_body_length |-> 0, last |-> FALSE,
              some |-> FALSE, buffer |-> e, cursor |-> 0, hash_headers |-> FALSE,
              cut |-> FALSE]
      /\ fill = NoFill /\ out = e /\ result = NoResult /\ hashed = e /\ seen = 0
  BY DEF Init
<1>3. fill \in Fills /\ ~fill.on
  BY <1>1, <1>2 DEF NoFill, Fills
<1>4. r \in Readers /\ r.cursor = 0 /\ r.buffer = e
  <2> HIDE DEF e
  <2> QED BY <1>1, <1>2 DEF Readers
<1>5. Shape(r, fill)
  BY <1>1, <1>3, <1>4 DEF Shape
<1>6. Fresh /\ r.open = FALSE
  BY <1>2 DEF Fresh
<1> QED BY <1>2, <1>5, <1>6 DEF RInv, Abstract!Init

(* The writer works before there is a reader. *)
LEMMA WriterStep ==
  ASSUME WInv, RInv, w.op # "done", r' = r, fill' = fill, out' = out, result' = result,
         hashed' = hashed, seen' = seen
  PROVE  ReaderStep
<1>1. ~r.open
  BY DEF WInv
<1>2. Shape(r, fill) /\ Fresh
  BY <1>1 DEF RInv
<1>3. Shape(r, fill)' /\ Fresh'
  BY <1>2 DEF Shape, Fresh
<1>4. RInv'
  BY <1>1, <1>3 DEF RInv
<1>5. Own' = Own
  BY <1>1 DEF Own
<1> QED BY <1>4, <1>5 DEF ReaderStep, Abstract!streamVars, Hard

(* Every step keeps RInv, and is a step of the contract or none. *)
LEMMA ReaderNext ==
  ASSUME NoOverrun, WInv, RInv, [Next]_vars
  PROVE  ReaderStep
<1>1. stream \in Seq(Symbols)
  BY DEF WInv
<1>2. ASSUME NEW n \in 0 .. MaxWrite, Write(n) PROVE ReaderStep
  <2>1. /\ w.op # "done" /\ r' = r /\ fill' = fill /\ out' = out /\ result' = result
        /\ hashed' = hashed /\ seen' = seen
    BY <1>2 DEF Write, WriterOnly
  <2> QED BY <2>1, WriterStep
<1>3. CASE Flush
  <2>1. /\ w.op # "done" /\ r' = r /\ fill' = fill /\ out' = out /\ result' = result
        /\ hashed' = hashed /\ seen' = seen
    BY <1>3 DEF Flush, WriterOnly
  <2> QED BY <2>1, WriterStep
<1>4. CASE WriteOutStep
  <2>1. /\ w.op # "done" /\ r' = r /\ fill' = fill /\ out' = out /\ result' = result
        /\ hashed' = hashed /\ seen' = seen
    BY <1>4 DEF WriteOutStep, WriteOutChunk, WriteOutEnd, WriterOnly
  <2> QED BY <2>1, WriterStep
<1>5. CASE Finish
  <2>1. /\ w.op # "done" /\ r' = r /\ fill' = fill /\ out' = out /\ result' = result
        /\ hashed' = hashed /\ seen' = seen
    BY <1>5 DEF Finish, WriterOnly
  <2> QED BY <2>1, WriterStep
<1>6. ASSUME NEW cut, NEW octets \in 0 .. 4, NEW h \in BOOLEAN, Open(cut, octets, h)
      PROVE  ReaderStep
  BY <1>6, OpenReaderStep
<1>7. \A amount \in 1 .. MaxAmount : amount \in Nat
  OBVIOUS
<1>8. ASSUME NEW amount \in 1 .. MaxAmount, NEW hard \in BOOLEAN, NEW consume \in BOOLEAN,
             \/ Direct(amount, hard, consume)
             \/ Buffered(amount, hard, consume)
             \/ NeedFill(amount, hard, consume)
      PROVE  ReaderStep
  <2>1. amount \in Nat
    BY <1>7
  <2>2. CASE Direct(amount, hard, consume)
    BY <1>1, <2>1, <2>2, DirectStep
  <2>3. CASE Buffered(amount, hard, consume)
    BY <1>1, <2>1, <2>3, BufferedStep
  <2>4. CASE NeedFill(amount, hard, consume)
    BY <1>1, <2>1, <2>4, NeedFillStep
  <2> QED BY <1>8, <2>2, <2>3, <2>4
<1>9. CASE FillStep
  BY <1>1, <1>9, FillEndStep, FillHeaderStep, FillErrorStep DEF FillStep
<1>10. ASSUME NEW amount \in 1 .. MaxAmount, Consume(amount) PROVE ReaderStep
  BY <1>1, <1>7, <1>10, ConsumeReaderStep
<1>11. CASE UNCHANGED vars
  <2>1. /\ w' = w /\ stream' = stream /\ r' = r /\ fill' = fill /\ out' = out
        /\ result' = result /\ hashed' = hashed /\ seen' = seen /\ torn' = torn
    BY <1>11 DEF vars
  <2>2. Own' = Own /\ Avail(r)' = Avail(r)
    BY <2>1, OwnSame
  <2>3. EndOK(r, out, result)' = EndOK(r, out, result)
    BY <2>1 DEF EndOK, Written
  <2>4. Shape(r, fill)' = Shape(r, fill) /\ Fresh' = Fresh
    BY <2>1 DEF Shape, Fresh
  <2>6. Stray(stream)' = Stray(stream)
    BY <2>1 DEF Stray
  <2>5. RInv'
    BY <2>1, <2>2, <2>3, <2>4, <2>6 DEF RInv
  <2> QED BY <2>1, <2>2, <2>5 DEF ReaderStep, Abstract!streamVars, Hard
<1> QED BY <1>2, <1>3, <1>4, <1>5, <1>6, <1>8, <1>9, <1>10, <1>11 DEF Next

LEMMA ReaderInvariance ==
  ASSUME NoOverrun
  PROVE  Spec => []RInv
<1>1. WInv /\ RInv /\ [Next]_vars => RInv'
  BY ReaderNext DEF ReaderStep
<1>2. Init => RInv
  BY ReaderInit
<1> QED BY WriterInvariance, <1>1, <1>2, PTL DEF Spec

(* What is noted of the failures of the reader below. *)
Marks == torn \in Nat /\ tripped \in BOOLEAN /\ lost \in BOOLEAN

LEMMA MarksNext ==
  ASSUME Marks, WInv, [Next]_vars
  PROVE  Marks'
<1> USE DEF Marks
<1>1. CASE \/ \E n \in 0 .. MaxWrite : Write(n)
           \/ Flush \/ WriteOutStep \/ Finish
  BY <1>1 DEF Write, Flush, WriteOutStep, WriteOutChunk, WriteOutEnd, Finish, WriterOnly
<1>2. ASSUME NEW cut \in 1 .. Len(stream), NEW octets \in 0 .. 4, NEW h \in BOOLEAN,
             Open(cut, octets, h)
      PROVE  Marks'
  <2>1. torn' \in {cut, 0} /\ tripped' = tripped /\ lost' = lost
    BY <1>2 DEF Open
  <2> QED BY <2>1
<1>3. ASSUME NEW amount \in 1 .. MaxAmount, NEW hard \in BOOLEAN, NEW consume \in BOOLEAN,
             \/ Direct(amount, hard, consume)
             \/ Buffered(amount, hard, consume)
             \/ NeedFill(amount, hard, consume)
      PROVE  Marks'
  BY <1>3 DEF Direct, Buffered, NeedFill, ReaderOnly, BelowWell
<1>4. CASE FillStep
  BY <1>4 DEF FillStep, FillEnd, FillHeader, FillError, ReaderOnly, BelowWell
<1>5. ASSUME NEW amount \in 1 .. MaxAmount, Consume(amount) PROVE Marks'
  BY <1>5 DEF Consume, ReaderOnly, BelowWell
<1>6. CASE UNCHANGED vars
  BY <1>6 DEF vars
<1> QED BY <1>1, <1>2, <1>3, <1>4, <1>5, <1>6 DEF Next

LEMMA MarksInvariance == Spec => []Marks
<1>1. Init => Marks
  <2> SUFFICES ASSUME Init PROVE Marks
    OBVIOUS
  <2>1. torn = 0 /\ tripped = FALSE /\ lost = FALSE
    BY Zenon DEF Init
  <2> QED BY <2>1 DEF Marks
<1>2. Marks /\ WInv /\ [Next]_vars => Marks'
  BY MarksNext
<1> QED BY WriterInvariance, <1>1, <1>2, PTL DEF Spec

(* The conjuncts of the theorems. *)
LEMMA TypesOK ==
  ASSUME WInv, RInv, Marks
  PROVE  TypeOK
<1>1. w \in Writers /\ stream \in Seq(Symbols) /\ Len(stream) \in Nat
  BY LenProperties DEF WInv
<1>2. PICK m, b \in Nat : WriterAt(w, m, b)
  BY DEF WInv
<1>3. /\ w.buffer \in Seq(Symbols) /\ w.other \in Seq(Symbols) /\ w.position \in Nat
      /\ w.op \in {"idle", "write_out", "done"}
  BY <1>1 DEF Writers
<1>4. Len(w.buffer) = b
  BY <1>1, <1>2, PendingIs
<1>5. w.position \in 0 .. Length /\ Len(w.buffer) <= buffer_threshold
  BY <1>2, <1>3, <1>4, Limits DEF WriterAt
<1>6. r \in Readers /\ fill \in Fills /\ Shape(r, fill)
  BY DEF RInv, Shape
<1>7. /\ r.pos \in Nat /\ r.partial_body_length \in Nat /\ r.cursor \in Nat
      /\ r.buffer \in Seq(Symbols) /\ r.open \in BOOLEAN /\ r.last \in BOOLEAN
      /\ r.some \in BOOLEAN /\ r.hash_headers \in BOOLEAN /\ r.cut \in BOOLEAN
      /\ fill.on \in BOOLEAN
  BY <1>6, ReaderFields, FillFields
<1>8. /\ r.cursor <= Len(r.buffer) /\ Len(r.buffer) \in Nat
      /\ ~r.some => r.buffer = <<>> /\ r.cursor = 0
      /\ fill.on => Len(fill.buf) < fill.amount
  BY <1>6, <1>7, LenProperties DEF Shape
<1>9. /\ out \in Seq(Symbols) /\ hashed \in Seq(Symbols) /\ seen \in Nat
      /\ r.pos <= Len(stream)
  <2>1. CASE ~r.open
    <3>1. out = <<>> /\ hashed = <<>> /\ seen = 0 /\ r.pos = 0
      BY <2>1 DEF RInv, Fresh
    <3> QED BY <1>1, <3>1, EmptySeq
  <2>2. CASE r.open
    <3>1. PICK base, h, g, d, l :
            Reads(stream, base, Avail(r), h, g, d, l, r, fill, out, hashed, seen)
      BY <2>2 DEF RInv
    <3>2. /\ l \in Nat /\ out = Bytes(1, l) /\ hashed \in Seq(Symbols) /\ seen \in Nat
          /\ r.pos <= Len(stream)
      BY <3>1 DEF Reads, Holding, Spot, ReaderIn
    <3> DEFINE i == 1
    <3>3. i \in Nat /\ i > 0 /\ l \in Int /\ i - 1 <= l /\ out = Bytes(i, l)
      BY <3>2
    <3> HIDE DEF i
    <3>4. out \in Seq(Symbols)
      BY <3>3, RunIs
    <3> QED BY <3>2, <3>4
  <2> QED BY <1>7, <2>1, <2>2
<1>10. r.pos \in 0 .. Len(stream) /\ r.cursor \in 0 .. Len(r.buffer)
  BY <1>1, <1>7, <1>8, <1>9
<1>11. torn \in Nat /\ {tripped, lost} \subseteq BOOLEAN
  BY DEF Marks
<1> QED BY <1>1, <1>3, <1>5, <1>7, <1>8, <1>9, <1>10, <1>11 DEF TypeOK

LEMMA EndTold ==
  ASSUME WInv, RInv
  PROVE  TruncationDetected
<1> SUFFICES ASSUME result.call \in {"data", "data_consume"}, ~result.err, result.data = <<>>
             PROVE  Misread \/ (Consummated <=> (~r.cut /\ out = Written))
  BY DEF TruncationDetected
<1>1. r \in Readers
  BY DEF RInv, Shape
<1>2. r.open /\ r.cut \in BOOLEAN /\ r.last \in BOOLEAN /\ r.partial_body_length \in Nat
  <2>1. result # NoResult
    BY DEF NoResult
  <2> QED BY <1>1, <2>1, ReaderFields DEF RInv, Fresh
<1>3. r.cut \/ (r.last /\ r.partial_body_length = 0 /\ out = Written)
  BY <1>2 DEF RInv, EndOK
<1>4. PICK base, h, g, d, l :
        Reads(stream, base, Avail(r), h, g, d, l, r, fill, out, hashed, seen)
  BY <1>2 DEF RInv
<1>5. stream \in Seq(Symbols)
  BY DEF WInv
<1> DEFINE a == Avail(r)
<1>6. InBody(stream, r, a, g, d)
  <2>1. Reads(stream, base, a, h, g, d, l, r, fill, out, hashed, seen)
    BY <1>4
  <2> HIDE DEF a
  <2> QED BY <1>5, <2>1, ReadsFacts
<1>7. /\ d \in Nat /\ d <= r.partial_body_length
      /\ r.last /\ d = r.partial_body_length /\ r.cut => Stray(stream)
  BY <1>6 DEF InBody
<1>8. Consummated /\ r.cut => Misread
  <2> SUFFICES ASSUME Consummated, r.cut PROVE Misread
    OBVIOUS
  <2>1. r.last /\ r.partial_body_length = 0
    BY DEF Consummated
  <2>2. d = r.partial_body_length
    BY <1>7, <2>1
  <2>3. torn # 0
    BY <1>2, <1>7, <2>1, <2>2 DEF RInv
  <2> QED BY <2>1, <2>3 DEF Misread
<1> QED BY <1>2, <1>3, <1>8 DEF Consummated

LEMMA HashRight ==
  ASSUME WInv, RInv
  PROVE  HashedIsBody
<1> SUFFICES ASSUME r.open, ~r.hash_headers, ~lost
             PROVE  IsPrefix(hashed, Written) /\ Len(hashed) >= Len(out)
  BY DEF HashedIsBody
<1> DEFINE a == Avail(r)
           m == w.position
           i == 1
           u == Written
           v == hashed
<1>1. PICK base, h, g, d, l :
        Reads(stream, base, a, h, g, d, l, r, fill, out, hashed, seen)
  BY DEF RInv
<1>2. stream \in Seq(Symbols) /\ w \in Writers /\ a <= m /\ m \in Nat
  BY WriterFields DEF WInv, RInv
<1>3. l \in Nat /\ l <= g /\ g \in Nat /\ a \in Nat /\ d \in Nat /\ g + d <= a
  <2> HIDE DEF a
  <2> QED BY <1>1, <1>2, ReadsFacts
<1>4. v = Bytes(i, g) /\ out = Bytes(i, l) /\ u = Bytes(i, m)
  BY <1>1 DEF Reads, Holding, Written
<1>5. /\ i \in Nat /\ i > 0 /\ g \in Int /\ l \in Int /\ m \in Int /\ i - 1 <= g /\ i - 1 <= l
      /\ i - 1 <= m /\ g <= m - i + 1 /\ g - i + 1 = g /\ l - i + 1 = l /\ m - i + 1 = m
      /\ g = i - 1 + g /\ g <= m
  BY <1>2, <1>3
<1> HIDE DEF m, i, u, v
<1>6. v \in Seq(Symbols) /\ Len(v) = g
  BY <1>4, <1>5, RunIs
<1>7. Len(out) = l
  BY <1>4, <1>5, RunIs
<1>8. u \in Seq(Symbols) /\ Len(u) = m
  BY <1>4, <1>5, RunIs
<1>9. Take(u, g) = Bytes(i, g)
  BY <1>3, <1>4, <1>5, TakeRun
<1>10. SubSeq(u, 1, g) = v
  <2>1. Lesser(g, Len(u)) = g
    BY <1>5, <1>8 DEF Lesser
  <2> QED BY <1>4, <1>9, <2>1 DEF Take
<1>11. SubSeq(v, 1, g) = v
  <2>1. SubSeq(v, 1, Len(v)) = v
    BY <1>6, SubSeqFull
  <2> QED BY <1>6, <2>1
<1>12. IsPrefix(v, u)
  BY <1>5, <1>6, <1>8, <1>10, <1>11 DEF IsPrefix
<1>13. Len(v) >= Len(out)
  BY <1>3, <1>6, <1>7
<1> QED BY <1>12, <1>13 DEF u, v

(* As long as the caller cannot reach beyond the packet, the assertions of *)
(* write_out(), data_helper() and consume() hold: the writer's buffer, the *)
(* reader's cursor and what it thinks is left of the chunk stay in their   *)
(* bounds, and the stream is chunked as it must be.                        *)
THEOREM ChunkingIsRight ==
  ASSUME NoOverrun
  PROVE  Spec => []WellChunked
<1>1. WInv /\ RInv /\ Marks => WellChunked
  BY WriterProperties, TypesOK DEF WellChunked
<1> QED BY WriterInvariance, ReaderInvariance, MarksInvariance, <1>1, PTL

(* When the reader says that there is no more, consummated() is true if    *)
(* and only if the caller has the whole body, wherever the stream was cut, *)
(* also inside a header, unless the caller has read on after a call failed *)
(* in such a header.                                                       *)
THEOREM TruncationIsDetected ==
  ASSUME NoOverrun
  PROVE  Spec => []TruncationDetected
<1>1. WInv /\ RInv => TruncationDetected
  BY EndTold
<1> QED BY WriterInvariance, ReaderInvariance, <1>1, PTL

(* The hash over a literal data packet covers the bytes of the body and no *)
(* header, whichever of data_helper()'s and consume()'s paths they take,   *)
(* until a call fails below and HashedReader loses its cookie.             *)
THEOREM HashCoversTheBody ==
  ASSUME NoOverrun
  PROVE  Spec => []HashedIsBody
<1>1. WInv /\ RInv => HashedIsBody
  BY HashRight
<1> QED BY WriterInvariance, ReaderInvariance, <1>1, PTL

(* BufferedReaderPartialBodyFilter is a BufferedReader over the body that  *)
(* PartialBodyFilter was given, or over what was not cut off of it.  That  *)
(* errors come only when the buffer is empty is not part of it: Eager.     *)
THEOREM PartialBodyImplementsByteStream ==
  ASSUME NoOverrun
  PROVE  Spec => ImplementsByteStream
<1>1. Init => Abstract!Init
  BY ReaderInit
<1>2. WInv /\ RInv /\ [Next]_vars => [Abstract!Next]_(Abstract!streamVars)
  BY ReaderNext DEF ReaderStep
<1> QED BY WriterInvariance, ReaderInvariance, <1>1, <1>2, PTL
         DEF Spec, ImplementsByteStream, Abstract!Spec

=============================================================================
