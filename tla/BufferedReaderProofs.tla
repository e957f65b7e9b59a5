------------------------ MODULE BufferedReaderProofs ------------------------
(***************************************************************************)
(* Every stack of readers implements the contract of the trait             *)
(* BufferedReader, for every source, limit, reserve and amount.            *)
(*                                                                         *)
(* All sequences of the model are parts of the source, so the argument is  *)
(* about numbers: how far the source has been read, where the reader is    *)
(* (At), and up to where it may go (Bound).  One lemma says what a call of *)
(* Generic returns, one for each operation that what the reader above      *)
(* makes of it is sound, and one that a sound result is a step of the      *)
(* contract and keeps the invariant.                                       *)
(***************************************************************************)
EXTENDS BufferedReader, FiniteSetTheorems, SequenceTheorems, TLAPS

-----------------------------------------------------------------------------
(* Parts of the source. *)

LEMMA MinOfTwo ==
  ASSUME NEW a \in Int, NEW b \in Int
  PROVE  Min({a, b}) = IF a <= b THEN a ELSE b
<1> DEFINE P(x) == x \in {a, b} /\ \A y \in {a, b} : x <= y
           m == IF a <= b THEN a ELSE b
<1>1. P(m) /\ \A x : P(x) => x = m
  OBVIOUS
<1>2. Min({a, b}) = CHOOSE x : P(x)
  BY DEF Min
<1> HIDE DEF P, m
<1>3. Min({a, b}) = m
  BY <1>1, <1>2
<1> QED BY <1>3 DEF m

LEMMA MaxOfTwo ==
  ASSUME NEW a \in Int, NEW b \in Int
  PROVE  Max({a, b}) = IF a >= b THEN a ELSE b
<1> DEFINE P(x) == x \in {a, b} /\ \A y \in {a, b} : x >= y
           m == IF a >= b THEN a ELSE b
<1>1. P(m) /\ \A x : P(x) => x = m
  OBVIOUS
<1>2. Max({a, b}) = CHOOSE x : P(x)
  BY DEF Max
<1> HIDE DEF P, m
<1>3. Max({a, b}) = m
  BY <1>1, <1>2
<1> QED BY <1>3 DEF m

(* How many bytes there are from i to j. *)
Span(i, j) == IF j >= i THEN j - i + 1 ELSE 0

LEMMA SourceSeq ==
  ASSUME NEW i \in Nat, i > 0, NEW j \in Int
  PROVE  /\ Source(i, j) \in Seq(Int)
         /\ Len(Source(i, j)) = Span(i, j)
         /\ \A k \in 1 .. Span(i, j) : Source(i, j)[k] = i + k - 1
<1> DEFINE n == Span(i, j)
<1>1. n \in Nat /\ 1 .. j - i + 1 = 1 .. n
  BY DEF Span
<1>2. Source(i, j) = [k \in 1 .. n |-> i + k - 1]
  BY <1>1 DEF Source
<1>3. \A k \in 1 .. n : i + k - 1 \in Int
  OBVIOUS
<1> HIDE DEF n
<1>4. Source(i, j) \in [1 .. n -> Int]
  BY <1>2, <1>3
<1>5. Source(i, j) \in Seq(Int) /\ Len(Source(i, j)) = n
  BY <1>1, <1>2, <1>3, IsASeq
<1> QED BY <1>1, <1>2, <1>5 DEF n

LEMMA SourceFromOne ==
  ASSUME NEW j \in Nat
  PROVE  Len(Source(1, j)) = j
<1> DEFINE i == 1
<1>1. i \in Nat /\ i > 0 /\ j \in Int /\ Span(i, j) = j
  BY DEF Span
<1> HIDE DEF i
<1>2. Len(Source(i, j)) = j
  BY <1>1, SourceSeq
<1> QED BY <1>2 DEF i

LEMMA SourceEmpty ==
  ASSUME NEW i \in Nat, i > 0, NEW j \in Int, j < i
  PROVE  Source(i, j) = <<>>
<1>1. Source(i, j) \in Seq(Int) /\ Len(Source(i, j)) = 0
  BY SourceSeq DEF Span
<1> QED BY <1>1, EmptySeq

LEMMA SourceConcat ==
  ASSUME NEW i \in Nat, i > 0, NEW j \in Int, NEW k \in Int, i - 1 <= j, j <= k
  PROVE  Source(i, j) \o Source(j + 1, k) = Source(i, k)
<1> DEFINE s == Source(i, j)
           j1 == j + 1
           t == Source(j1, k)
           u == Source(i, k)
<1>0. Span(i, j) = j - i + 1 /\ Span(i, k) = k - i + 1
  BY DEF Span
<1>1. /\ s \in Seq(Int) /\ Len(s) = j - i + 1
      /\ \A x \in 1 .. j - i + 1 : s[x] = i + x - 1
  BY <1>0, SourceSeq
<1>2. /\ u \in Seq(Int) /\ Len(u) = k - i + 1
      /\ \A x \in 1 .. k - i + 1 : u[x] = i + x - 1
  BY <1>0, SourceSeq
<1>3. /\ t \in Seq(Int) /\ Len(t) = k - j
      /\ \A x \in 1 .. k - j : t[x] = j + x
  <2>1. j1 \in Nat /\ j1 > 0 /\ Span(j1, k) = k - j /\ j1 = j + 1
    BY DEF Span
  <2> HIDE DEF j1
  <2>2. /\ t \in Seq(Int) /\ Len(t) = Span(j1, k)
        /\ \A x \in 1 .. Span(j1, k) : t[x] = j1 + x - 1
    BY <2>1, SourceSeq
  <2> HIDE DEF t
  <2> QED BY <2>1, <2>2
<1> HIDE DEF s, t, u
<1>4. /\ s \o t \in Seq(Int) /\ Len(s \o t) = Len(s) + Len(t)
      /\ \A x \in 1 .. Len(s) + Len(t) :
           (s \o t)[x] = IF x <= Len(s) THEN s[x] ELSE t[x - Len(s)]
  BY <1>1, <1>3, ConcatProperties
<1>5. Len(s) + Len(t) = Len(u)
  BY <1>1, <1>2, <1>3
<1>6. ASSUME NEW x \in 1 .. Len(u) PROVE (s \o t)[x] = u[x]
  <2>1. (s \o t)[x] = IF x <= Len(s) THEN s[x] ELSE t[x - Len(s)]
    BY <1>4, <1>5
  <2>2. x \in 1 .. k - i + 1 /\ u[x] = i + x - 1
    BY <1>2
  <2>3. x <= Len(s) => s[x] = i + x - 1
    BY <1>1, <2>2
  <2>4. x > Len(s) => t[x - Len(s)] = i + x - 1
    BY <1>1, <1>3, <2>2
  <2> QED BY <1>1, <2>1, <2>2, <2>3, <2>4
<1>7. s \o t = u
  BY <1>2, <1>4, <1>5, <1>6, SeqEqual
<1> QED BY <1>7 DEF s, t, u

(* SubSeq under a name of its own: a lemma about it can be instantiated by *)
(* the provers.                                                            *)
Slice(s, m, n) == SubSeq(s, m, n)

LEMMA SourceSlice ==
  ASSUME NEW i \in Nat, i > 0, NEW j \in Int, NEW m \in Nat, m > 0,
         NEW n \in Int, n <= Span(i, j)
  PROVE  Slice(Source(i, j), m, n) = Source(i + m - 1, i + n - 1)
<1> DEFINE s == Source(i, j)
           a == i + m - 1
           b == i + n - 1
           t == Source(a, b)
           u == SubSeq(s, m, n)
           l == IF m <= n THEN n - m + 1 ELSE 0
<1>1. /\ s \in Seq(Int) /\ Len(s) = Span(i, j)
      /\ \A k \in 1 .. Span(i, j) : s[k] = i + k - 1
  BY SourceSeq
<1>2. /\ t \in Seq(Int) /\ Len(t) = l
      /\ \A k \in 1 .. l : t[k] = a + k - 1
  <2>1. a \in Nat /\ b \in Int /\ a > 0 /\ Span(a, b) = l
    BY DEF Span
  <2> HIDE DEF a, b, l
  <2>2. /\ t \in Seq(Int) /\ Len(t) = Span(a, b)
        /\ \A k \in 1 .. Span(a, b) : t[k] = a + k - 1
    BY <2>1, SourceSeq
  <2> QED BY <2>1, <2>2
<1> HIDE DEF s, t
<1>3. /\ u \in Seq(Int) /\ Len(u) = l
      /\ \A k \in 1 .. n - m + 1 : u[k] = s[m + k - 1]
  <2>1. \A k \in m .. n : s[k] \in Int
    BY <1>1, ElementOfSeq
  <2> QED BY <2>1, SubSeqProperties
<1>4. Span(i, j) \in Nat
  BY DEF Span
<1>5. ASSUME NEW k \in 1 .. l PROVE u[k] = t[k]
  <2>1. k \in 1 .. n - m + 1 /\ m + k - 1 \in 1 .. Span(i, j)
    BY <1>4
  <2>2. u[k] = s[m + k - 1] /\ s[m + k - 1] = i + (m + k - 1) - 1
    BY <1>1, <1>3, <2>1
  <2> QED BY <1>2, <2>2
<1> HIDE DEF u, l
<1>6. u = t
  BY <1>2, <1>3, <1>5, SeqEqual
<1> QED BY <1>6 DEF s, t, u, Slice

LEMMA DropSource ==
  ASSUME NEW i \in Nat, i > 0, NEW j \in Int, NEW n \in Nat
  PROVE  Drop(Source(i, j), n) = Source(i + n, j)
<1> DEFINE m == n + 1
           l == Span(i, j)
<1>1. m \in Nat /\ m > 0 /\ l \in Int
  BY DEF Span
<1>2. Len(Source(i, j)) = l
  BY SourceSeq
<1>3. Drop(Source(i, j), n) = Slice(Source(i, j), m, l)
  BY <1>2 DEF Drop, Slice
<1>4. Slice(Source(i, j), m, l) = Source(i + m - 1, i + l - 1)
  <2> HIDE DEF m
  <2> QED BY <1>1, SourceSlice
<1>5. i + m - 1 = i + n
  OBVIOUS
<1>6. CASE j >= i
  BY <1>3, <1>4, <1>5, <1>6 DEF Span
<1>7. CASE j < i
  <2> DEFINE a == i + n  b == i + l - 1
  <2>1. a \in Nat /\ a > 0 /\ b \in Int /\ b < a /\ j < a
    BY <1>7 DEF Span
  <2>2. Drop(Source(i, j), n) = Source(a, b)
    BY <1>3, <1>4, <1>5
  <2> HIDE DEF a, b
  <2>3. Source(a, b) = <<>> /\ Source(a, j) = <<>>
    BY <2>1, SourceEmpty
  <2> QED BY <2>2, <2>3 DEF a
<1> QED BY <1>6, <1>7

(* Where the first n of the bytes from i to j end. *)
Cut(i, n, j) == IF i + n - 1 <= j THEN i + n - 1 ELSE j

LEMMA PrefixSource ==
  ASSUME NEW i \in Nat, i > 0, NEW j \in Int, NEW n \in Int
  PROVE  Prefix(Source(i, j), n) = Source(i, Cut(i, n, j))
<1> DEFINE l == Span(i, j)
           m == IF n <= l THEN n ELSE l
           e == Cut(i, n, j)
           b == i + m - 1
<1>1. l \in Int /\ m \in Int /\ m <= l /\ b \in Int /\ e \in Int
  BY DEF Span, Cut
<1>2. Len(Source(i, j)) = l
  BY SourceSeq
<1>3. Prefix(Source(i, j), n) = Slice(Source(i, j), 1, m)
  <2> HIDE DEF l
  <2> QED BY <1>1, <1>2, MinOfTwo DEF Prefix, Slice
<1>4. Slice(Source(i, j), 1, m) = Source(i + 1 - 1, i + m - 1)
  <2> HIDE DEF m
  <2> QED BY <1>1, SourceSlice
<1>5. i + 1 - 1 = i
  OBVIOUS
<1>6. e = b \/ (e < i /\ b < i)
  BY DEF Span, Cut
<1>7. Prefix(Source(i, j), n) = Source(i, b)
  BY <1>3, <1>4, <1>5
<1> HIDE DEF b
<1>8. Source(i, b) = Source(i, e)
  <2> HIDE DEF e
  <2> QED BY <1>1, <1>6, SourceEmpty
<1> QED BY <1>7, <1>8

-----------------------------------------------------------------------------
(* Generic. *)

(* A state of Generic: what is buffered are the last bytes that were read. *)
GenericState ==
  [buf : Seq(Int), cursor : Nat, eof : BOOLEAN, error : BOOLEAN,
   pos : Nat, fails : Nat]

Good(r) ==
  /\ r \in GenericState
  /\ r.pos <= Length /\ r.fails <= MaxErrors
  /\ r.cursor <= Len(r.buf) /\ Len(r.buf) <= r.pos
  /\ r.buf = Source(r.pos - Len(r.buf) + 1, r.pos)
  /\ r.eof => r.pos = Length

(* How many bytes have been consumed. *)
Base(r) == r.pos - Len(r.buf) + r.cursor

(* The failures that have been stashed and not returned. *)
Stash(r) == IF r.error THEN 1 ELSE 0

LEMMA RestIs ==
  ASSUME NEW r, Good(r)
  PROVE  /\ Base(r) \in Nat /\ Base(r) <= r.pos
         /\ Rest(r) = Source(Base(r) + 1, r.pos)
         /\ Len(Rest(r)) = r.pos - Base(r)
<1> DEFINE p == r.pos
           c == r.cursor
           l == Len(r.buf)
           i == p - l + 1
           b == Base(r) + 1
<1>1. /\ p \in Nat /\ c \in Nat /\ l \in Nat /\ c <= l /\ l <= p
      /\ r.buf = Source(i, p)
  BY DEF Good, GenericState
<1>2. Base(r) = p - l + c
  BY DEF Base
<1>3. Rest(r) = Drop(Source(i, p), c)
  BY <1>1 DEF Rest
<1> HIDE DEF p, c, l
<1>4. i \in Nat /\ i > 0 /\ i + c = b /\ b \in Nat /\ b > 0 /\ p \in Int
      /\ Base(r) \in Nat /\ Base(r) <= p /\ Span(b, p) = p - Base(r)
  BY <1>1, <1>2 DEF Span
<1> HIDE DEF i, b
<1>5. Drop(Source(i, p), c) = Source(i + c, p)
  BY <1>1, <1>4, DropSource
<1>6. Len(Source(b, p)) = Span(b, p)
  BY <1>4, SourceSeq
<1> QED BY <1>3, <1>4, <1>5, <1>6 DEF p, b

(* A read does not change where the reader is. *)
LEMMA FilledIs ==
  ASSUME NEW r, Good(r), NEW n \in Nat, r.pos + n <= Length
  PROVE  /\ Good(Filled(r, n)) /\ Base(Filled(r, n)) = Base(r)
         /\ Filled(r, n).pos = r.pos + n
         /\ Filled(r, n).eof = r.eof /\ Filled(r, n).error = r.error
         /\ Filled(r, n).fails = r.fails
<1> DEFINE f == Filled(r, n)
           b == Base(r) + 1
           p == r.pos + 1
           q == r.pos + n
<1>1. /\ r \in GenericState /\ r.pos \in Nat /\ r.cursor \in Nat
      /\ Len(r.buf) \in Nat /\ Length \in Nat
  BY SizeAssumption DEF Good, GenericState
<1>2. /\ Base(r) \in Nat /\ Base(r) <= r.pos
      /\ Rest(r) = Source(b, r.pos)
  BY RestIs
<1>3. /\ f.pos = q /\ f.eof = r.eof /\ f.error = r.error /\ f.fails = r.fails
  BY <1>1 DEF Filled, GenericState
<1>4. CASE n = 0
  <2>1. f = r
    <3>1. r.pos + n = r.pos
      BY <1>1, <1>4
    <3>2. f = [r EXCEPT !.buf = r.buf, !.cursor = r.cursor, !.pos = r.pos]
      BY <1>4, <3>1 DEF Filled
    <3> QED BY <1>1, <3>2 DEF GenericState
  <2> QED BY <1>1, <1>3, <1>4, <2>1
<1>5. CASE n > 0
  <2>1. f.buf = Rest(r) \o Source(p, q) /\ f.cursor = 0
    <3> DEFINE new == Rest(r) \o Source(p, q)
    <3>1. n # 0
      BY <1>5
    <3>2. f = [r EXCEPT !.buf = IF n = 0 THEN @ ELSE new,
                        !.cursor = IF n = 0 THEN @ ELSE 0, !.pos = @ + n]
      BY Zenon DEF Filled
    <3> HIDE DEF f, new
    <3> QED BY <1>1, <3>1, <3>2 DEF new, GenericState
  <2>2. b \in Nat /\ b > 0 /\ r.pos \in Int /\ q \in Int /\ b - 1 <= r.pos /\ r.pos <= q
    BY <1>1, <1>2
  <2>3. f.buf = Source(b, q)
    <3> DEFINE m == r.pos
    <3>1. Source(b, m) \o Source(m + 1, q) = Source(b, q)
      <4> HIDE DEF b, q, m
      <4> QED BY <2>2, SourceConcat DEF m
    <3> QED BY <1>2, <2>1, <3>1
  <2>4. Span(b, q) = q - Base(r)
    BY <1>1, <1>2, <1>5 DEF Span
  <2>5. f.buf \in Seq(Int) /\ Len(f.buf) = q - Base(r)
    <3> HIDE DEF b, q, f
    <3> QED BY <2>2, <2>3, <2>4, SourceSeq
  <2>6. f \in GenericState
    <3>1. f = [buf |-> f.buf, cursor |-> 0, eof |-> r.eof, error |-> r.error,
               pos |-> q, fails |-> r.fails]
      <4>1. f = [r EXCEPT !.buf = f.buf, !.cursor = 0, !.pos = q]
        BY <1>5, <2>1 DEF Filled
      <4> HIDE DEF f, q
      <4> QED BY <1>1, <4>1 DEF GenericState
    <3>2. q \in Nat
      BY <1>1
    <3> HIDE DEF f, q
    <3> QED BY <1>1, <2>5, <3>1, <3>2 DEF GenericState
  <2>7. q - Len(f.buf) + 1 = b
    BY <1>1, <1>2, <2>5
  <2>8. r.eof => f.pos = Length
    BY <1>1, <1>3, <1>5 DEF Good
  <2> HIDE DEF f
  <2>9. Good(f)
    <3>1. f.pos <= Length /\ f.cursor <= Len(f.buf) /\ Len(f.buf) <= f.pos
      BY <1>1, <1>2, <1>3, <2>1, <2>5
    <3>2. f.fails <= MaxErrors /\ (f.eof => f.pos = Length)
      BY <1>3, <2>8 DEF Good
    <3>3. f.buf = Source(f.pos - Len(f.buf) + 1, f.pos)
      BY <1>3, <2>3, <2>7
    <3> HIDE DEF b, q
    <3> QED BY <2>6, <3>1, <3>2, <3>3 DEF Good
  <2>10. Base(f) = Base(r)
    BY <1>1, <1>2, <1>3, <2>1, <2>5 DEF Base
  <2> QED BY <1>3, <2>9, <2>10 DEF f
<1> QED BY <1>4, <1>5

(* Generic's loop: it ends with enough, at the end, or with an error. *)
LEMMA FillIs ==
  ASSUME NEW r, Good(r), NEW amount \in Nat, NEW f \in Fill(r, amount)
  PROVE  /\ Good(f) /\ Base(f) = Base(r) /\ r.pos <= f.pos
         /\ f.fails - Stash(f) = r.fails - Stash(r)
         /\ f.error => r.error \/ amount > r.pos - Base(r)
         /\ f.pos - Base(f) >= amount \/ f.error \/ f.pos = Length
<1> DEFINE have == Len(Rest(r))
           left == Length - r.pos
           room == amount + Extra - have
           enough == {n \in 0 .. left : have + n >= amount /\ n <= room}
           short == {n \in 0 .. left : have + n < amount}
<1>1. /\ r \in GenericState /\ r.pos \in Nat /\ r.fails \in Nat /\ Length \in Nat
      /\ r.pos <= Length /\ MaxErrors \in Nat /\ r.error \in BOOLEAN
  BY SizeAssumption DEF Good, GenericState
<1>2. Base(r) \in Nat /\ Base(r) <= r.pos /\ have = r.pos - Base(r)
  BY RestIs
<1>3. \/ (amount <= have \/ r.eof \/ r.error) /\ f = r
      \/ /\ ~(amount <= have \/ r.eof \/ r.error)
         /\ \/ \E n \in enough : f = Filled(r, n)
            \/ \E n \in short \cap {left} : f = [Filled(r, n) EXCEPT !.eof = TRUE]
            \/ \E n \in {n \in short : r.fails < MaxErrors} :
                  f = [Filled(r, n) EXCEPT !.error = TRUE, !.fails = @ + 1]
  BY DEF Fill
<1>4. CASE (amount <= have \/ r.eof \/ r.error) /\ f = r
  BY <1>1, <1>2, <1>4 DEF Good
<1>5. ASSUME ~(amount <= have \/ r.eof \/ r.error), NEW n \in enough, f = Filled(r, n)
      PROVE  /\ Good(f) /\ Base(f) = Base(r) /\ r.pos <= f.pos
             /\ f.fails - Stash(f) = r.fails - Stash(r) /\ ~f.error
             /\ f.pos - Base(f) >= amount
  <2>1. n \in Nat /\ r.pos + n <= Length /\ have + n >= amount
    BY <1>1, <1>5
  <2>2. /\ Good(f) /\ Base(f) = Base(r) /\ f.pos = r.pos + n
        /\ f.error = r.error /\ f.fails = r.fails
    BY <1>5, <2>1, FilledIs
  <2> QED BY <1>1, <1>2, <1>5, <2>1, <2>2 DEF Stash
<1>6. ASSUME ~(amount <= have \/ r.eof \/ r.error), NEW n \in short, n = left,
             f = [Filled(r, n) EXCEPT !.eof = TRUE]
      PROVE  /\ Good(f) /\ Base(f) = Base(r) /\ r.pos <= f.pos
             /\ f.fails - Stash(f) = r.fails - Stash(r) /\ ~f.error
             /\ f.pos = Length
  <2> DEFINE h == Filled(r, n)
  <2>1. n \in Nat /\ r.pos + n = Length /\ r.pos + n <= Length
    BY <1>1, <1>6
  <2>2. /\ Good(h) /\ Base(h) = Base(r) /\ h.pos = r.pos + n
        /\ h.error = r.error /\ h.fails = r.fails
    BY <2>1, FilledIs
  <2> HIDE DEF h
  <2>3. h \in GenericState
    BY <2>2 DEF Good
  <2>4. /\ f = [h EXCEPT !.eof = TRUE]
        /\ f \in GenericState /\ f.buf = h.buf /\ f.cursor = h.cursor /\ f.pos = h.pos
        /\ f.error = h.error /\ f.fails = h.fails
    BY <1>6, <2>3 DEF GenericState, h
  <2>5. Good(f) /\ Base(f) = Base(h)
    BY <2>1, <2>2, <2>4 DEF Good, Base
  <2> QED BY <1>1, <1>2, <1>6, <2>1, <2>2, <2>4, <2>5 DEF Stash
<1>7. ASSUME ~(amount <= have \/ r.eof \/ r.error), NEW n \in short, r.fails < MaxErrors,
             f = [Filled(r, n) EXCEPT !.error = TRUE, !.fails = @ + 1]
      PROVE  /\ Good(f) /\ Base(f) = Base(r) /\ r.pos <= f.pos
             /\ f.fails - Stash(f) = r.fails - Stash(r)
             /\ f.error
  <2> DEFINE h == Filled(r, n)
  <2>1. n \in Nat /\ r.pos + n <= Length
    BY <1>1, <1>7
  <2>2. /\ Good(h) /\ Base(h) = Base(r) /\ h.pos = r.pos + n
        /\ h.error = r.error /\ h.fails = r.fails /\ h.eof = r.eof
    BY <2>1, FilledIs
  <2> HIDE DEF h
  <2>3. h \in GenericState
    BY <2>2 DEF Good
  <2>4. /\ f = [h EXCEPT !.error = TRUE, !.fails = @ + 1]
        /\ f.buf = h.buf /\ f.cursor = h.cursor /\ f.pos = h.pos
        /\ f.error = TRUE /\ f.fails = h.fails + 1 /\ f.eof = h.eof
    BY <1>7, <2>3 DEF GenericState, h
  <2>5. f \in GenericState
    <3>1. h.fails + 1 \in Nat
      BY <2>3 DEF GenericState
    <3> QED BY <2>3, <2>4, <3>1 DEF GenericState
  <2>6. Base(f) = Base(h)
    BY <2>4 DEF Base
  <2>7. f.fails <= MaxErrors
    BY <1>1, <1>7, <2>2, <2>4
  <2>8. Good(f)
    BY <2>2, <2>4, <2>5, <2>7 DEF Good
  <2>9. f.fails - Stash(f) = r.fails - Stash(r)
    BY <1>1, <1>7, <2>2, <2>4 DEF Stash
  <2> QED BY <1>1, <2>1, <2>2, <2>4, <2>6, <2>8, <2>9
<1>8. CASE ~(amount <= have \/ r.eof \/ r.error)
  <2>1. amount > r.pos - Base(r)
    BY <1>1, <1>2, <1>8
  <2>2. \/ \E n \in enough : f = Filled(r, n)
        \/ \E n \in short : n = left /\ f = [Filled(r, n) EXCEPT !.eof = TRUE]
        \/ \E n \in short : /\ r.fails < MaxErrors
                             /\ f = [Filled(r, n) EXCEPT !.error = TRUE, !.fails = @ + 1]
    BY <1>3, <1>8
  <2> HIDE DEF have, enough, short, left
  <2> QED BY <1>5, <1>6, <1>7, <1>8, <2>1, <2>2
<1> HIDE DEF have, enough, short, left
<1> QED BY <1>3, <1>4, <1>8

Io(err) == IF err = "io" THEN 1 ELSE 0

(* What data_helper of Generic returns: an error of the source only if     *)
(* there is nothing (or, hard, not enough) to return, and less than the    *)
(* amount only at the end or before an error.                              *)
LEMMA HelperIs ==
  ASSUME NEW r, Good(r), NEW t, NEW amount \in Nat, NEW hard \in BOOLEAN,
         NEW res \in GenericHelper(r, t, amount, hard)
  PROVE  /\ res = Result(res.g, t, res.err, res.data, 0)
         /\ Good(res.g) /\ Base(res.g) = Base(r) /\ r.pos <= res.g.pos
         /\ res.err \in {"none", "io", "eof"}
         /\ res.g.fails - Stash(res.g) = r.fails - Stash(r) + Io(res.err)
         /\ res.err # "none" =>
              res.data = <<>> /\ (amount > r.pos - Base(r) \/ r.error)
         /\ res.err = "io" => ~res.g.error /\ (hard \/ res.g.pos = Base(r))
         /\ res.err = "eof" => hard
         /\ res.err = "none" =>
              /\ res.data = Source(Base(r) + 1, IF amount = 0 THEN Base(r) ELSE res.g.pos)
              /\ \/ res.g.pos - Base(r) >= amount
                 \/ ~hard /\ (res.g.error \/ res.g.pos = Length)
<1>1. PICK f \in Fill(r, amount) :
        LET have == Len(Rest(f))
            fails == f.error /\ (IF hard THEN amount > have ELSE have = 0)
        IN  res = IF fails THEN Result([f EXCEPT !.error = FALSE], t, "io", <<>>, 0)
                  ELSE IF hard /\ have < amount THEN Result(f, t, "eof", <<>>, 0)
                  ELSE Result(f, t, "none", IF amount = 0 THEN <<>> ELSE Rest(f), 0)
  BY DEF GenericHelper
<1>2. /\ Good(f) /\ Base(f) = Base(r) /\ r.pos <= f.pos
      /\ f.fails - Stash(f) = r.fails - Stash(r)
      /\ f.error => r.error \/ amount > r.pos - Base(r)
      /\ f.pos - Base(f) >= amount \/ f.error \/ f.pos = Length
  BY FillIs
<1>3. /\ Base(r) \in Nat /\ f.pos \in Nat /\ r.pos \in Nat /\ Base(r) <= f.pos
      /\ f.fails \in Nat /\ r.fails \in Nat /\ f.error \in BOOLEAN
      /\ Rest(f) = Source(Base(r) + 1, f.pos) /\ Len(Rest(f)) = f.pos - Base(r)
  BY <1>2, RestIs DEF Good, GenericState
<1> DEFINE have == Len(Rest(f))
           fails == f.error /\ (IF hard THEN amount > have ELSE have = 0)
<1>4. CASE fails
  <2> DEFINE e == [f EXCEPT !.error = FALSE]
  <2>1. res = Result(e, t, "io", <<>>, 0)
    BY <1>1, <1>4
  <2>2. /\ f \in GenericState /\ e \in GenericState /\ e.error = FALSE
        /\ e.buf = f.buf /\ e.cursor = f.cursor /\ e.pos = f.pos
        /\ e.eof = f.eof /\ e.fails = f.fails
    <3>1. f \in GenericState
      BY <1>2 DEF Good
    <3> QED BY <3>1 DEF GenericState
  <2> HIDE DEF e
  <2>3. Good(e) /\ Base(e) = Base(f)
    BY <1>2, <2>2 DEF Good, Base
  <2>4. Stash(e) = 0 /\ Stash(f) = 1 /\ Stash(r) \in Nat /\ Io("io") = 1
    BY <1>4, <2>2 DEF Stash, Io
  <2>5. e.fails - Stash(e) = r.fails - Stash(r) + Io("io")
    BY <1>2, <1>3, <2>2, <2>4
  <2>6. ~e.error /\ (hard \/ e.pos = Base(r))
    BY <1>3, <1>4, <2>2
  <2>7. amount > r.pos - Base(r) \/ r.error
    BY <1>2, <1>4
  <2>8. /\ res.g = e /\ res.err = "io" /\ res.data = <<>>
        /\ res = Result(res.g, t, res.err, res.data, 0)
    BY <2>1 DEF Result
  <2> HIDE DEF fails, have
  <2> QED BY <1>2, <2>2, <2>3, <2>5, <2>6, <2>7, <2>8
<1>5. CASE ~fails /\ hard /\ have < amount
  <2>1. res = Result(f, t, "eof", <<>>, 0)
    BY <1>1, <1>5
  <2>2. /\ res.g = f /\ res.err = "eof" /\ res.data = <<>>
        /\ res = Result(res.g, t, res.err, res.data, 0)
    BY <2>1 DEF Result
  <2>3. amount > r.pos - Base(r)
    BY <1>2, <1>3, <1>5
  <2>4. f.fails - Stash(f) = r.fails - Stash(r) + Io("eof")
    BY <1>2, <1>3 DEF Io, Stash
  <2> HIDE DEF fails, have
  <2> QED BY <1>2, <1>5, <2>2, <2>3, <2>4
<1>6. CASE ~fails /\ ~(hard /\ have < amount)
  <2>1. res = Result(f, t, "none", IF amount = 0 THEN <<>> ELSE Rest(f), 0)
    BY <1>1, <1>6
  <2>2. /\ res.g = f /\ res.err = "none"
        /\ res.data = IF amount = 0 THEN <<>> ELSE Rest(f)
        /\ res = Result(res.g, t, res.err, res.data, 0)
    BY <2>1 DEF Result
  <2>3. f.fails - Stash(f) = r.fails - Stash(r) + Io("none")
    BY <1>2, <1>3 DEF Io, Stash
  <2>4. Source(Base(r) + 1, Base(r)) = <<>>
    <3> DEFINE i == Base(r) + 1
               j == Base(r)
    <3>1. i \in Nat /\ i > 0 /\ j \in Int /\ j < i
      BY <1>3
    <3> HIDE DEF i, j
    <3>2. Source(i, j) = <<>>
      BY <3>1, SourceEmpty
    <3> QED BY <3>2 DEF i, j
  <2>5. \/ f.pos - Base(r) >= amount
        \/ ~hard /\ (f.error \/ f.pos = Length)
    BY <1>2, <1>3, <1>6
  <2> HIDE DEF fails, have
  <2> QED BY <1>2, <1>3, <2>2, <2>3, <2>4, <2>5
<1> QED BY <1>4, <1>5, <1>6

LEMMA HelperData ==
  ASSUME NEW r, Good(r), NEW t, NEW amount \in Nat, NEW hard \in BOOLEAN,
         NEW res \in GenericHelper(r, t, amount, hard)
  PROVE  Len(res.data) \in Nat /\ (res.err # "none" => res.data = <<>>)
<1> DEFINE i == Base(r) + 1
           j == IF amount = 0 THEN Base(r) ELSE res.g.pos
<1>1. /\ res.err # "none" => res.data = <<>>
      /\ res.err = "none" => res.data = Source(i, j)
      /\ Good(res.g)
  BY HelperIs
<1>2. i \in Nat /\ i > 0 /\ j \in Int
  <2>1. Base(r) \in Nat
    BY RestIs
  <2>2. res.g.pos \in Nat
    BY <1>1 DEF Good, GenericState
  <2> QED BY <2>1, <2>2
<1> HIDE DEF i, j
<1>3. Len(Source(i, j)) \in Nat
  BY <1>2, SourceSeq DEF Span
<1> QED BY <1>1, <1>3

-----------------------------------------------------------------------------
(* The readers on top. *)

(* Up to where the reader may go if the source has been read up to p. *)
Bound(p) ==
  IF kind = "limitor" THEN (IF p <= param THEN p ELSE param)
  ELSE IF kind = "reserve" THEN p - param ELSE p

(* How many bytes the caller has consumed. *)
At(r, t) == IF kind = "dup" THEN t ELSE Base(r)

(* How the state of the reader on top goes with the state of Generic. *)
Fits(r, t) ==
  /\ Good(r) /\ t \in Nat
  /\ kind = "limitor" => t = param - Base(r)
  /\ kind = "reserve" => Base(r) = 0 \/ Base(r) <= r.pos - param
  /\ kind = "dup" => Base(r) = 0 /\ t <= r.pos

(* The reader on top is one of the four. *)
Setting == kind \in {"generic", "limitor", "reserve", "dup"} /\ param \in Nat

LEMMA FitsNumbers ==
  ASSUME Setting, NEW r, NEW t, Fits(r, t)
  PROVE  /\ At(r, t) \in Nat /\ At(r, t) <= r.pos
         /\ r.pos \in Nat /\ r.pos <= Length /\ Length \in Nat
         /\ Bound(r.pos) \in Int /\ Bound(Length) \in Int
         /\ Bound(r.pos) <= Bound(Length) /\ Bound(r.pos) <= r.pos
         /\ At(r, t) = 0 \/ At(r, t) <= Bound(r.pos)
<1>1. Base(r) \in Nat /\ Base(r) <= r.pos
  BY RestIs DEF Fits
<1>2. r.pos \in Nat /\ r.pos <= Length /\ Length \in Nat
  BY SizeAssumption DEF Fits, Good, GenericState
<1> QED BY <1>1, <1>2 DEF Fits, Setting, At, Bound

LEMMA SourceByLength ==
  ASSUME NEW i \in Nat, i > 0, NEW j \in Int
  PROVE  /\ Len(Source(i, j)) = Span(i, j)
         /\ Source(i, j) = Source(i, i - 1 + Span(i, j))
<1>1. Len(Source(i, j)) = Span(i, j)
  BY SourceSeq
<1>2. CASE j >= i
  BY <1>1, <1>2 DEF Span
<1>3. CASE j < i
  <2> DEFINE k == i - 1 + Span(i, j)
  <2>1. k \in Int /\ k < i
    BY <1>3 DEF Span
  <2> HIDE DEF k
  <2>2. Source(i, k) = <<>> /\ Source(i, j) = <<>>
    BY <1>3, <2>1, SourceEmpty
  <2> QED BY <1>1, <2>2 DEF k
<1> QED BY <1>2, <1>3

(* What the reader on top lets through of what Generic returns. *)
View(data, t) ==
  IF kind = "limitor" THEN Prefix(data, t)
  ELSE IF kind = "reserve" THEN Prefix(data, Len(data) - param)
  ELSE IF kind = "dup" THEN Drop(data, t) ELSE data

LEMMA ViewIs ==
  ASSUME Setting, NEW b \in Nat, NEW t \in Nat, NEW e \in Int, b <= e,
         kind = "limitor" => t = param - b, kind = "dup" => b = 0
  PROVE  View(Source(b + 1, e), t) =
           Source((IF kind = "dup" THEN t ELSE b) + 1, Bound(e))
<1> DEFINE i == b + 1
<1>1. i \in Nat /\ i > 0 /\ t \in Int /\ param \in Nat
  BY DEF Setting
<1>2. CASE kind = "generic"
  BY <1>2 DEF View, Bound
<1>3. CASE kind = "limitor"
  <2>1. Prefix(Source(i, e), t) = Source(i, Cut(i, t, e))
    <3> HIDE DEF i
    <3> QED BY <1>1, PrefixSource
  <2>2. Cut(i, t, e) = Bound(e)
    BY <1>1, <1>3 DEF Bound, Cut
  <2> QED BY <1>3, <2>1, <2>2 DEF View
<1>4. CASE kind = "reserve"
  <2> DEFINE n == Len(Source(i, e)) - param
  <2>1. Len(Source(i, e)) = Span(i, e)
    <3> HIDE DEF i
    <3> QED BY <1>1, SourceSeq
  <2>2. n = e - b - param /\ n \in Int
    BY <1>1, <2>1 DEF Span
  <2>3. Cut(i, n, e) = Bound(e)
    <3> HIDE DEF n
    <3> QED BY <1>1, <1>4, <2>2 DEF Bound, Cut
  <2>4. View(Source(i, e), t) = Prefix(Source(i, e), n)
    BY <1>4 DEF View
  <2> HIDE DEF n
  <2>5. Prefix(Source(i, e), n) = Source(i, Cut(i, n, e))
    <3> HIDE DEF i
    <3> QED BY <1>1, <2>2, PrefixSource
  <2> QED BY <1>4, <2>3, <2>4, <2>5
<1>5. CASE kind = "dup"
  <2>1. Drop(Source(i, e), t) = Source(i + t, e)
    <3> HIDE DEF i
    <3> QED BY <1>1, DropSource
  <2>2. i + t = t + 1
    BY <1>5
  <2> QED BY <1>5, <2>1, <2>2 DEF View, Bound
<1> QED BY <1>2, <1>3, <1>4, <1>5 DEF Setting

(* buffer(): what is between the reader and its bound. *)
LEMMA BufferIs ==
  ASSUME Setting, NEW r, NEW t, Fits(r, t)
  PROVE  /\ Buffer(r, t) = Source(At(r, t) + 1, Bound(r.pos))
         /\ Len(Buffer(r, t)) = Span(At(r, t) + 1, Bound(r.pos))
<1> DEFINE b == Base(r)
           p == r.pos
           a == At(r, t) + 1
           e == Bound(p)
<1>1. b \in Nat /\ b <= p /\ p \in Int /\ Rest(r) = Source(b + 1, p)
  BY RestIs DEF Fits, Good, GenericState
<1>2. t \in Nat /\ (kind = "limitor" => t = param - b) /\ (kind = "dup" => b = 0)
  BY DEF Fits
<1>3. At(r, t) = IF kind = "dup" THEN t ELSE b
  BY DEF At
<1>4. a \in Nat /\ a > 0 /\ e \in Int
  BY FitsNumbers
<1>5. Buffer(r, t) = View(Rest(r), t)
  BY DEF Buffer, View, Setting
<1> HIDE DEF b, p
<1>6. Buffer(r, t) = Source(a, e)
  BY <1>1, <1>2, <1>3, <1>5, ViewIs
<1> HIDE DEF a, e
<1>7. Len(Source(a, e)) = Span(a, e)
  BY <1>4, SourceSeq
<1> QED BY <1>6, <1>7 DEF a, e, p

-----------------------------------------------------------------------------
(* Sound results. *)

Here == At(g, top)
Shown == Span(Here + 1, Bound(g.pos))

(* The data begin where the reader is and end before its bound, some of    *)
(* them may be consumed, and they are short only at the end or before an   *)
(* error.                                                                  *)
DataOk(res, ask) ==
  /\ Len(res.data) \in Nat /\ res.data = Source(Here + 1, Here + Len(res.data))
  /\ Len(res.data) = 0 \/ Here + Len(res.data) <= Bound(res.g.pos)
  /\ res.took <= Len(res.data)
  /\ \/ Len(res.data) >= ask
     \/ Here + Len(res.data) >= Bound(Length)
     \/ res.g.error

(* A result of a call in the current state that asks for so much. *)
Sound(res, ask) ==
  /\ res = Result(res.g, res.top, res.err, res.data, res.took)
  /\ Fits(res.g, res.top) /\ g.pos <= res.g.pos
  /\ res.took \in Nat /\ At(res.g, res.top) = Here + res.took
  /\ res.err \in {"none", "io", "eof"}
  /\ res.g.fails - Stash(res.g) = g.fails - Stash(g) + Io(res.err)
  /\ res.err # "none" =>
       /\ res.data = <<>> /\ res.took = 0
       /\ ask > Shown \/ Shown = 0 \/ g.error
  /\ res.err = "none" => DataOk(res, ask)

(* What the reader on top asks Generic for. *)
Need(amount) ==
  IF kind = "limitor" THEN Min({amount, top})
  ELSE IF kind = "reserve" THEN amount + param
  ELSE IF kind = "dup" THEN top + amount ELSE amount

LEMMA NeedNat ==
  ASSUME Setting, Fits(g, top), NEW amount \in Nat
  PROVE  /\ Need(amount) \in Nat
         /\ kind = "limitor" => Need(amount) = IF amount <= top THEN amount ELSE top
<1>1. top \in Nat /\ param \in Nat
  BY DEF Fits, Setting
<1>2. Min({amount, top}) = IF amount <= top THEN amount ELSE top
  BY <1>1, MinOfTwo
<1> QED BY <1>1, <1>2 DEF Need

LEMMA ViewSound ==
  ASSUME Setting, Fits(g, top), NEW amount \in Nat, NEW hard \in BOOLEAN,
         NEW h \in GenericHelper(g, top, Need(amount), hard)
  PROVE  /\ Sound([h EXCEPT !.data = View(@, top)], amount)
         /\ h = Result(h.g, top, h.err, h.data, 0)
         /\ h.err = "eof" => hard
         /\ h.err = "io" => hard \/ Rest(h.g) = <<>>
         /\ h.err = "none" /\ amount > 0 => Len(View(h.data, top)) >= Shown
         /\ h.err = "none" /\ hard /\ (kind = "limitor" => amount <= top) =>
              Len(View(h.data, top)) >= amount
<1> DEFINE b == Base(g)
           n == Need(amount)
           p == h.g.pos
           e == IF n = 0 THEN b ELSE p
           l == Len(View(h.data, top))
           res == Result(h.g, top, h.err, View(h.data, top), 0)
<1>1. Good(g) /\ top \in Nat /\ param \in Nat /\ n \in Nat
      /\ (kind = "limitor" => n = IF amount <= top THEN amount ELSE top)
  BY NeedNat DEF Fits, Setting
<1>2. /\ h = Result(h.g, top, h.err, h.data, 0)
      /\ Good(h.g) /\ Base(h.g) = b /\ g.pos <= p
      /\ h.err \in {"none", "io", "eof"}
      /\ h.g.fails - Stash(h.g) = g.fails - Stash(g) + Io(h.err)
      /\ h.err # "none" => h.data = <<>> /\ (n > g.pos - b \/ g.error)
      /\ h.err = "io" => ~h.g.error /\ (hard \/ p = b)
      /\ h.err = "eof" => hard
      /\ h.err = "none" =>
           /\ h.data = Source(b + 1, e)
           /\ \/ p - b >= n
              \/ ~hard /\ (h.g.error \/ p = Length)
  <2> HIDE DEF n
  <2> QED BY <1>1, HelperIs DEF n
<1>3. /\ b \in Nat /\ b <= g.pos /\ g.pos \in Nat /\ p \in Nat /\ Length \in Nat
      /\ p <= Length /\ b <= p
  BY <1>1, <1>2, RestIs, SizeAssumption DEF Good, GenericState
<1>4. [h EXCEPT !.data = View(@, top)] = res
  BY <1>2 DEF Result
<1>5. Fits(h.g, top) /\ At(h.g, top) = Here
  BY <1>1, <1>2, <1>3 DEF Fits, At, Here
<1>6. Here \in Nat /\ Bound(Length) \in Int /\ Bound(p) \in Int
  BY <1>5, FitsNumbers DEF Here
<1>7. h.err = "io" => hard \/ Rest(h.g) = <<>>
  <2> SUFFICES ASSUME h.err = "io", ~hard PROVE Rest(h.g) = <<>>
    OBVIOUS
  <2> DEFINE i == b + 1
  <2>1. i \in Nat /\ i > 0 /\ b \in Int /\ b < i
    BY <1>3
  <2>2. Rest(h.g) = Source(i, b)
    BY <1>2, RestIs
  <2> HIDE DEF i, b
  <2> QED BY <2>1, <2>2, SourceEmpty
<1>8. ASSUME h.err # "none"
      PROVE  View(h.data, top) = <<>> /\ (amount > Shown \/ Shown = 0 \/ g.error)
  <2>1. h.data = <<>> /\ (n > g.pos - b \/ g.error)
    BY <1>2, <1>8
  <2>2. View(h.data, top) = <<>>
    <3> DEFINE k == 0 - param
    <3>1. Len(<<>>) = 0 /\ k \in Int /\ Len(<<>>) - param = k
      BY <1>1
    <3>2. Min({top, Len(<<>>)}) <= 0 /\ Min({top, Len(<<>>)}) \in Int
      BY <1>1, <3>1, MinOfTwo
    <3>3. Min({k, Len(<<>>)}) <= 0 /\ Min({k, Len(<<>>)}) \in Int
      BY <1>1, <3>1, MinOfTwo
    <3>4. Prefix(<<>>, top) = <<>>
      BY <3>2, SubSeqEmpty DEF Prefix
    <3>5. Prefix(<<>>, k) = <<>>
      BY <3>3, SubSeqEmpty DEF Prefix
    <3>6. Drop(<<>>, top) = <<>>
      BY <1>1, <3>1, SubSeqEmpty DEF Drop
    <3> HIDE DEF k
    <3> QED BY <2>1, <3>1, <3>4, <3>5, <3>6 DEF View
  <2>3. n > g.pos - b => amount > Shown \/ Shown = 0
    BY <1>1, <1>3 DEF Shown, Span, Here, At, Bound, Need, Fits, Setting
  <2> QED BY <2>1, <2>2, <2>3
<1>9. ASSUME h.err = "none"
      PROVE  /\ DataOk(res, amount) /\ (amount > 0 => l >= Shown)
             /\ hard /\ (kind = "limitor" => amount <= top) => l >= amount
  <2>1. /\ h.data = Source(b + 1, e)
        /\ p - b >= n \/ h.g.error \/ p = Length
        /\ hard => p - b >= n
    BY <1>2, <1>9
  <2>2. e \in Int /\ b <= e /\ e <= p
    BY <1>3
  <2>3. View(h.data, top) = Source(Here + 1, Bound(e))
    <3>1. /\ Here = IF kind = "dup" THEN top ELSE b
          /\ (kind = "limitor" => top = param - b) /\ (kind = "dup" => b = 0)
      BY DEF Here, At, Fits
    <3> HIDE DEF b, e
    <3> QED BY <1>1, <1>3, <2>1, <2>2, <3>1, ViewIs
  <2> DEFINE i == Here + 1
             m == Bound(e)
  <2>4. i \in Nat /\ i > 0 /\ m \in Int
    BY <1>1, <1>6, <2>2 DEF Bound
  <2>5. l = Span(i, m) /\ View(h.data, top) = Source(i, i - 1 + Span(i, m))
    <3> HIDE DEF i, m
    <3> QED BY <2>3, <2>4, SourceByLength DEF i, m
  <2>6. i - 1 + Span(i, m) = Here + l
    BY <1>6, <2>4, <2>5 DEF Span
  <2>7. l \in Nat /\ View(h.data, top) = Source(Here + 1, Here + l)
    BY <2>4, <2>5, <2>6 DEF Span
  <2>8. l = 0 \/ Here + l <= Bound(p)
    <3>1. Bound(e) <= Bound(p)
      <4> HIDE DEF e, p
      <4> QED BY <1>1, <1>3, <2>2 DEF Bound
    <3>2. l = IF Bound(e) >= Here + 1 THEN Bound(e) - Here ELSE 0
      <4> HIDE DEF l
      <4> QED BY <1>6, <2>4, <2>5 DEF Span
    <3> HIDE DEF l, e, p
    <3> QED BY <1>6, <2>4, <3>1, <3>2
  <2>9. l >= amount \/ Here + l >= Bound(Length) \/ h.g.error
    <3>1. (n = 0 => e = b) /\ (n # 0 => e = p)
      OBVIOUS
    <3>2. l = IF Bound(e) >= Here + 1 THEN Bound(e) - Here ELSE 0
      <4> HIDE DEF l
      <4> QED BY <1>6, <2>4, <2>5 DEF Span
    <3>3. CASE kind = "generic"
      <4>1. n = amount /\ Here = b
        BY <3>3 DEF Need, Here, At
      <4> HIDE DEF l, e, p, n, b
      <4> QED BY <1>3, <2>1, <2>2, <3>1, <3>2, <3>3, <4>1 DEF Bound
    <3>4. CASE kind = "limitor"
      <4>1. top = param - b /\ Here = b /\ n = IF amount <= top THEN amount ELSE top
        BY <1>1, <3>4 DEF Fits, Here, At
      <4> HIDE DEF l, e, p, n, b
      <4> QED BY <1>1, <1>3, <2>1, <2>2, <3>1, <3>2, <3>4, <4>1 DEF Bound
    <3>5. CASE kind = "reserve"
      <4>1. n = amount + param /\ Here = b
        BY <3>5 DEF Need, Here, At
      <4> HIDE DEF l, e, p, n, b
      <4> QED BY <1>1, <1>3, <2>1, <2>2, <3>1, <3>2, <3>5, <4>1 DEF Bound
    <3>6. CASE kind = "dup"
      <4>1. b = 0 /\ Here = top /\ n = top + amount
        BY <3>6 DEF Fits, Here, At, Need
      <4> HIDE DEF l, e, p, n, b
      <4> QED BY <1>1, <1>3, <2>1, <2>2, <3>1, <3>2, <3>6, <4>1 DEF Bound
    <3> QED BY <3>3, <3>4, <3>5, <3>6 DEF Setting
  <2>10. res.data = View(h.data, top) /\ res.g = h.g /\ res.took = 0
    BY DEF Result
  <2>11. amount > 0 => l >= Shown
    <3>1. (n = 0 => e = b) /\ (n # 0 => e = p)
      OBVIOUS
    <3>2. l = IF Bound(e) >= Here + 1 THEN Bound(e) - Here ELSE 0
      <4> HIDE DEF l
      <4> QED BY <1>6, <2>4, <2>5 DEF Span
    <3>3. Shown = IF Bound(g.pos) >= Here + 1 THEN Bound(g.pos) - Here ELSE 0
      BY <1>3, <1>6 DEF Shown, Span, Bound, Setting
    <3>4. CASE n = 0 /\ amount > 0
      <4>1. kind = "limitor" /\ top = 0 /\ Here = b /\ b = param
        BY <1>1, <1>3, <3>4 DEF Need, Here, At, Fits
      <4>2. Bound(g.pos) <= Here /\ Bound(g.pos) \in Int
        BY <1>1, <1>3, <4>1 DEF Bound
      <4> HIDE DEF l, e, p, n, b
      <4>3. Shown = 0
        BY <1>6, <3>3, <4>2
      <4> QED BY <2>7, <4>3
    <3>5. CASE n # 0
      <4>1. Bound(g.pos) <= Bound(p) /\ Bound(g.pos) \in Int
        <5> HIDE DEF p
        <5> QED BY <1>1, <1>2, <1>3 DEF Bound
      <4> HIDE DEF l, e, p, n, b
      <4> QED BY <1>6, <3>1, <3>2, <3>3, <3>5, <4>1
    <3> HIDE DEF l, e, p, n, b
    <3> QED BY <3>4, <3>5
  <2>12. ASSUME hard, kind = "limitor" => amount <= top
         PROVE  l >= amount
    <3>1. (n = 0 => e = b) /\ (n # 0 => e = p) /\ p - b >= n
      BY <2>1, <2>12
    <3>2. l = IF Bound(e) >= Here + 1 THEN Bound(e) - Here ELSE 0
      <4> HIDE DEF l
      <4> QED BY <1>6, <2>4, <2>5 DEF Span
    <3>3. CASE kind = "generic"
      <4>1. n = amount /\ Here = b
        BY <3>3 DEF Need, Here, At
      <4> HIDE DEF l, e, p, n, b
      <4> QED BY <1>3, <2>2, <3>1, <3>2, <3>3, <4>1 DEF Bound
    <3>4. CASE kind = "limitor"
      <4>1. top = param - b /\ Here = b /\ n = amount /\ amount <= top
        BY <1>1, <2>12, <3>4 DEF Fits, Here, At
      <4> HIDE DEF l, e, p, n, b
      <4> QED BY <1>1, <1>3, <2>2, <3>1, <3>2, <3>4, <4>1 DEF Bound
    <3>5. CASE kind = "reserve"
      <4>1. n = amount + param /\ Here = b
        BY <3>5 DEF Need, Here, At
      <4> HIDE DEF l, e, p, n, b
      <4> QED BY <1>1, <1>3, <2>2, <3>1, <3>2, <3>5, <4>1 DEF Bound
    <3>6. CASE kind = "dup"
      <4>1. b = 0 /\ Here = top /\ n = top + amount
        BY <3>6 DEF Fits, Here, At, Need
      <4> HIDE DEF l, e, p, n, b
      <4> QED BY <1>1, <1>3, <2>2, <3>1, <3>2, <3>6, <4>1 DEF Bound
    <3> QED BY <3>3, <3>4, <3>5, <3>6 DEF Setting
  <2> HIDE DEF res
  <2> QED BY <1>6, <2>7, <2>8, <2>9, <2>10, <2>11, <2>12 DEF DataOk
<1>10. /\ res.g = h.g /\ res.top = top /\ res.err = h.err
       /\ res.data = View(h.data, top) /\ res.took = 0
       /\ res = Result(res.g, res.top, res.err, res.data, res.took)
  BY DEF Result
<1> HIDE DEF res
<1>11. Sound(res, amount)
  BY <1>2, <1>5, <1>6, <1>8, <1>9, <1>10 DEF Sound
<1> QED BY <1>2, <1>4, <1>7, <1>9, <1>11

(* Results with some fields changed, one operator and lemma for each       *)
(* combination that occurs.                                                *)
SetErrData(res, x, y) == [res EXCEPT !.err = x, !.data = y]
SetCursor(res, x, n) == [res EXCEPT !.g.cursor = x, !.took = n]
SetTop(res, u, n) == [res EXCEPT !.top = u, !.took = n]
SetBoth(res, x, u, n) == [res EXCEPT !.g.cursor = x, !.top = u, !.took = n]

LEMMA ResultFields ==
  ASSUME NEW res, NEW r, NEW t, NEW err, NEW data, NEW took,
         res = Result(r, t, err, data, took)
  PROVE  /\ res.g = r /\ res.top = t /\ res.err = err /\ res.data = data
         /\ res.took = took
         /\ res = Result(res.g, res.top, res.err, res.data, res.took)
BY DEF Result

LEMMA ErrDataResult ==
  ASSUME NEW res, NEW r, NEW t, NEW err, NEW data, NEW took, NEW x, NEW y,
         res = Result(r, t, err, data, took)
  PROVE  SetErrData(res, x, y) = Result(r, t, x, y, took)
<1> DEFINE a == [res EXCEPT !.err = x]
<1>1. a = Result(r, t, x, data, took)
  BY DEF Result
<1>2. SetErrData(res, x, y) = [a EXCEPT !.data = y]
  BY DEF SetErrData
<1> HIDE DEF a
<1>3. [a EXCEPT !.data = y] = Result(r, t, x, y, took)
  BY <1>1 DEF Result
<1> QED BY <1>2, <1>3

LEMMA CursorResult ==
  ASSUME NEW res, NEW r, NEW t, NEW err, NEW data, NEW took, NEW x, NEW n,
         res = Result(r, t, err, data, took)
  PROVE  SetCursor(res, x, n) = Result([r EXCEPT !.cursor = x], t, err, data, n)
<1> DEFINE a == [res EXCEPT !.g.cursor = x]
           v == [r EXCEPT !.cursor = x]
<1>1. a = Result(v, t, err, data, took)
  BY DEF Result
<1>2. SetCursor(res, x, n) = [a EXCEPT !.took = n]
  BY DEF SetCursor
<1> HIDE DEF a, v
<1>3. [a EXCEPT !.took = n] = Result(v, t, err, data, n)
  BY <1>1 DEF Result
<1> QED BY <1>2, <1>3 DEF v

LEMMA TopResult ==
  ASSUME NEW res, NEW r, NEW t, NEW err, NEW data, NEW took, NEW u, NEW n,
         res = Result(r, t, err, data, took)
  PROVE  SetTop(res, u, n) = Result(r, u, err, data, n)
<1> DEFINE a == [res EXCEPT !.top = u]
<1>1. a = Result(r, u, err, data, took)
  BY DEF Result
<1>2. SetTop(res, u, n) = [a EXCEPT !.took = n]
  BY DEF SetTop
<1> HIDE DEF a
<1>3. [a EXCEPT !.took = n] = Result(r, u, err, data, n)
  BY <1>1 DEF Result
<1> QED BY <1>2, <1>3

LEMMA BothResult ==
  ASSUME NEW res, NEW r, NEW t, NEW err, NEW data, NEW took, NEW x, NEW u, NEW n,
         res = Result(r, t, err, data, took)
  PROVE  SetBoth(res, x, u, n) = Result([r EXCEPT !.cursor = x], u, err, data, n)
<1> DEFINE a == [res EXCEPT !.g.cursor = x]
           v == [r EXCEPT !.cursor = x]
           b == [a EXCEPT !.top = u]
<1>1. a = Result(v, t, err, data, took)
  BY DEF Result
<1>2. SetBoth(res, x, u, n) = [b EXCEPT !.took = n]
  BY DEF SetBoth
<1> HIDE DEF a, v
<1>3. b = Result(v, u, err, data, took)
  BY <1>1 DEF Result
<1> HIDE DEF b
<1>4. [b EXCEPT !.took = n] = Result(v, u, err, data, n)
  BY <1>3 DEF Result
<1> QED BY <1>2, <1>4 DEF v

(* Before anything of it is consumed. *)
Fresh(res) == res.took = 0 /\ res.top = top

(* data() *)
LEMMA DataSound ==
  ASSUME Setting, Fits(g, top), NEW amount \in Nat, NEW res \in Data(amount)
  PROVE  /\ Sound(res, amount) /\ Fresh(res)
         /\ res.err \in {"none", "io"}
         /\ res.err = "io" => Rest(res.g) = <<>>
         /\ res.err = "none" /\ amount > 0 => Len(res.data) >= Shown
<1>1. \E h \in GenericHelper(g, top, Need(amount), FALSE) :
        res = [h EXCEPT !.data = View(@, top)]
  <2>1. CASE kind = "generic"
    <3>1. res \in GenericHelper(g, top, Need(amount), FALSE)
      BY <2>1 DEF Data, GenericData, Need
    <3>2. res = Result(res.g, top, res.err, res.data, 0)
      BY <3>1, ViewSound
    <3>3. res = [res EXCEPT !.data = View(@, top)]
      BY <2>1, <3>2 DEF View, Result
    <3> QED BY <3>1, <3>3
  <2>2. CASE kind = "limitor"
    BY <2>2 DEF Data, GenericData, Need, View
  <2>3. CASE kind = "reserve"
    BY <2>3 DEF Data, GenericData, Need, View
  <2>4. CASE kind = "dup"
    BY <2>4 DEF Data, GenericData, Need, View
  <2> QED BY <2>1, <2>2, <2>3, <2>4 DEF Setting
<1>2. PICK h \in GenericHelper(g, top, Need(amount), FALSE) :
        res = [h EXCEPT !.data = View(@, top)]
  BY <1>1
<1>3. /\ Sound(res, amount)
      /\ h = Result(h.g, top, h.err, h.data, 0)
      /\ h.err # "eof"
      /\ h.err = "io" => Rest(h.g) = <<>>
      /\ h.err = "none" /\ amount > 0 => Len(View(h.data, top)) >= Shown
  BY <1>2, ViewSound
<1>4. /\ res.g = h.g /\ res.top = top /\ res.err = h.err /\ res.took = 0
      /\ res.data = View(h.data, top)
  BY <1>2, <1>3 DEF Result
<1> QED BY <1>3, <1>4 DEF Sound, Fresh

(* data_hard() *)
LEMMA DataHardSound ==
  ASSUME Setting, Fits(g, top), NEW amount \in Nat, NEW res \in DataHard(amount)
  PROVE  /\ Sound(res, amount) /\ Fresh(res)
         /\ res.err = "none" => Len(res.data) >= amount
<1>1. CASE kind = "generic"
  <2>1. res \in GenericHelper(g, top, Need(amount), TRUE)
    BY <1>1 DEF DataHard, Need
  <2>2. /\ res = Result(res.g, top, res.err, res.data, 0)
        /\ Sound([res EXCEPT !.data = View(@, top)], amount)
    BY <2>1, ViewSound
  <2>3. res = [res EXCEPT !.data = View(@, top)]
    BY <1>1, <2>2 DEF View, Result
  <2>4. res.top = top /\ res.took = 0
    BY <2>2 DEF Result
  <2>5. res.err = "none" => Len(res.data) >= amount
    <3>1. res.err = "none" => Len(View(res.data, top)) >= amount
      BY <1>1, <2>1, ViewSound
    <3> QED BY <1>1, <3>1 DEF View
  <2> QED BY <2>2, <2>3, <2>4, <2>5 DEF Fresh
<1>2. CASE kind # "generic"
  <2>1. PICK d \in Data(amount) :
          res = IF d.err = "none" /\ Len(d.data) < amount
                THEN [d EXCEPT !.err = "eof", !.data = <<>>] ELSE d
    BY <1>2 DEF DataHard
  <2>2. /\ Sound(d, amount) /\ Fresh(d) /\ d.err \in {"none", "io"}
        /\ d.err = "none" /\ amount > 0 => Len(d.data) >= Shown
    BY DataSound
  <2>3. CASE d.err = "none" /\ Len(d.data) < amount
    <3>1. d = Result(d.g, top, "none", d.data, 0)
      BY <2>2, <2>3 DEF Sound, Fresh
    <3>2. res = Result(d.g, top, "eof", <<>>, 0)
      <4>1. res = SetErrData(d, "eof", <<>>)
        BY <2>1, <2>3 DEF SetErrData
      <4> QED BY <3>1, <4>1, ErrDataResult
    <3>3. /\ res.g = d.g /\ res.top = top /\ res.err = "eof"
          /\ res.data = <<>> /\ res.took = 0
          /\ res = Result(res.g, res.top, res.err, res.data, res.took)
      BY <3>2 DEF Result
    <3>4. amount > Shown
      <4>1. Len(d.data) \in Nat
        BY <2>2, <2>3 DEF Sound, DataOk
      <4>2. Shown \in Nat
        BY FitsNumbers DEF Shown, Span, Here
      <4> QED BY <2>2, <2>3, <4>1, <4>2
    <3>5. Io("eof") = Io("none")
      BY DEF Io
    <3>6. Sound(res, amount)
      BY <2>2, <2>3, <3>3, <3>4, <3>5 DEF Sound, Fresh
    <3> QED BY <3>3, <3>6 DEF Fresh
  <2>4. CASE ~(d.err = "none" /\ Len(d.data) < amount)
    <3>1. res = d /\ (d.err = "none" => Len(d.data) \in Nat)
      BY <2>1, <2>2, <2>4 DEF Sound, DataOk
    <3> QED BY <2>2, <2>4, <3>1
  <2> QED BY <2>3, <2>4
<1> QED BY <1>1, <1>2

(* consume() *)
LEMMA ConsumedSound ==
  ASSUME Setting, Fits(g, top), NEW res, NEW ask, Sound(res, ask), Fresh(res),
         res.err = "none", NEW n \in Nat, n <= Len(res.data)
  PROVE  /\ Sound(Consumed(res, n), ask)
         /\ Consumed(res, n).err = "none" /\ Consumed(res, n).data = res.data
         /\ Consumed(res, n).took = n
<1> DEFINE u == IF kind = "dup" THEN res.g ELSE [res.g EXCEPT !.cursor = @ + n]
           t == IF kind = "limitor" THEN top - n ELSE IF kind = "dup" THEN top + n ELSE top
           c == Consumed(res, n)
           p == res.g.pos
           a == At(res.g, top)
           l == Len(res.data)
<1>1. res = Result(res.g, top, "none", res.data, 0)
  BY DEF Sound, Fresh
<1>2. c = Result(u, t, "none", res.data, n)
  <2> DEFINE x == res.g.cursor + n
  <2>1. res.top = top
    BY DEF Fresh
  <2>2. CASE kind \in {"generic", "reserve"}
    <3>1. c = SetCursor(res, x, n)
      BY <2>2 DEF Consumed, SetCursor
    <3>2. u = [res.g EXCEPT !.cursor = x] /\ t = top
      BY <2>2
    <3> HIDE DEF x, u, t, c
    <3> QED BY <1>1, <3>1, <3>2, CursorResult
  <2>3. CASE kind = "limitor"
    <3>1. c = SetBoth(res, x, t, n)
      BY <2>1, <2>3 DEF Consumed, SetBoth
    <3>2. u = [res.g EXCEPT !.cursor = x]
      BY <2>3
    <3> HIDE DEF x, u, t, c
    <3> QED BY <1>1, <3>1, <3>2, BothResult
  <2>4. CASE kind = "dup"
    <3>1. c = SetTop(res, t, n)
      BY <2>1, <2>4 DEF Consumed, SetTop
    <3>2. u = res.g
      BY <2>4
    <3> HIDE DEF x, u, t, c
    <3> QED BY <1>1, <3>1, <3>2, TopResult
  <2> QED BY <2>2, <2>3, <2>4 DEF Setting
<1>3. c.g = u /\ c.top = t /\ c.err = "none" /\ c.data = res.data /\ c.took = n
      /\ c = Result(c.g, c.top, c.err, c.data, c.took)
  BY <1>2 DEF Result
<1>4. /\ Fits(res.g, top) /\ g.pos <= p /\ a = Here + 0
      /\ DataOk(res, ask) /\ res.took = 0
  BY DEF Sound, Fresh
<1>5. /\ a \in Nat /\ p \in Nat /\ Bound(p) \in Int /\ Bound(p) <= p
      /\ Here \in Nat /\ a = Here /\ l \in Nat
  BY <1>4, FitsNumbers DEF Here, DataOk
<1>6. n = 0 \/ a + n <= Bound(p)
  BY <1>4, <1>5 DEF DataOk
<1>7. /\ Good(res.g) /\ top \in Nat /\ param \in Nat
      /\ Base(res.g) \in Nat /\ res.g.cursor \in Nat /\ Len(res.g.buf) \in Nat
      /\ res.g \in GenericState
  <2>1. Good(res.g) /\ top \in Nat /\ param \in Nat
    BY <1>4 DEF Fits, Setting
  <2>2. Base(res.g) \in Nat
    BY <2>1, RestIs
  <2> QED BY <2>1, <2>2 DEF Good, GenericState
<1>8. /\ u.pos = p /\ u.buf = res.g.buf /\ u.eof = res.g.eof
      /\ u.error = res.g.error /\ u.fails = res.g.fails /\ u \in GenericState
      /\ u.cursor = IF kind = "dup" THEN res.g.cursor ELSE res.g.cursor + n
  <2> DEFINE x == res.g.cursor + n
             q == res.g
  <2>1. x \in Nat /\ q \in GenericState
    BY <1>7
  <2>2. u = IF kind = "dup" THEN q ELSE [q EXCEPT !.cursor = x]
    OBVIOUS
  <2> HIDE DEF x, q, u
  <2>3. /\ u.pos = q.pos /\ u.buf = q.buf /\ u.eof = q.eof
        /\ u.error = q.error /\ u.fails = q.fails
        /\ u.cursor = IF kind = "dup" THEN q.cursor ELSE x
    BY <2>1, <2>2 DEF GenericState
  <2>4. u \in GenericState
    BY <2>1, <2>2 DEF GenericState
  <2> QED BY <2>3, <2>4 DEF x, q
<1> HIDE DEF u, c, p, l
<1>9. Base(u) = IF kind = "dup" THEN Base(res.g) ELSE Base(res.g) + n
  <2>1. Base(res.g) = p - Len(res.g.buf) + res.g.cursor
    BY DEF Base, p
  <2>2. Base(u) = p - Len(res.g.buf) + u.cursor
    BY <1>8 DEF Base
  <2>3. u.cursor = IF kind = "dup" THEN res.g.cursor ELSE res.g.cursor + n
    BY <1>8
  <2>4. Len(res.g.buf) \in Int /\ res.g.cursor \in Int /\ p \in Int /\ n \in Int
    BY <1>5, <1>7, <1>8 DEF GenericState
  <2> QED BY <2>1, <2>2, <2>3, <2>4
<1>10. u.cursor <= Len(u.buf)
  <2>1. CASE kind = "dup" \/ n = 0
    BY <1>7, <1>8, <2>1 DEF Good
  <2>2. CASE kind # "dup" /\ n # 0
    <3>1. Base(res.g) + n <= p
      BY <1>5, <1>6, <2>2 DEF At
    <3>2. p - Len(res.g.buf) + res.g.cursor + n <= p
      BY <3>1 DEF Base, p
    <3> QED BY <1>5, <1>7, <1>8, <2>2, <3>2
  <2> QED BY <2>1, <2>2
<1>11. Good(u)
  BY <1>7, <1>8, <1>10 DEF Good, p
<1>12. t \in Nat /\ (kind = "limitor" => t = param - Base(u))
       /\ (kind = "dup" => Base(u) = 0 /\ t <= p)
       /\ (kind = "reserve" => Base(u) = 0 \/ Base(u) <= p - param)
  <2>1. CASE kind = "limitor"
    <3>1. top = param - Base(res.g) /\ a = Base(res.g) /\ t = top - n
          /\ Base(u) = Base(res.g) + n
      BY <1>4, <1>9, <2>1 DEF Fits, At
    <3>2. Bound(p) <= param
      BY <1>5, <1>7, <2>1 DEF Bound
    <3> QED BY <1>5, <1>6, <1>7, <2>1, <3>1, <3>2
  <2>2. CASE kind = "dup"
    <3>1. Base(res.g) = 0 /\ top <= p /\ a = top /\ t = top + n /\ Base(u) = Base(res.g)
      BY <1>4, <1>9, <2>2 DEF Fits, At, p
    <3> QED BY <1>5, <1>6, <1>7, <2>2, <3>1
  <2>3. CASE kind = "reserve"
    <3>1. (Base(res.g) = 0 \/ Base(res.g) <= p - param) /\ a = Base(res.g) /\ t = top
          /\ Base(u) = Base(res.g) + n /\ Bound(p) = p - param
      BY <1>4, <1>9, <2>3 DEF Fits, At, p, Bound
    <3> QED BY <1>5, <1>6, <1>7, <2>3, <3>1
  <2>4. CASE kind = "generic"
    BY <1>7, <2>4
  <2> QED BY <2>1, <2>2, <2>3, <2>4 DEF Setting
<1>13. Fits(u, t)
  BY <1>8, <1>11, <1>12 DEF Fits
<1>14. At(u, t) = Here + n
  BY <1>5, <1>7, <1>9 DEF At
<1>15. DataOk(c, ask)
  BY <1>3, <1>4, <1>8 DEF DataOk, p
<1>16. c.g.fails - Stash(c.g) = g.fails - Stash(g) + Io("none")
  BY <1>3, <1>8 DEF Stash, Sound
<1> HIDE DEF t
<1>17. Sound(c, ask)
  BY <1>3, <1>4, <1>8, <1>13, <1>14, <1>15, <1>16 DEF Sound
<1> QED BY <1>3, <1>17 DEF c

(* A call that fails consumes nothing. *)
LEMMA ConsumeNothing ==
  ASSUME Setting, Fits(g, top), NEW res, NEW ask, Sound(res, ask), Fresh(res)
  PROVE  Consumed(res, 0) = res
<1> DEFINE r == res.g
           x == res.g.cursor + 0
           u == [r EXCEPT !.cursor = x]
           t == top + 0
           v == top - 0
<1>1. res = Result(r, top, res.err, res.data, 0) /\ res.top = top
  BY DEF Sound, Fresh
<1>2. r \in GenericState /\ r.cursor \in Nat /\ top \in Nat
  BY DEF Sound, Fits, Good, GenericState
<1>3. u = r /\ t = top /\ v = top
  BY <1>2 DEF GenericState
<1>4. CASE kind \in {"generic", "reserve"}
  <2>1. Consumed(res, 0) = SetCursor(res, x, 0)
    BY <1>4 DEF Consumed, SetCursor
  <2> HIDE DEF x, r
  <2>2. SetCursor(res, x, 0) = Result(u, top, res.err, res.data, 0)
    BY <1>1, CursorResult
  <2> QED BY <1>1, <1>3, <2>1, <2>2
<1>5. CASE kind = "limitor"
  <2>1. Consumed(res, 0) = SetBoth(res, x, v, 0)
    BY <1>1, <1>5 DEF Consumed, SetBoth
  <2> HIDE DEF x, v, r
  <2>2. SetBoth(res, x, v, 0) = Result(u, v, res.err, res.data, 0)
    BY <1>1, BothResult
  <2> QED BY <1>1, <1>3, <2>1, <2>2
<1>6. CASE kind = "dup"
  <2>1. Consumed(res, 0) = SetTop(res, t, 0)
    BY <1>1, <1>6 DEF Consumed, SetTop
  <2> HIDE DEF t, r
  <2>2. SetTop(res, t, 0) = Result(r, t, res.err, res.data, 0)
    BY <1>1, TopResult
  <2> QED BY <1>1, <1>3, <2>1, <2>2
<1> QED BY <1>4, <1>5, <1>6 DEF Setting

(* and_consume of Generic is consume() of what is returned; of the         *)
(* Limitor, too, which counts by itself.                                   *)
LimitorTake(h, asked) ==
  [Take(h, asked) EXCEPT !.top = @ - Min({asked, Len(h.data)}), !.data = Prefix(@, top)]

LEMMA LimitorTakeIs ==
  ASSUME kind = "limitor", NEW h, NEW asked, h = Result(h.g, top, h.err, h.data, 0)
  PROVE  LimitorTake(h, asked)
           = Consumed([h EXCEPT !.data = View(@, top)], Min({asked, Len(h.data)}))
<1> DEFINE n == Min({asked, Len(h.data)})
           x == h.g.cursor + n
           d == [h EXCEPT !.data = View(@, top)]
           a == Take(h, asked)
           b == [a EXCEPT !.top = @ - n]
           u == [h.g EXCEPT !.cursor = x]
           v == top - n
           y == View(h.data, top)
<1>1. a = SetCursor(h, x, n)
  BY DEF Take, SetCursor
<1>2. a = Result(u, top, h.err, h.data, n)
  <2> HIDE DEF a, x, n
  <2> QED BY <1>1, CursorResult
<1>3. y = Prefix(h.data, top)
  BY DEF View
<1>4. d = Result(h.g, top, h.err, y, 0)
  <2> HIDE DEF y
  <2>1. d = [h EXCEPT !.data = y]
    BY DEF y
  <2> QED BY <2>1 DEF Result
<1>5. Consumed(d, n) = SetBoth(d, x, v, n)
  <2>1. d.g = h.g /\ d.top = top
    BY <1>4 DEF Result
  <2> HIDE DEF d
  <2> QED BY <2>1 DEF Consumed, SetBoth
<1>6. Consumed(d, n) = Result(u, v, h.err, y, n)
  <2> HIDE DEF d, x, v, y, n
  <2> QED BY <1>4, <1>5, BothResult
<1>7. LimitorTake(h, asked) = [b EXCEPT !.data = y]
  <2>1. b.data = h.data
    <3> HIDE DEF a, n, u
    <3> QED BY <1>2 DEF Result
  <2>2. LimitorTake(h, asked) = [b EXCEPT !.data = Prefix(@, top)]
    BY DEF LimitorTake
  <2> HIDE DEF b, y
  <2> QED BY <1>3, <2>1, <2>2
<1>8. b = Result(u, v, h.err, h.data, n)
  <2> HIDE DEF a, n, u
  <2> QED BY <1>2 DEF Result
<1>9. [b EXCEPT !.data = y] = Result(u, v, h.err, y, n)
  <2> HIDE DEF b, u, v, y, n
  <2> QED BY <1>8 DEF Result
<1> QED BY <1>6, <1>7, <1>9

(* data_consume() *)
LEMMA DataConsumeSound ==
  ASSUME Setting, Fits(g, top), NEW amount \in Nat, NEW res \in DataConsume(amount)
  PROVE  /\ Sound(res, amount)
         /\ res.err \in {"none", "io"}
         /\ res.err = "io" => Rest(res.g) = <<>>
<1>1. ASSUME NEW d \in Data(amount), NEW n \in Nat, d.err = "none" => n <= Len(d.data),
             d.err # "none" => n = 0
      PROVE  /\ Sound(Consumed(d, n), amount)
             /\ Consumed(d, n).err \in {"none", "io"}
             /\ Consumed(d, n).err = "io" => Rest(Consumed(d, n).g) = <<>>
  <2>1. /\ Sound(d, amount) /\ Fresh(d) /\ d.err \in {"none", "io"}
        /\ d.err = "io" => Rest(d.g) = <<>>
    BY DataSound
  <2>2. CASE d.err = "none"
    BY <1>1, <2>1, <2>2, ConsumedSound
  <2>3. CASE d.err # "none"
    <3>1. Consumed(d, n) = d
      BY <1>1, <2>1, <2>3, ConsumeNothing
    <3> QED BY <2>1, <3>1
  <2> QED BY <2>2, <2>3
<1>2. ASSUME NEW d \in Data(amount), NEW m \in Nat
      PROVE  /\ Min({m, Len(d.data)}) \in Nat
             /\ d.err = "none" => Min({m, Len(d.data)}) <= Len(d.data)
             /\ d.err # "none" => Min({m, Len(d.data)}) = 0
  <2>1. Sound(d, amount)
    BY DataSound
  <2>2. Len(d.data) \in Nat /\ (d.err # "none" => Len(d.data) = 0)
    BY <2>1 DEF Sound, DataOk
  <2>3. Min({m, Len(d.data)}) = IF m <= Len(d.data) THEN m ELSE Len(d.data)
    BY <2>2, MinOfTwo
  <2> QED BY <2>2, <2>3
<1>3. CASE kind = "generic"
  <2>1. PICK d \in Data(amount) : res = Take(d, amount)
    BY <1>3 DEF DataConsume, Data
  <2>2. res = Consumed(d, Min({amount, Len(d.data)}))
    BY <1>3, <2>1 DEF Take, Consumed
  <2> QED BY <1>1, <1>2, <2>2
<1>4. CASE kind = "limitor"
  <2> DEFINE asked == Min({amount, top})
  <2>1. PICK h \in GenericData(asked) : res = LimitorTake(h, asked)
    BY <1>4 DEF DataConsume, LimitorTake
  <2>2. asked = Need(amount)
    BY <1>4 DEF Need
  <2>3. asked \in Nat /\ asked <= top /\ top \in Nat
    <3>1. top \in Nat /\ asked = IF amount <= top THEN amount ELSE top
      BY <1>4, <2>2, NeedNat DEF Fits
    <3> QED BY <3>1
  <2> DEFINE d == [h EXCEPT !.data = View(@, top)]
             n == Min({asked, Len(h.data)})
  <2> HIDE DEF asked
  <2>4. d \in Data(amount)
    BY <1>4 DEF Data, View, asked
  <2>5. /\ h = Result(h.g, top, h.err, h.data, 0)
        /\ Len(h.data) \in Nat /\ (h.err # "none" => Len(h.data) = 0)
        /\ d.data = View(h.data, top) /\ d.err = h.err
    <3>1. h \in GenericHelper(g, top, asked, FALSE)
      BY DEF GenericData
    <3>2. h = Result(h.g, top, h.err, h.data, 0)
      BY <2>2, <3>1, ViewSound
    <3>3. Good(g)
      BY DEF Fits
    <3>8. Len(h.data) \in Nat /\ (h.err # "none" => h.data = <<>>)
      <4>1. \A hard \in BOOLEAN : h \in GenericHelper(g, top, asked, hard) =>
              Len(h.data) \in Nat /\ (h.err # "none" => h.data = <<>>)
        BY <2>3, <3>3, HelperData
      <4> QED BY <3>1, <4>1
    <3>9. d.data = View(h.data, top) /\ d.err = h.err
      BY <3>2 DEF Result
    <3> QED BY <3>2, <3>8, <3>9
  <2>6. n = (IF asked <= Len(h.data) THEN asked ELSE Len(h.data)) /\ n \in Nat
    BY <2>3, <2>5, MinOfTwo
  <2>7. d.err = "none" => n <= Len(d.data)
    <3>1. d.data = SubSeq(h.data, 1, Min({top, Len(h.data)}))
      BY <1>4, <2>5 DEF View, Prefix
    <3>2. Min({top, Len(h.data)}) = IF top <= Len(h.data) THEN top ELSE Len(h.data)
      BY <2>3, <2>5, MinOfTwo
    <3> DEFINE m == Min({top, Len(h.data)})
    <3>3. m \in Nat /\ n <= m
      BY <2>3, <2>5, <2>6, <3>2
    <3> HIDE DEF m
    <3>4. Len(SubSeq(h.data, 1, m)) = m
      BY <3>3
    <3> QED BY <3>1, <3>3, <3>4 DEF m
  <2>8. res = Consumed(d, n)
    BY <1>4, <2>1, <2>5, LimitorTakeIs
  <2>9. d.err # "none" => n = 0
    BY <2>3, <2>5, <2>6
  <2> HIDE DEF d, n
  <2> QED BY <1>1, <2>4, <2>6, <2>7, <2>8, <2>9
<1>5. CASE kind \notin {"generic", "limitor"}
  <2>1. PICK d \in Data(amount) :
          res = IF d.err # "none" THEN d ELSE Consumed(d, Min({amount, Len(d.data)}))
    BY <1>5 DEF DataConsume
  <2>2. CASE d.err # "none"
    BY <2>1, <2>2, DataSound
  <2>3. CASE d.err = "none"
    BY <1>1, <1>2, <2>1, <2>3
  <2> QED BY <2>2, <2>3
<1> QED BY <1>3, <1>4, <1>5

(* data_consume_hard() *)
LEMMA DataConsumeHardSound ==
  ASSUME Setting, Fits(g, top), NEW amount \in Nat,
         NEW res \in DataConsumeHard(amount)
  PROVE  Sound(res, amount)
<1>1. CASE kind = "generic"
  <2>1. PICK d \in DataHard(amount) :
          res = IF d.err = "none" THEN Take(d, amount) ELSE d
    BY <1>1 DEF DataConsumeHard
  <2>2. /\ Sound(d, amount) /\ Fresh(d)
        /\ d.err = "none" => Len(d.data) >= amount
    BY DataHardSound
  <2>3. CASE d.err = "none"
    <3>1. Min({amount, Len(d.data)}) = amount
      BY <2>2, <2>3, MinOfTwo DEF Sound, DataOk
    <3>2. res = Consumed(d, amount)
      BY <1>1, <2>1, <2>3, <3>1 DEF Take, Consumed
    <3> QED BY <2>2, <2>3, <3>2, ConsumedSound
  <2> QED BY <2>1, <2>2, <2>3
<1>2. CASE kind = "limitor" /\ amount > top
  <2>1. res = Result(g, top, "eof", <<>>, 0)
    BY <1>2 DEF DataConsumeHard
  <2>2. /\ res.g = g /\ res.top = top /\ res.err = "eof" /\ res.data = <<>>
        /\ res.took = 0 /\ res = Result(res.g, res.top, res.err, res.data, res.took)
    BY <2>1 DEF Result
  <2>3. amount > Shown
    <3>1. top \in Nat /\ top = param - Base(g) /\ Here = Base(g) /\ param \in Nat
      BY <1>2 DEF Fits, Here, At, Setting
    <3>2. Base(g) \in Nat /\ Bound(g.pos) \in Int /\ g.pos \in Nat
      BY <3>1, FitsNumbers DEF Here
    <3>3. Bound(g.pos) <= param
      BY <1>2, <3>1, <3>2 DEF Bound
    <3> QED BY <1>2, <3>1, <3>2, <3>3 DEF Shown, Span
  <2>4. /\ Here \in Nat /\ g.pos \in Nat /\ g.fails \in Nat
        /\ Stash(g) \in Nat /\ Io("eof") = 0
    BY FitsNumbers DEF Here, Fits, Good, GenericState, Stash, Io
  <2>5. /\ g.pos <= g.pos /\ At(g, top) = Here + 0
        /\ g.fails - Stash(g) = g.fails - Stash(g) + Io("eof")
    BY <2>4 DEF Here
  <2> QED BY <2>2, <2>3, <2>5 DEF Sound
<1>3. ASSUME NEW h \in GenericHelper(g, top, Need(amount), TRUE), h.err # "none"
      PROVE  Sound(h, amount)
  <2> DEFINE d == [h EXCEPT !.data = View(@, top)]
  <2>1. Sound(d, amount) /\ h = Result(h.g, top, h.err, h.data, 0)
    BY ViewSound
  <2>2. d.err = h.err /\ d.data = View(h.data, top)
    BY <2>1 DEF Result
  <2>3. View(h.data, top) = <<>>
    <3> HIDE DEF d
    <3> QED BY <1>3, <2>1, <2>2 DEF Sound
  <2>4. h.data = <<>>
    BY <1>3, NeedNat, HelperIs DEF Fits
  <2>5. d = h
    <3>1. d = [h EXCEPT !.data = <<>>]
      BY <2>3
    <3> HIDE DEF d
    <3> QED BY <2>1, <2>4, <3>1 DEF Result
  <2> QED BY <2>1, <2>5
<1>4. ASSUME NEW h \in GenericHelper(g, top, Need(amount), TRUE), h.err = "none",
             kind = "limitor" => amount <= top
      PROVE  /\ Sound(Consumed([h EXCEPT !.data = View(@, top)], amount), amount)
             /\ Len(View(h.data, top)) >= amount
             /\ h = Result(h.g, top, h.err, h.data, 0)
  <2> DEFINE d == [h EXCEPT !.data = View(@, top)]
  <2>1. /\ Sound(d, amount) /\ h = Result(h.g, top, h.err, h.data, 0)
        /\ Len(View(h.data, top)) >= amount
    BY <1>4, ViewSound
  <2>2. d.err = "none" /\ d.data = View(h.data, top) /\ Fresh(d)
    BY <1>4, <2>1 DEF Result, Fresh
  <2> HIDE DEF d
  <2>3. amount <= Len(d.data)
    BY <2>1, <2>2 DEF Sound, DataOk
  <2>4. Sound(Consumed(d, amount), amount)
    BY <2>1, <2>2, <2>3, ConsumedSound
  <2> QED BY <2>1, <2>4 DEF d
<1>5. CASE kind = "limitor" /\ ~(amount > top)
  <2>1. amount <= top /\ top \in Nat
    BY <1>5 DEF Fits
  <2>2. Need(amount) = amount
    BY <1>5, <2>1, NeedNat
  <2>3. PICK h \in GenericHelper(g, top, Need(amount), TRUE) :
          res = IF h.err # "none" THEN h ELSE LimitorTake(h, amount)
    BY <1>5, <2>2 DEF DataConsumeHard, LimitorTake
  <2>4. CASE h.err # "none"
    BY <1>3, <2>3, <2>4
  <2>5. CASE h.err = "none"
    <3>1. /\ Sound(Consumed([h EXCEPT !.data = View(@, top)], amount), amount)
          /\ Len(View(h.data, top)) >= amount
          /\ h = Result(h.g, top, h.err, h.data, 0)
      BY <1>4, <2>1, <2>5
    <3>2. Min({amount, Len(h.data)}) = amount
      <4>3. Len(h.data) \in Nat
        <5>1. \A hard \in BOOLEAN : h \in GenericHelper(g, top, amount, hard) =>
                Len(h.data) \in Nat
          BY HelperData DEF Fits
        <5> QED BY <2>2, <5>1
      <4> DEFINE m == IF top <= Len(h.data) THEN top ELSE Len(h.data)
      <4>4. View(h.data, top) = SubSeq(h.data, 1, m) /\ m \in Nat /\ m <= Len(h.data)
        BY <1>5, <2>1, <4>3, MinOfTwo DEF View, Prefix
      <4> HIDE DEF m
      <4>5. Len(View(h.data, top)) = m
        BY <4>4
      <4>6. amount <= Len(h.data)
        BY <2>1, <3>1, <4>3, <4>4, <4>5
      <4> QED BY <4>3, <4>6, MinOfTwo
    <3>3. res = Consumed([h EXCEPT !.data = View(@, top)], amount)
      BY <1>5, <2>3, <2>5, <3>1, <3>2, LimitorTakeIs
    <3> QED BY <3>1, <3>3
  <2> QED BY <2>4, <2>5
<1>6. CASE kind = "dup"
  <2>1. Need(amount) = top + amount
    BY <1>6 DEF Need
  <2>2. PICK h \in GenericHelper(g, top, Need(amount), TRUE) :
          res = IF h.err # "none" THEN h
                ELSE Consumed([h EXCEPT !.data = View(@, top)], amount)
    <3>1. \A data : View(data, top) = Drop(data, top)
      BY <1>6 DEF View
    <3>2. PICK h \in GenericHelper(g, top, Need(amount), TRUE) :
            res = IF h.err # "none" THEN h
                  ELSE Consumed([h EXCEPT !.data = Drop(@, top)], amount)
      BY <1>6, <2>1 DEF DataConsumeHard
    <3>3. View(h.data, top) = Drop(h.data, top)
      BY <3>1
    <3> QED BY <3>2, <3>3
  <2> QED BY <1>3, <1>4, <1>6, <2>2
<1>7. CASE kind = "reserve"
  <2>1. PICK d \in DataHard(amount) :
          res = IF d.err # "none" THEN d ELSE Consumed(d, amount)
    BY <1>7 DEF DataConsumeHard
  <2>2. /\ Sound(d, amount) /\ Fresh(d)
        /\ d.err = "none" => Len(d.data) >= amount
    BY DataHardSound
  <2>3. CASE d.err = "none"
    <3>1. amount <= Len(d.data)
      BY <2>2, <2>3 DEF Sound, DataOk
    <3> QED BY <2>1, <2>2, <2>3, <3>1, ConsumedSound
  <2> QED BY <2>1, <2>2, <2>3
<1> QED BY <1>1, <1>2, <1>5, <1>6, <1>7 DEF Setting

(* buffer(), as a result. *)
LEMMA BufferSound ==
  ASSUME Setting, Fits(g, top), NEW ask \in Nat, ask <= Shown, NEW res,
         res = Result(g, top, "none", Buffer(g, top), 0)
  PROVE  Sound(res, ask) /\ Fresh(res) /\ res.err = "none" /\ Len(res.data) = Shown
<1>1. /\ res.g = g /\ res.top = top /\ res.err = "none" /\ res.data = Buffer(g, top)
      /\ res.took = 0 /\ res = Result(res.g, res.top, res.err, res.data, res.took)
  BY DEF Result
<1>2. /\ Here \in Nat /\ g.pos \in Nat /\ g.fails \in Nat /\ Stash(g) \in Nat
      /\ Io("none") = 0 /\ Bound(g.pos) \in Int
  BY FitsNumbers DEF Here, Fits, Good, GenericState, Stash, Io
<1>3. /\ Buffer(g, top) = Source(Here + 1, Bound(g.pos)) /\ Len(Buffer(g, top)) = Shown
  BY BufferIs DEF Here, Shown
<1> DEFINE i == Here + 1
           j == Bound(g.pos)
<1>4. i \in Nat /\ i > 0 /\ j \in Int /\ Shown = Span(i, j) /\ i - 1 = Here
  BY <1>2 DEF Shown
<1>5. Buffer(g, top) = Source(i, Here + Shown)
  <2> HIDE DEF i, j
  <2>1. Source(i, j) = Source(i, i - 1 + Span(i, j))
    BY <1>4, SourceByLength
  <2> QED BY <1>3, <1>4, <2>1 DEF i, j
<1>6. Shown \in Nat /\ (Shown = 0 \/ Here + Shown <= Bound(g.pos))
  BY <1>2 DEF Shown, Span
<1>7. DataOk(res, ask)
  BY <1>1, <1>3, <1>5, <1>6 DEF DataOk
<1>8. /\ g.pos <= g.pos /\ At(g, top) = Here + 0
      /\ g.fails - Stash(g) = g.fails - Stash(g) + Io("none")
  BY <1>2 DEF Here
<1>9. Sound(res, ask)
  BY <1>1, <1>7, <1>8 DEF Sound
<1> QED BY <1>1, <1>3, <1>9 DEF Fresh

(* Whoever asks for less is answered as well. *)
LEMMA Weaken ==
  ASSUME NEW res, NEW ask, Sound(res, ask), res.err = "none"
  PROVE  Sound(res, 0)
<1>1. DataOk(res, 0)
  BY DEF Sound, DataOk
<1> QED BY <1>1 DEF Sound

(* A part of what was returned. *)
LEMMA PartSound ==
  ASSUME Setting, Fits(g, top), NEW res, NEW ask, Sound(res, ask), Fresh(res),
         res.err = "none", NEW n \in Nat, n <= Len(res.data), NEW part,
         part = Result(res.g, top, "none", Prefix(res.data, n), 0)
  PROVE  Sound(part, 0) /\ part.err = "none"
<1> DEFINE d == Prefix(res.data, n)
           i == Here + 1
           l == Len(res.data)
           j == Here + l
<1>1. DataOk(res, ask)
  BY DEF Sound
<1>2. part = Result(res.g, top, "none", d, 0)
  OBVIOUS
<1>3. /\ part.g = res.g /\ part.top = top /\ part.err = "none" /\ part.data = d
      /\ part.took = 0 /\ part = Result(part.g, part.top, part.err, part.data, part.took)
  <2> HIDE DEF d
  <2> QED BY <1>2, ResultFields
<1>4. Here \in Nat /\ l \in Nat /\ n <= l /\ res.data = Source(i, j)
  BY <1>1, FitsNumbers DEF Here, DataOk
<1>5. i \in Nat /\ i > 0 /\ j \in Int /\ i + n - 1 = Here + n /\ Here + n <= j
  BY <1>4
<1>6. d = Source(i, Here + n)
  <2> HIDE DEF i, j, l
  <2>1. d = Source(i, Cut(i, n, j))
    <3>1. n \in Int
      OBVIOUS
    <3>2. Prefix(Source(i, j), n) = Source(i, Cut(i, n, j))
      BY <1>5, <3>1, PrefixSource
    <3> QED BY <1>4, <3>2
  <2>2. Cut(i, n, j) = Here + n
    BY <1>5 DEF Cut
  <2> QED BY <2>1, <2>2
<1>7. Len(d) = n
  <2> DEFINE k == Here + n
  <2>1. k \in Int /\ Span(i, k) = n
    BY <1>4 DEF Span
  <2> HIDE DEF i, k
  <2> QED BY <1>5, <1>6, <2>1, SourceSeq DEF k
<1>8. res.took = 0 /\ (l = 0 \/ Here + l <= Bound(res.g.pos))
  BY <1>1 DEF DataOk, Fresh
<1>9. n = 0 \/ Here + n <= Bound(res.g.pos)
  <2>1. Bound(res.g.pos) \in Int
    BY FitsNumbers DEF Sound
  <2> QED BY <1>4, <1>8, <2>1
<1> HIDE DEF d, l, j
<1>10. DataOk(part, 0)
  BY <1>3, <1>4, <1>6, <1>7, <1>9 DEF DataOk
<1>11. Sound(part, 0)
  BY <1>3, <1>8, <1>10 DEF Sound, Fresh
<1> QED BY <1>3, <1>11

(* The first terminal, if there is one. *)
LEMMA TerminalIs ==
  ASSUME NEW data, Len(data) \in Nat, HasTerminal(data)
  PROVE  FirstTerminal(data) \in 1 .. Len(data)
<1> DEFINE P(i) == data[i] \in Terminals
           S == {i \in 1 .. Len(data) : P(i)}
<1>1. \E i \in S : \A j \in S : i <= j
  <2> DEFINE R == OpToRel(<, Nat)
  <2>1. S # {} /\ S \subseteq Nat
    BY DEF HasTerminal
  <2>2. \A m, n \in Nat : <<m, n>> \in R <=> m < n
    BY DEF OpToRel
  <2>3. IsWellFoundedOn(R, Nat)
    BY NatLessThanWellFounded
  <2> HIDE DEF R, S
  <2>4. PICK i \in S : \A j \in S : ~(<<j, i>> \in R)
    BY <2>1, <2>3, WFMin
  <2>5. ASSUME NEW j \in S PROVE i <= j
    <3>1. i \in Nat /\ j \in Nat
      BY <2>1
    <3>2. ~(j < i)
      BY <2>2, <2>4, <3>1
    <3> QED BY <3>1, <3>2
  <2> QED BY <2>5
<1>2. \E i \in 1 .. Len(data) : P(i) /\ \A j \in 1 .. i - 1 : ~P(j)
  BY <1>1
<1> QED BY <1>2 DEF FirstTerminal

-----------------------------------------------------------------------------
(* The invariant. *)

(* The caller has consumed the bytes of the source up to where the reader  *)
(* is, and every failure of the source is accounted for.                   *)
IInv ==
  /\ kind \in Kinds /\ param \in Params
  /\ Fits(g, top) /\ out = Source(1, Here)
  /\ op \in [name : Loops \cup {"idle"}, size : Nat]
  /\ reported \in Nat /\ mistaken \in Nat
  /\ ErrorsOnce /\ ErrorsLast /\ DropEofDropsAll

(* The part of a sound result that says where the reader goes, and the     *)
(* part of a call that every operation has in common.                      *)
Moves(res, ask) ==
  /\ Fits(res.g, res.top) /\ g.pos <= res.g.pos
  /\ res.took \in Nat /\ At(res.g, res.top) = Here + res.took
  /\ res.err # "none" =>
       /\ res.data = <<>> /\ res.took = 0
       /\ ask > Shown \/ Shown = 0 \/ g.error
  /\ res.err = "none" => DataOk(res, ask)

Does(res) ==
  /\ g' = res.g /\ top' = res.top /\ kind' = kind /\ param' = param
  /\ out' = out \o Prefix(res.data, res.took)
  /\ last'.err = res.err /\ last'.data = res.data

LEMMA MoveData ==
  ASSUME Setting, Fits(g, top), NEW res, NEW ask, Moves(res, ask)
  PROVE  /\ Len(res.data) \in Nat /\ res.took <= Len(res.data)
         /\ Here \in Nat /\ res.took \in Nat
         /\ res.data = Source(Here + 1, Here + Len(res.data))
         /\ Prefix(res.data, res.took) = Source(Here + 1, Here + res.took)
<1> DEFINE i == Here + 1
           l == Len(res.data)
           j == Here + l
           n == res.took
<1>1. Here \in Nat /\ n \in Nat
  BY FitsNumbers DEF Here, Moves
<1>2. l \in Nat /\ n <= l
  BY DEF Moves, DataOk
<1>3. i \in Nat /\ i > 0 /\ j \in Int /\ n \in Int /\ i + n - 1 = Here + n /\ Here + n <= j
  BY <1>1, <1>2
<1>4. res.data = Source(i, j)
  <2>1. CASE res.err = "none"
    BY <2>1 DEF Moves, DataOk
  <2>2. CASE res.err # "none"
    <3>1. res.data = <<>> /\ j < i
      BY <1>1, <2>2 DEF Moves
    <3> HIDE DEF i, j
    <3> QED BY <1>3, <3>1, SourceEmpty
  <2> QED BY <2>1, <2>2
<1>5. Prefix(res.data, n) = Source(i, Here + n)
  <2> HIDE DEF i, j, n
  <2>1. Prefix(Source(i, j), n) = Source(i, Cut(i, n, j))
    BY <1>3, PrefixSource
  <2>2. Cut(i, n, j) = Here + n
    BY <1>3 DEF Cut
  <2> QED BY <1>4, <2>1, <2>2
<1> QED BY <1>1, <1>2, <1>4, <1>5

LEMMA MoveKeeps ==
  ASSUME Setting, Fits(g, top), out = Source(1, Here), NEW res, NEW ask,
         Moves(res, ask), Does(res)
  PROVE  /\ Fits(g, top)' /\ (out = Source(1, Here))'
         /\ out' = Source(1, Here + res.took)
<1>1. Fits(g, top)'
  <2>1. Fits(res.g, res.top)
    BY DEF Moves
  <2> QED BY <2>1 DEF Does, Fits
<1>2. Here' = Here + res.took
  <2>1. At(res.g, res.top) = Here + res.took
    BY DEF Moves
  <2>2. Here' = At(res.g, res.top)
    BY DEF Does, Here, At
  <2> QED BY <2>1, <2>2
<1>3. out' = Source(1, Here + res.took)
  <2> DEFINE i == 1
             j == Here
             k == Here + res.took
  <2>1. /\ out' = Source(i, j) \o Source(j + 1, k)
        /\ j \in Int /\ k \in Int /\ i \in Nat /\ i > 0 /\ i - 1 <= j /\ j <= k
    <3>1. Here \in Nat /\ res.took \in Nat
      BY MoveData
    <3>2. Prefix(res.data, res.took) = Source(j + 1, k)
      BY MoveData
    <3>3. out' = Source(i, j) \o Source(j + 1, k)
      BY <3>2 DEF Does
    <3> QED BY <3>1, <3>3
  <2> HIDE DEF i, j, k
  <2>2. Source(i, j) \o Source(j + 1, k) = Source(i, k)
    BY <2>1, SourceConcat
  <2> QED BY <2>1, <2>2 DEF i, k
<1> QED BY <1>1, <1>2, <1>3

-----------------------------------------------------------------------------
(* The contract. *)

LEMMA AheadIs ==
  ASSUME Setting, Fits(g, top), out = Source(1, Here)
  PROVE  /\ Own = Source(1, Bound(Length))
         /\ Len(out) = Here
         /\ Abstract!Ahead = Source(Here + 1, Bound(Length))
         /\ Len(Abstract!Ahead) = Span(Here + 1, Bound(Length))
<1>1. /\ Here \in Nat /\ Length \in Nat /\ Bound(Length) \in Int /\ param \in Nat
  BY FitsNumbers DEF Here, Setting
<1>2. Own = Source(1, Bound(Length))
  <2>1. Min({param, Length}) = IF param <= Length THEN param ELSE Length
    BY <1>1, MinOfTwo
  <2>2. kind = "limitor" => Bound(Length) = Min({param, Length})
    BY <1>1, <2>1 DEF Bound
  <2> QED BY <2>2 DEF Own, Bound, Setting
<1>3. Len(out) = Here
  <2>1. Len(Source(1, Here)) = Span(1, Here)
    BY <1>1, SourceSeq
  <2> QED BY <1>1, <2>1 DEF Span
<1> DEFINE i == Here + 1
           e == Bound(Length)
<1>4. i \in Nat /\ i > 0 /\ e \in Int /\ 1 + Here = i
  BY <1>1
<1>5. Drop(Source(1, e), Here) = Source(1 + Here, e)
  <2> DEFINE a == 1
  <2>1. a \in Nat /\ a > 0
    OBVIOUS
  <2> HIDE DEF a, e
  <2>2. Drop(Source(a, e), Here) = Source(a + Here, e)
    BY <1>1, <1>4, <2>1, DropSource
  <2> QED BY <2>2 DEF a
<1>6. Abstract!Ahead = Drop(Own, Here)
  BY <1>3 DEF Abstract!Ahead, Drop
<1>7. Abstract!Ahead = Source(i, e)
  BY <1>2, <1>4, <1>5, <1>6
<1>8. Len(Source(i, e)) = Span(i, e)
  <2> HIDE DEF i, e
  <2> QED BY <1>4, SourceSeq
<1> QED BY <1>2, <1>3, <1>7, <1>8

(* What is shown before and after a call. *)
LEMMA ShownMoves ==
  ASSUME Setting, Fits(g, top), NEW res, NEW ask, Moves(res, ask), Does(res)
  PROVE  /\ Len(Buffer(g, top)) = Shown /\ Shown \in Nat
         /\ Len(Buffer(g, top))' = Span(Here + res.took + 1, Bound(res.g.pos))
         /\ Len(Buffer(g, top))' \in Nat
         /\ Len(Buffer(g, top))' + res.took >= Shown
         /\ Len(Buffer(g, top))' + res.took <= Span(Here + 1, Bound(Length))
<1> DEFINE n == res.took
           p == res.g.pos
           b == Bound(p)
           e == Bound(Length)
           l == Len(res.data)
<1>1. Len(Buffer(g, top)) = Shown
  BY BufferIs DEF Here, Shown
<1>2. Buffer(g, top)' = Buffer(res.g, res.top)
  BY DEF Does, Buffer
<1>3. Fits(res.g, res.top) /\ At(res.g, res.top) = Here + n
  BY DEF Moves
<1>4. Len(Buffer(res.g, res.top)) = Span(Here + n + 1, b)
  BY <1>3, BufferIs
<1>5. /\ b \in Int /\ e \in Int /\ b <= e /\ p \in Nat
      /\ Here + n = 0 \/ Here + n <= b
  BY <1>3, FitsNumbers
<1>6. Here \in Nat /\ n \in Nat /\ l \in Nat /\ n <= l
  BY MoveData
<1>7. Bound(g.pos) \in Int /\ Bound(g.pos) <= b
  <2>1. g.pos \in Nat /\ g.pos <= p /\ param \in Nat
    BY FitsNumbers DEF Moves, Setting
  <2> QED BY <1>5, <2>1 DEF Bound
<1>8. Len(Buffer(g, top))' = Span(Here + n + 1, b)
  BY <1>2, <1>4
<1> HIDE DEF n, b, e, l
<1>9. Shown \in Nat /\ Span(Here + n + 1, b) \in Nat
      /\ Span(Here + n + 1, b) + n >= Shown
      /\ Span(Here + n + 1, b) + n <= Span(Here + 1, e)
  BY <1>5, <1>6, <1>7 DEF Shown, Span
<1> QED BY <1>1, <1>8, <1>9 DEF n, b, e

(* The bytes ahead up to some place. *)
LEMMA AheadPart ==
  ASSUME Setting, Fits(g, top), out = Source(1, Here), NEW n \in Nat,
         n <= Span(Here + 1, Bound(Length))
  PROVE  SubSeq(Abstract!Ahead, 1, n) = Source(Here + 1, Here + n)
<1> DEFINE i == Here + 1
           e == Bound(Length)
           a == 1
<1>1. Here \in Nat /\ e \in Int
  BY FitsNumbers DEF Here
<1>2. /\ i \in Nat /\ i > 0 /\ i + a - 1 = i /\ i + n - 1 = Here + n
      /\ a \in Nat /\ a > 0 /\ n \in Int
  BY <1>1
<1>3. Abstract!Ahead = Source(i, e)
  BY AheadIs
<1>4. Slice(Source(i, e), a, n) = Source(i + a - 1, i + n - 1)
  <2> HIDE DEF i, e, a
  <2> QED BY <1>1, <1>2, SourceSlice DEF i, e
<1>5. Slice(Source(i, e), a, n) = Source(i, Here + n)
  <2> HIDE DEF a
  <2> QED BY <1>2, <1>4
<1> QED BY <1>3, <1>5 DEF Slice

(* Once Generic holds nothing more, the reader on top shows nothing. *)
LEMMA NothingShown ==
  ASSUME Setting, NEW r, NEW t, Fits(r, t), Rest(r) = <<>>
  PROVE  Len(Buffer(r, t)) = 0
<1>1. /\ Good(r) /\ t \in Nat /\ (kind = "dup" => Base(r) = 0 /\ t <= r.pos)
  BY DEF Fits
<1>2. Base(r) \in Nat /\ Base(r) = r.pos
  <2>1. /\ Base(r) \in Nat /\ Len(Rest(r)) = r.pos - Base(r)
        /\ r.pos \in Nat
    BY <1>1, RestIs DEF Good, GenericState
  <2> QED BY <2>1
<1>3. At(r, t) = r.pos
  BY <1>1, <1>2 DEF At
<1>4. Bound(r.pos) \in Int /\ Bound(r.pos) <= r.pos /\ r.pos \in Nat
  BY FitsNumbers
<1>5. Len(Buffer(r, t)) = Span(At(r, t) + 1, Bound(r.pos))
  BY BufferIs
<1> QED BY <1>3, <1>4, <1>5 DEF Span

(* A sound result that is returned is a step of the contract. *)
LEMMA MoveAbstract ==
  ASSUME Setting, Fits(g, top), out = Source(1, Here), NEW res, NEW ask,
         Moves(res, ask), Does(res), Asked' = ask,
         res.err # "none" => Hard' \/ Rest(res.g) = <<>>
  PROVE  Abstract!Next
<1> DEFINE l == Len(res.data)
           n == res.took
           w == Span(Here + 1, Bound(Length))
<1>1. /\ l \in Nat /\ n \in Nat /\ n <= l /\ Here \in Nat
      /\ res.data = Source(Here + 1, Here + l)
      /\ Prefix(res.data, n) = Source(Here + 1, Here + n)
  BY MoveData
<1>2. /\ Len(Buffer(g, top)) = Shown /\ Shown \in Nat
      /\ Len(Buffer(g, top))' \in Nat
      /\ Len(Buffer(g, top))' + n >= Shown
      /\ Len(Buffer(g, top))' + n <= w
  BY ShownMoves
<1>3. Len(Abstract!Ahead) = w /\ Abstract!Ahead = Source(Here + 1, Bound(Length))
  BY AheadIs
<1>4. Own' = Own
  BY DEF Own, Does
<1>5. n <= w /\ w \in Nat /\ Bound(Length) \in Int
  <2>1. Bound(Length) \in Int
    BY FitsNumbers
  <2> QED BY <1>1, <1>2, <2>1 DEF Span
<1>6. CASE res.err = "none"
  <2>1. DataOk(res, ask)
    BY <1>6 DEF Moves
  <2>2. l <= w
    <3>1. l = 0 \/ Here + l <= Bound(res.g.pos)
      BY <2>1 DEF DataOk
    <3>2. Bound(res.g.pos) \in Int /\ Bound(res.g.pos) <= Bound(Length)
      BY FitsNumbers DEF Moves
    <3> QED BY <1>1, <1>5, <3>1, <3>2 DEF Span
  <2>3. SubSeq(res.data, 1, l) = res.data
    <3> DEFINE i == Here + 1
               j == Here + l
    <3>1. i \in Nat /\ i > 0 /\ j \in Int
      BY <1>1
    <3> HIDE DEF i, j
    <3>2. Source(i, j) \in Seq(Int)
      BY <3>1, SourceSeq
    <3>3. res.data \in Seq(Int)
      BY <1>1, <3>2 DEF i, j
    <3> QED BY <3>3
  <2>4. Abstract!IsPrefix(res.data, Abstract!Ahead)
    <3>1. SubSeq(Abstract!Ahead, 1, l) = Source(Here + 1, Here + l)
      BY <1>1, <2>2, AheadPart
    <3> QED BY <1>1, <1>3, <2>2, <2>3, <3>1 DEF Abstract!IsPrefix
  <2>5. l >= ask \/ res.data = Abstract!Ahead \/ res.g.error
    <3>1. CASE Here + l >= Bound(Length)
      <4> DEFINE i == Here + 1
                 e == Bound(Length)
      <4>1. l = Span(i, e) /\ i \in Nat /\ i > 0 /\ e \in Int /\ i - 1 + l = Here + l
        BY <1>1, <1>5, <2>2, <3>1 DEF Span
      <4> HIDE DEF i, e
      <4>2. Source(i, e) = Source(i, i - 1 + Span(i, e))
        BY <4>1, SourceByLength
      <4>3. Source(i, e) = Source(i, Here + l)
        BY <4>1, <4>2
      <4> QED BY <1>1, <1>3, <4>3 DEF i, e
    <3>2. CASE l >= ask \/ res.g.error
      BY <3>2
    <3> QED BY <2>1, <3>1, <3>2 DEF DataOk
  <2>6. out' = out \o SubSeq(Abstract!Ahead, 1, n)
    BY <1>1, <1>5, AheadPart DEF Does
  <2>7. last'.err = "none" /\ last'.data = res.data /\ g' = res.g
    BY <1>6 DEF Does
  <2>8. Abstract!Answer(n)
    BY <1>1, <1>2, <1>3, <1>4, <2>4, <2>5, <2>6, <2>7 DEF Abstract!Answer
  <2>9. n \in 0 .. Len(Abstract!Ahead)
    BY <1>1, <1>3, <1>5
  <2> QED BY <2>8, <2>9 DEF Abstract!Next
<1>7. CASE res.err # "none"
  <2>1. n = 0 /\ (ask > Shown \/ Shown = 0 \/ g.error)
    BY <1>7 DEF Moves
  <2>2. out' = out
    <3>1. Fits(g, top)' /\ out' = Source(1, Here + n)
      BY MoveKeeps
    <3> QED BY <1>1, <2>1, <3>1
  <2>3. last'.err # "none"
    BY <1>7 DEF Does
  <2>4. ask > Len(Buffer(g, top)) \/ Len(Buffer(g, top)) = 0 \/ g.error
    BY <1>2, <2>1
  <2>5. /\ Len(Buffer(g, top))' >= Len(Buffer(g, top))
        /\ Len(Buffer(g, top))' <= Len(Abstract!Ahead)
    BY <1>2, <1>3, <2>1
  <2>6. Hard' \/ Len(Buffer(g, top))' = 0
    <3>1. CASE Rest(res.g) = <<>>
      <4>1. Len(Buffer(res.g, res.top)) = 0
        BY <3>1, NothingShown DEF Moves
      <4>2. Len(Buffer(g, top))' = Len(Buffer(res.g, res.top))
        BY DEF Does, Buffer
      <4> QED BY <4>1, <4>2
    <3> QED BY <1>7, <3>1
  <2>7. Abstract!Fail
    <3> DEFINE reply == [amount |-> Asked, hard |-> Hard,
                         err |-> last.err # "none", data |-> last.data]
    <3>1. /\ reply'.err = (last'.err # "none") /\ reply'.amount = Asked'
          /\ reply'.hard = Hard'
      OBVIOUS
    <3>2. reply'.err /\ reply'.amount = ask
      BY <2>3, <3>1
    <3>3. Abstract!Fail <=>
            /\ reply'.err
            /\ reply'.amount > Len(Buffer(g, top)) \/ Len(Buffer(g, top)) = 0 \/ g.error
            /\ reply'.hard \/ Len(Buffer(g, top))' = 0 \/ FALSE
            /\ Len(Buffer(g, top))' >= Len(Buffer(g, top))
            /\ Len(Buffer(g, top))' <= Len(Abstract!Ahead)
            /\ UNCHANGED <<Own, out>>
      BY DEF Abstract!Fail
    <3> HIDE DEF reply
    <3> QED BY <1>4, <2>2, <2>4, <2>5, <2>6, <3>1, <3>2, <3>3
  <2> QED BY <2>7 DEF Abstract!Next
<1> QED BY <1>6, <1>7

-----------------------------------------------------------------------------
(* The steps. *)

Ops == [name : Loops \cup {"idle"}, size : Nat]

LEMMA SettingHolds ==
  ASSUME IInv
  PROVE  Setting
BY KindAssumption, SizeAssumption DEF IInv, Setting

(* An operation that returns a sound result keeps the invariant and is a   *)
(* step of the contract.                                                   *)
LEMMA ApplyStep ==
  ASSUME IInv, NEW res, NEW ask, Sound(res, ask), NEW name, NEW amount \in Nat,
         Apply(res, name, amount), op' \in Ops,
         ask = IF res.err = "none" /\ name \in {"eof", "not_eof", "read_to", "drop_until"}
               THEN 0 ELSE amount,
         res.err # "none" /\ name \notin {"data_hard", "data_consume_hard"} =>
           Rest(res.g) = <<>>,
         res.err = "none" /\ name = "drop_eof" =>
           res.took = Len(res.data) /\ Len(res.data) < amount
  PROVE  IInv' /\ Abstract!Next
<1>1. /\ Setting /\ Fits(g, top) /\ out = Source(1, Here)
      /\ reported \in Nat /\ mistaken \in Nat
  BY SettingHolds DEF IInv
<1>2. /\ last' = [name |-> name, amount |-> amount, err |-> res.err, data |-> res.data]
      /\ g' = res.g /\ top' = res.top /\ kind' = kind /\ param' = param
      /\ mistaken' = mistaken
      /\ reported' = IF res.err = "io" THEN reported + 1 ELSE reported
  BY DEF Apply
<1>3. Moves(res, ask)
  BY DEF Sound, Moves
<1>4. last'.name = name /\ last'.amount = amount /\ last'.err = res.err /\ last'.data = res.data
  BY <1>2
<1>5. Does(res)
  BY <1>2, <1>4 DEF Apply, Does
<1>6. /\ Fits(g, top)' /\ (out = Source(1, Here))'
      /\ out' = Source(1, Here + res.took)
  BY <1>1, <1>3, <1>5, MoveKeeps
<1>7. Asked' = ask
  BY <1>4 DEF Asked
<1>8. Abstract!Next
  <2>1. res.err # "none" => Hard' \/ Rest(res.g) = <<>>
    BY <1>4 DEF Hard
  <2> QED BY <1>1, <1>3, <1>5, <1>7, <2>1, MoveAbstract
<1>9. ErrorsOnce'
  <2>1. g.fails \in Nat /\ res.g.fails \in Nat /\ Fits(res.g, res.top)
    BY <1>1 DEF Sound, Fits, Good, GenericState
  <2>2. g.fails = reported + mistaken + Stash(g)
    BY DEF IInv, ErrorsOnce, Stash
  <2>3. res.g.fails - Stash(res.g) = g.fails - Stash(g) + Io(res.err)
    BY DEF Sound
  <2>4. Stash(g) \in Nat /\ Stash(res.g) \in Nat /\ Io(res.err) \in Nat
    BY DEF Stash, Io
  <2>5. reported' = reported + Io(res.err)
    BY <1>1, <1>2 DEF Io
  <2>6. res.g.fails = reported' + mistaken' + Stash(res.g)
    <3> DEFINE f == g.fails
               u == res.g.fails
               a == Stash(g)
               b == Stash(res.g)
               c == Io(res.err)
    <3>1. /\ f \in Nat /\ u \in Nat /\ a \in Nat /\ b \in Nat /\ c \in Nat
          /\ f = reported + mistaken + a /\ u - b = f - a + c
          /\ reported' = reported + c /\ mistaken' = mistaken
          /\ reported \in Nat /\ mistaken \in Nat
      BY <1>1, <1>2, <2>1, <2>2, <2>3, <2>4, <2>5
    <3> HIDE DEF f, u, a, b, c
    <3>2. u = reported' + mistaken' + b
      BY <3>1
    <3> QED BY <3>2 DEF u, b
  <2> QED BY <1>2, <2>6 DEF ErrorsOnce, Stash
<1>10. ErrorsLast'
  BY <1>2, <1>4 DEF ErrorsLast, Rest, Drop
<1>11. DropEofDropsAll'
  <2>1. SUFFICES ASSUME name = "drop_eof", res.err = "none", res.g.fails = 0
                 PROVE  Len(out') = IF kind = "limitor" THEN Min({param, Length})
                                    ELSE IF kind = "reserve" THEN Max({0, Length - param})
                                    ELSE Length
    BY <1>2, <1>4 DEF DropEofDropsAll
  <2> DEFINE l == Len(res.data)
             k == Here + l
             e == Bound(Length)
  <2>2. ~res.g.error
    <3>1. res.g.fails = reported' + mistaken' + Stash(res.g)
      BY <1>2, <1>9 DEF ErrorsOnce, Stash
    <3>2. reported' \in Nat /\ mistaken' \in Nat
      BY <1>1, <1>2
    <3> QED BY <2>1, <3>1, <3>2 DEF Stash
  <2>3. DataOk(res, ask) /\ ask = amount /\ res.took = l /\ l < amount
    BY <2>1 DEF Sound
  <2>4. l \in Nat /\ Here \in Nat
    BY <1>1, <1>3, MoveData
  <2>5. k >= e /\ (l = 0 \/ k <= Bound(res.g.pos))
    BY <2>2, <2>3, <2>4 DEF DataOk
  <2>6. /\ Length \in Nat /\ e \in Int /\ Bound(res.g.pos) \in Int
        /\ Bound(res.g.pos) <= e /\ Bound(g.pos) \in Int /\ Bound(g.pos) <= e
        /\ Here = 0 \/ Here <= Bound(g.pos)
    BY <1>1, <1>3, FitsNumbers DEF Here, Moves
  <2>7. k = e \/ (k = 0 /\ e <= 0)
    BY <2>4, <2>5, <2>6
  <2>8. Len(out') = k
    <3>1. out' = Source(1, k)
      BY <1>6, <2>3
    <3>2. k \in Nat
      BY <2>4
    <3> HIDE DEF k
    <3> QED BY <3>1, <3>2, SourceFromOne
  <2>9. param \in Nat
    BY <1>1 DEF Setting
  <2>10. Min({param, Length}) = IF param <= Length THEN param ELSE Length
    BY <2>6, <2>9, MinOfTwo
  <2>11. Max({0, Length - param}) = IF 0 >= Length - param THEN 0 ELSE Length - param
    <3> DEFINE a == 0
               b == Length - param
    <3>1. a \in Int /\ b \in Int
      BY <2>6, <2>9
    <3> HIDE DEF a, b
    <3>2. Max({a, b}) = IF a >= b THEN a ELSE b
      BY <3>1, MaxOfTwo
    <3> QED BY <3>2 DEF a, b
  <2>12. e = IF kind = "limitor" THEN (IF Length <= param THEN Length ELSE param)
             ELSE IF kind = "reserve" THEN Length - param ELSE Length
    BY DEF Bound
  <2> HIDE DEF k, e, l
  <2> QED BY <2>6, <2>7, <2>8, <2>9, <2>10, <2>11, <2>12
<1>12. reported' \in Nat /\ mistaken' \in Nat
  BY <1>1, <1>2
<1>13. kind' \in Kinds /\ param' \in Params
  BY <1>2 DEF IInv
<1> QED BY <1>6, <1>8, <1>9, <1>10, <1>11, <1>12, <1>13 DEF IInv, Ops

LEMMA OpUnchanged ==
  ASSUME IInv, UNCHANGED op
  PROVE  op' \in Ops
BY DEF IInv, Ops

(* The operations that return at once. *)
LEMMA CallStep ==
  ASSUME IInv, NEW amount \in Nat,
         \/ CallData(amount) \/ CallDataHard(amount) \/ CallConsume(amount)
         \/ CallDataConsume(amount) \/ CallDataConsumeHard(amount)
  PROVE  IInv' /\ Abstract!Next
<1>1. Setting /\ Fits(g, top)
  BY SettingHolds DEF IInv
<1>2. CASE CallData(amount)
  <2>1. PICK res \in Data(amount) : Apply(res, "data", amount)
    BY <1>2 DEF CallData
  <2>2. Sound(res, amount) /\ (res.err # "none" => Rest(res.g) = <<>>)
    BY <1>1, DataSound
  <2>3. op' \in Ops
    BY <1>2, OpUnchanged DEF CallData
  <2> QED BY <2>1, <2>2, <2>3, ApplyStep
<1>3. CASE CallDataHard(amount)
  <2>1. PICK res \in DataHard(amount) : Apply(res, "data_hard", amount)
    BY <1>3 DEF CallDataHard
  <2>2. Sound(res, amount)
    BY <1>1, DataHardSound
  <2>3. op' \in Ops
    BY <1>3, OpUnchanged DEF CallDataHard
  <2> QED BY <2>1, <2>2, <2>3, ApplyStep
<1>4. CASE CallDataConsume(amount)
  <2>1. PICK res \in DataConsume(amount) : Apply(res, "data_consume", amount)
    BY <1>4 DEF CallDataConsume
  <2>2. Sound(res, amount) /\ (res.err # "none" => Rest(res.g) = <<>>)
    BY <1>1, DataConsumeSound
  <2>3. op' \in Ops
    BY <1>4, OpUnchanged DEF CallDataConsume
  <2> QED BY <2>1, <2>2, <2>3, ApplyStep
<1>5. CASE CallDataConsumeHard(amount)
  <2>1. PICK res \in DataConsumeHard(amount) : Apply(res, "data_consume_hard", amount)
    BY <1>5 DEF CallDataConsumeHard
  <2>2. Sound(res, amount)
    BY <1>1, DataConsumeHardSound
  <2>3. op' \in Ops
    BY <1>5, OpUnchanged DEF CallDataConsumeHard
  <2> QED BY <2>1, <2>2, <2>3, ApplyStep
<1>6. CASE CallConsume(amount)
  <2> DEFINE b == Result(g, top, "none", Buffer(g, top), 0)
             c == Consumed(b, amount)
  <2>1. amount <= Len(Buffer(g, top)) /\ Apply(c, "consume", amount)
    BY <1>6 DEF CallConsume
  <2>2. Len(Buffer(g, top)) = Shown
    BY <1>1, BufferIs DEF Shown, Here
  <2>3. op' \in Ops
    BY <1>6, OpUnchanged DEF CallConsume
  <2>4. b = Result(g, top, "none", Buffer(g, top), 0)
    OBVIOUS
  <2> HIDE DEF b
  <2>5. Sound(b, amount) /\ Fresh(b) /\ b.err = "none" /\ Len(b.data) = Shown
    BY <1>1, <2>1, <2>2, <2>4, BufferSound
  <2>6. Sound(c, amount) /\ c.err = "none"
    BY <1>1, <2>1, <2>2, <2>5, ConsumedSound
  <2> HIDE DEF c
  <2> QED BY <2>1, <2>3, <2>6, ApplyStep
<1> QED BY <1>2, <1>3, <1>4, <1>5, <1>6

(* eof() returns no data, but it may have read some. *)
LEMMA EofStep ==
  ASSUME IInv, CallEof
  PROVE  IInv' /\ Abstract!Next
<1>1. /\ Setting /\ Fits(g, top) /\ out = Source(1, Here)
      /\ reported \in Nat /\ mistaken \in Nat /\ kind \in Kinds /\ param \in Params
  BY SettingHolds DEF IInv
<1>2. PICK res \in DataHard(1) :
        /\ g' = res.g /\ top' = res.top
        /\ last' = [name |-> IF res.err = "none" THEN "not_eof" ELSE "eof",
                    amount |-> 1, err |-> "none", data |-> <<>>]
        /\ mistaken' = IF res.err = "io" THEN mistaken + 1 ELSE mistaken
  BY DEF CallEof
<1>3. Sound(res, 1) /\ Fresh(res)
  BY <1>1, DataHardSound
<1> DEFINE r == Result(res.g, top, "none", <<>>, 0)
<1>4. /\ r.g = res.g /\ r.top = top /\ r.err = "none" /\ r.data = <<>> /\ r.took = 0
  BY DEF Result
<1>5. /\ last'.name \in {"eof", "not_eof"} /\ last'.err = "none" /\ last'.data = <<>>
      /\ res.top = top /\ top' = top
  BY <1>2, <1>3 DEF Fresh
<1>6. kind' = kind /\ param' = param /\ op' = op /\ out' = out /\ reported' = reported
  BY DEF CallEof
<1>7. Here \in Nat
  BY <1>1, FitsNumbers DEF Here
<1>8. <<>> = Source(Here + 1, Here + 0)
  <2> DEFINE i == Here + 1
             j == Here + 0
  <2>1. i \in Nat /\ i > 0 /\ j \in Int /\ j < i
    BY <1>7
  <2> HIDE DEF i, j
  <2>2. Source(i, j) = <<>>
    BY <2>1, SourceEmpty
  <2> QED BY <2>2 DEF i, j
<1> HIDE DEF r
<1>9. DataOk(r, 0)
  <2>1. Len(r.data) = 0
    BY <1>4
  <2> QED BY <1>4, <1>8, <2>1 DEF DataOk
<1>10. Moves(r, 0)
  BY <1>3, <1>4, <1>9 DEF Moves, Sound, Fresh
<1>11. out' = out \o Prefix(r.data, r.took)
  <2>1. Prefix(r.data, r.took) = <<>>
    <3>1. Prefix(r.data, r.took) = Source(Here + 1, Here + r.took)
      BY <1>1, <1>10, MoveData
    <3> QED BY <1>4, <1>8, <3>1
  <2>2. out \in Seq(Int)
    <3> DEFINE i == 1
    <3>1. i \in Nat /\ i > 0 /\ Here \in Int
      BY <1>7
    <3> HIDE DEF i
    <3>2. Source(i, Here) \in Seq(Int)
      BY <3>1, SourceSeq
    <3> QED BY <1>1, <3>2 DEF i
  <2> QED BY <1>6, <2>1, <2>2
<1>12. Does(r)
  BY <1>2, <1>4, <1>5, <1>6, <1>11 DEF Does
<1>13. Asked' = 0
  BY <1>5 DEF Asked
<1>14. Abstract!Next
  BY <1>1, <1>4, <1>10, <1>12, <1>13, MoveAbstract
<1>15. Fits(g, top)' /\ (out = Source(1, Here))'
  BY <1>1, <1>10, <1>12, MoveKeeps
<1>16. ErrorsOnce'
  <2> DEFINE f == g.fails
             u == res.g.fails
             a == Stash(g)
             b == Stash(res.g)
             c == Io(res.err)
  <2>1. f \in Nat /\ u \in Nat
    BY <1>1, <1>3 DEF Sound, Fits, Good, GenericState
  <2>2. a \in Nat /\ b \in Nat /\ c \in Nat /\ mistaken' = mistaken + c
    BY <1>1, <1>2 DEF Stash, Io
  <2>3. f = reported + mistaken + a
    BY DEF IInv, ErrorsOnce, Stash
  <2>4. u - b = f - a + c
    BY <1>3 DEF Sound
  <2> HIDE DEF f, u, a, b, c
  <2>5. u = reported' + mistaken' + b
    BY <1>1, <1>6, <2>1, <2>2, <2>3, <2>4
  <2> QED BY <1>2, <2>5 DEF ErrorsOnce, Stash, u, b
<1>17. ErrorsLast' /\ DropEofDropsAll'
  BY <1>5 DEF ErrorsLast, DropEofDropsAll
<1>18. mistaken' \in Nat /\ op' \in [name : Loops \cup {"idle"}, size : Nat]
  BY <1>1, <1>2, <1>6 DEF IInv
<1> QED BY <1>1, <1>6, <1>14, <1>15, <1>16, <1>17, <1>18 DEF IInv

(* Dup::rewind() is the rewind of the contract, or does nothing. *)
LEMMA RewindStep ==
  ASSUME IInv, Rewind
  PROVE  IInv' /\ Abstract!Next
<1>1. /\ Setting /\ Fits(g, top) /\ out = Source(1, Here) /\ kind = "dup"
  BY SettingHolds DEF IInv, Rewind
<1>2. /\ top' = 0 /\ out' = <<>> /\ kind' = kind /\ param' = param /\ g' = g /\ op' = op
      /\ reported' = reported /\ mistaken' = mistaken
      /\ last' = [name |-> "rewind", amount |-> 0, err |-> "none", data |-> <<>>]
  BY DEF Rewind
<1>3. last'.name = "rewind" /\ last'.amount = 0 /\ last'.err = "none" /\ last'.data = <<>>
  BY <1>2
<1>4. /\ Base(g) = 0 /\ top \in Nat /\ top <= g.pos /\ g.pos \in Nat /\ Here = top
      /\ Len(out) = top
  <2>1. Base(g) = 0 /\ top \in Nat /\ top <= g.pos /\ g.pos \in Nat /\ Here = top
    BY <1>1 DEF Fits, Good, GenericState, Here, At
  <2> QED BY <1>1, <2>1, SourceFromOne
<1>5. Fits(g, 0)
  BY <1>1, <1>4 DEF Fits
<1>6. Len(Buffer(g, top)) = g.pos - top
  <2>1. Len(Buffer(g, top)) = Span(top + 1, g.pos)
    BY <1>1, BufferIs DEF At, Bound
  <2> QED BY <1>4, <2>1 DEF Span
<1>7. Len(Buffer(g, top))' = g.pos
  <2>1. Buffer(g, top)' = Buffer(g, 0)
    BY <1>2 DEF Buffer
  <2>2. Len(Buffer(g, 0)) = Span(0 + 1, g.pos)
    BY <1>1, <1>5, BufferIs DEF At, Bound
  <2> QED BY <1>4, <2>1, <2>2 DEF Span
<1>8. Source(1, 0) = <<>>
  <2> DEFINE i == 1
             j == 0
  <2>1. i \in Nat /\ i > 0 /\ j \in Int /\ j < i
    OBVIOUS
  <2> HIDE DEF i, j
  <2>2. Source(i, j) = <<>>
    BY <2>1, SourceEmpty
  <2> QED BY <2>2 DEF i, j
<1>9. IInv'
  <2>1. Fits(g, top)'
    BY <1>2, <1>5 DEF Fits
  <2>2. Here' = 0
    BY <1>1, <1>2 DEF Here, At
  <2>3. (out = Source(1, Here))'
    BY <1>2, <1>8, <2>2
  <2>4. ErrorsOnce' /\ ErrorsLast' /\ DropEofDropsAll'
    BY <1>2, <1>3 DEF IInv, ErrorsOnce, ErrorsLast, DropEofDropsAll
  <2> QED BY <1>2, <2>1, <2>3, <2>4 DEF IInv
<1>10. Own' = Own /\ Asked' = 0
  BY <1>2, <1>3 DEF Own, Asked
<1>11. Abstract!Silent
  BY <1>3, <1>10 DEF Abstract!Silent
<1>12. CASE out # <<>>
  <2>1. Abstract!Rewind
    BY <1>2, <1>4, <1>6, <1>7, <1>10, <1>11, <1>12 DEF Abstract!Rewind
  <2> QED BY <1>9, <2>1 DEF Abstract!Next
<1>13. CASE out = <<>>
  <2>1. top = 0
    BY <1>4, <1>13
  <2>2. SubSeq(Abstract!Ahead, 1, 0) = <<>>
    OBVIOUS
  <2>3. Abstract!Consume(0)
    BY <1>2, <1>4, <1>6, <1>7, <1>10, <1>11, <1>13, <2>1, <2>2 DEF Abstract!Consume
  <2>4. 0 \in 0 .. Len(Abstract!Ahead)
    <3>1. Len(Abstract!Ahead) = Span(Here + 1, Bound(Length))
      BY <1>1, AheadIs
    <3>2. Bound(Length) \in Int
      BY <1>1, FitsNumbers
    <3> QED BY <1>4, <3>1, <3>2 DEF Span
  <2> QED BY <1>9, <2>3, <2>4 DEF Abstract!Next
<1> QED BY <1>12, <1>13

(* The end of a loop. *)
LEMMA FinishIs ==
  ASSUME NEW res, NEW ask, Sound(res, ask), NEW err, err = res.err, Finish(res, err)
  PROVE  Apply(res, op.name, op.size) /\ op' \in Ops
<1>1. [res EXCEPT !.err = err] = res
  <2>1. res = Result(res.g, res.top, res.err, res.data, res.took)
    BY DEF Sound
  <2> QED BY <2>1 DEF Result
<1>2. op' \in Ops
  BY DEF Finish, Ops
<1> QED BY <1>1, <1>2 DEF Finish

LEMMA DataEofStep ==
  ASSUME IInv, DataEof
  PROVE  IInv' /\ Abstract!Next
<1>1. Setting /\ Fits(g, top) /\ op \in Ops /\ op.size \in Nat /\ op.name = "data_eof"
  BY SettingHolds DEF IInv, Ops, DataEof
<1>2. PICK res \in Data(op.size) :
        IF res.err # "none" \/ Len(res.data) < op.size
        THEN Finish(res, res.err)
        ELSE Apply(res, "more", op.size) /\ op' = [op EXCEPT !.size = 2 * @]
  BY DEF DataEof
<1>3. Sound(res, op.size) /\ (res.err # "none" => Rest(res.g) = <<>>)
  BY <1>1, DataSound
<1>4. CASE res.err # "none" \/ Len(res.data) < op.size
  <2>1. Apply(res, "data_eof", op.size) /\ op' \in Ops
    BY <1>1, <1>2, <1>3, <1>4, FinishIs
  <2> QED BY <1>1, <1>3, <2>1, ApplyStep
<1>5. CASE ~(res.err # "none" \/ Len(res.data) < op.size)
  <2>1. Apply(res, "more", op.size) /\ op' = [op EXCEPT !.size = 2 * @]
    BY <1>2, <1>5
  <2>2. op' \in Ops
    <3> DEFINE n == 2 * op.size
    <3>1. n \in Nat /\ op' = [op EXCEPT !.size = n]
      BY <1>1, <2>1
    <3> HIDE DEF n
    <3> QED BY <1>1, <3>1 DEF Ops
  <2>3. Apply(res, "more", op.size)
    BY <2>1
  <2> QED BY <1>1, <1>3, <2>2, <2>3, ApplyStep
<1> QED BY <1>4, <1>5

LEMMA DropEofStep ==
  ASSUME IInv, DropEof
  PROVE  IInv' /\ Abstract!Next
<1>1. Setting /\ Fits(g, top) /\ op \in Ops /\ op.size \in Nat /\ op.name = "drop_eof"
  BY SettingHolds DEF IInv, Ops, DropEof
<1>2. PICK res \in Data(op.size) :
        IF res.err # "none" THEN Finish(res, res.err)
        ELSE IF Len(res.data) < op.size THEN Finish(Consumed(res, Len(res.data)), "none")
        ELSE Apply(Consumed(res, Len(res.data)), "more", op.size) /\ UNCHANGED op
  BY DEF DropEof
<1>3. Sound(res, op.size) /\ Fresh(res) /\ (res.err # "none" => Rest(res.g) = <<>>)
  BY <1>1, DataSound
<1>4. CASE res.err # "none"
  <2>1. Apply(res, "drop_eof", op.size) /\ op' \in Ops
    BY <1>1, <1>2, <1>3, <1>4, FinishIs
  <2> QED BY <1>1, <1>3, <1>4, <2>1, ApplyStep
<1>5. CASE res.err = "none"
  <2> DEFINE n == Len(res.data)
             c == Consumed(res, n)
  <2>1. n \in Nat /\ n <= n
    BY <1>3, <1>5 DEF Sound, DataOk
  <2>2. Sound(c, op.size) /\ c.err = "none" /\ c.data = res.data /\ c.took = n
    <3> HIDE DEF n
    <3> QED BY <1>1, <1>3, <1>5, <2>1, ConsumedSound DEF n
  <2> HIDE DEF c
  <2>3. CASE n < op.size
    <3>1. Finish(c, "none")
      BY <1>2, <1>5, <2>3 DEF c
    <3>2. Apply(c, "drop_eof", op.size) /\ op' \in Ops
      BY <1>1, <2>2, <3>1, FinishIs
    <3>3. c.took = Len(c.data) /\ Len(c.data) < op.size
      BY <2>2, <2>3
    <3> QED BY <1>1, <2>2, <3>2, <3>3, ApplyStep
  <2>4. CASE ~(n < op.size)
    <3>1. Apply(c, "more", op.size) /\ UNCHANGED op
      BY <1>2, <1>5, <2>4 DEF c
    <3>2. op' \in Ops
      BY <3>1, OpUnchanged
    <3> QED BY <1>1, <2>2, <3>1, <3>2, ApplyStep
  <2> QED BY <2>3, <2>4
<1> QED BY <1>4, <1>5

LEMMA ReadToStep ==
  ASSUME IInv, ReadTo
  PROVE  IInv' /\ Abstract!Next
<1>1. Setting /\ Fits(g, top) /\ op \in Ops /\ op.size \in Nat /\ op.name = "read_to"
  BY SettingHolds DEF IInv, Ops, ReadTo
<1>2. PICK res \in Data(op.size) :
        IF res.err # "none" THEN Finish(res, res.err)
        ELSE IF HasTerminal(res.data)
             THEN Finish([res EXCEPT !.data = Prefix(@, FirstTerminal(@))], "none")
        ELSE IF Len(res.data) < op.size THEN Finish(res, "none")
        ELSE /\ Apply(res, "more", op.size)
             /\ op' = [op EXCEPT !.size = Max({2 * @, Len(res.data) + 1})]
  BY DEF ReadTo
<1>3. Sound(res, op.size) /\ Fresh(res) /\ (res.err # "none" => Rest(res.g) = <<>>)
  BY <1>1, DataSound
<1>4. CASE res.err # "none"
  <2>1. Apply(res, "read_to", op.size) /\ op' \in Ops
    BY <1>1, <1>2, <1>3, <1>4, FinishIs
  <2> QED BY <1>1, <1>3, <1>4, <2>1, ApplyStep
<1>5. ASSUME res.err = "none" PROVE Len(res.data) \in Nat /\ Sound(res, 0)
  BY <1>3, <1>5, Weaken DEF Sound, DataOk
<1>6. CASE res.err = "none" /\ HasTerminal(res.data)
  <2> DEFINE n == FirstTerminal(res.data)
             part == [res EXCEPT !.data = Prefix(@, FirstTerminal(@))]
  <2>1. Finish(part, "none")
    BY <1>2, <1>6
  <2>2. n \in Nat /\ n <= Len(res.data)
    <3>1. n \in 1 .. Len(res.data)
      BY <1>5, <1>6, TerminalIs
    <3> HIDE DEF n
    <3> QED BY <1>5, <1>6, <3>1
  <2> HIDE DEF n
  <2>3. part = Result(res.g, top, "none", Prefix(res.data, n), 0)
    <3>1. res = Result(res.g, top, "none", res.data, 0)
      BY <1>3, <1>6 DEF Sound, Fresh
    <3> DEFINE d == Prefix(res.data, n)
    <3>2. part = [res EXCEPT !.data = d]
      BY DEF n
    <3> HIDE DEF part, d
    <3>3. part = Result(res.g, top, "none", d, 0)
      BY <3>1, <3>2 DEF Result
    <3> QED BY <3>3 DEF d
  <2> HIDE DEF part
  <2>4. Sound(part, 0) /\ part.err = "none"
    BY <1>1, <1>3, <1>6, <2>2, <2>3, PartSound
  <2>5. Apply(part, "read_to", op.size) /\ op' \in Ops
    BY <1>1, <2>1, <2>4, FinishIs
  <2> QED BY <1>1, <2>4, <2>5, ApplyStep
<1>7. CASE res.err = "none" /\ ~HasTerminal(res.data) /\ Len(res.data) < op.size
  <2>1. Finish(res, "none") /\ Sound(res, 0)
    BY <1>2, <1>5, <1>7
  <2>2. Apply(res, "read_to", op.size) /\ op' \in Ops
    BY <1>1, <1>7, <2>1, FinishIs
  <2> QED BY <1>1, <1>7, <2>1, <2>2, ApplyStep
<1>8. CASE res.err = "none" /\ ~HasTerminal(res.data) /\ ~(Len(res.data) < op.size)
  <2> DEFINE a == 2 * op.size
             b == Len(res.data) + 1
             n == Max({a, b})
  <2>1. Apply(res, "more", op.size) /\ op' = [op EXCEPT !.size = n]
    BY <1>2, <1>8
  <2>2. a \in Nat /\ b \in Nat
    BY <1>1, <1>5, <1>8
  <2> HIDE DEF a, b
  <2>3. n \in Nat
    <3>1. n = IF a >= b THEN a ELSE b
      BY <2>2, MaxOfTwo
    <3> QED BY <2>2, <3>1
  <2> HIDE DEF n
  <2>4. op' \in Ops
    BY <1>1, <2>1, <2>3 DEF Ops
  <2>5. Apply(res, "more", op.size)
    BY <2>1
  <2> QED BY <1>1, <1>3, <1>8, <2>4, <2>5, ApplyStep
<1> QED BY <1>4, <1>6, <1>7, <1>8

LEMMA DropUntilStep ==
  ASSUME IInv, DropUntil
  PROVE  IInv' /\ Abstract!Next
<1>1. /\ Setting /\ Fits(g, top) /\ op \in Ops /\ op.size \in Nat
      /\ op.name = "drop_until" /\ BufSize \in Nat
  BY SettingHolds, SizeAssumption DEF IInv, Ops, DropUntil
<1>2. PICK res \in IF Buffer(g, top) = <<>> THEN Data(BufSize)
                   ELSE {Result(g, top, "none", Buffer(g, top), 0)} :
        IF res.err # "none" \/ res.data = <<>> THEN Finish(res, res.err)
        ELSE IF HasTerminal(res.data)
             THEN Finish(Consumed(res, FirstTerminal(res.data) - 1), "none")
        ELSE Apply(Consumed(res, Len(res.data)), "drop_until", BufSize) /\ UNCHANGED op
  BY DEF DropUntil
<1>3. Len(Buffer(g, top)) = Shown /\ Shown \in Nat
  <2>1. Shown \in Nat
    BY <1>1, FitsNumbers DEF Shown, Span, Here
  <2> QED BY <1>1, <2>1, BufferIs DEF Shown, Here
<1>4. /\ Fresh(res)
      /\ res.err # "none" => Sound(res, op.size) /\ Rest(res.g) = <<>>
      /\ res.err = "none" => Sound(res, 0)
  <2>1. CASE Buffer(g, top) = <<>>
    <3>1. Sound(res, BufSize) /\ Fresh(res) /\ (res.err # "none" => Rest(res.g) = <<>>)
      BY <1>1, <1>2, <2>1, DataSound
    <3>2. Shown = 0
      BY <1>3, <2>1
    <3>3. ASSUME res.err # "none" PROVE Sound(res, op.size)
      BY <3>1, <3>2, <3>3 DEF Sound
    <3>4. ASSUME res.err = "none" PROVE Sound(res, 0)
      BY <3>1, <3>4, Weaken
    <3> QED BY <3>1, <3>3, <3>4
  <2>2. CASE Buffer(g, top) # <<>>
    <3>1. res = Result(g, top, "none", Buffer(g, top), 0)
      BY <1>2, <2>2
    <3>2. 0 \in Nat /\ 0 <= Shown
      BY <1>3
    <3>3. res.err = "none"
      BY <3>1 DEF Result
    <3> QED BY <1>1, <3>1, <3>2, <3>3, BufferSound
  <2> QED BY <2>1, <2>2
<1>5. CASE res.err # "none"
  <2>1. Apply(res, "drop_until", op.size) /\ op' \in Ops
    BY <1>1, <1>2, <1>4, <1>5, FinishIs
  <2> QED BY <1>1, <1>4, <1>5, <2>1, ApplyStep
<1>6. CASE res.err = "none" /\ res.data = <<>>
  <2>1. Apply(res, "drop_until", op.size) /\ op' \in Ops
    BY <1>1, <1>2, <1>4, <1>6, FinishIs
  <2> QED BY <1>1, <1>4, <1>6, <2>1, ApplyStep
<1>7. CASE res.err = "none" /\ res.data # <<>> /\ HasTerminal(res.data)
  <2> DEFINE n == FirstTerminal(res.data) - 1
             c == Consumed(res, n)
  <2>1. Len(res.data) \in Nat
    BY <1>4, <1>7 DEF Sound, DataOk
  <2>2. n \in Nat /\ n <= Len(res.data)
    <3> DEFINE k == FirstTerminal(res.data)
    <3>1. k \in 1 .. Len(res.data)
      BY <1>7, <2>1, TerminalIs
    <3> HIDE DEF k
    <3>2. k - 1 \in Nat /\ k - 1 <= Len(res.data)
      BY <2>1, <3>1
    <3> QED BY <3>2 DEF k
  <2>3. Finish(c, "none")
    BY <1>2, <1>7
  <2> HIDE DEF n
  <2>4. Sound(c, 0) /\ c.err = "none"
    BY <1>1, <1>4, <1>7, <2>2, ConsumedSound
  <2> HIDE DEF c
  <2>5. Apply(c, "drop_until", op.size) /\ op' \in Ops
    BY <1>1, <2>3, <2>4, FinishIs
  <2> QED BY <1>1, <2>4, <2>5, ApplyStep
<1>8. CASE res.err = "none" /\ res.data # <<>> /\ ~HasTerminal(res.data)
  <2> DEFINE n == Len(res.data)
             c == Consumed(res, n)
  <2>1. n \in Nat /\ n <= Len(res.data)
    BY <1>4, <1>8 DEF Sound, DataOk
  <2>2. Apply(c, "drop_until", BufSize) /\ UNCHANGED op
    BY <1>2, <1>8
  <2> HIDE DEF n
  <2>3. Sound(c, 0) /\ c.err = "none"
    BY <1>1, <1>4, <1>8, <2>1, ConsumedSound
  <2> HIDE DEF c
  <2>4. op' \in Ops
    BY <2>2, OpUnchanged
  <2> QED BY <1>1, <2>2, <2>3, <2>4, ApplyStep
<1> QED BY <1>5, <1>6, <1>7, <1>8

LEMMA InitStep ==
  ASSUME Init
  PROVE  IInv /\ Abstract!Init
<1>1. /\ kind \in Kinds /\ param \in Params /\ out = <<>>
      /\ g = [buf |-> <<>>, cursor |-> 0, eof |-> FALSE, error |-> FALSE,
              pos |-> 0, fails |-> 0]
      /\ top = IF kind = "limitor" THEN param ELSE 0
      /\ op = [name |-> "idle", size |-> 0] /\ reported = 0 /\ mistaken = 0
      /\ last = [name |-> "new", amount |-> 0, err |-> "none", data |-> <<>>]
  BY DEF Init
<1>2. Setting
  BY <1>1, KindAssumption, SizeAssumption DEF Setting
<1>3. Length \in Nat /\ MaxErrors \in Nat
  BY SizeAssumption
<1>4. /\ g.buf = <<>> /\ g.cursor = 0 /\ g.eof = FALSE /\ g.error = FALSE
      /\ g.pos = 0 /\ g.fails = 0 /\ g \in GenericState
  BY <1>1 DEF GenericState
<1>5. Source(1, 0) = <<>>
  <2> DEFINE i == 1
             j == 0
  <2>1. i \in Nat /\ i > 0 /\ j \in Int /\ j < i
    OBVIOUS
  <2> HIDE DEF i, j
  <2>2. Source(i, j) = <<>>
    BY <2>1, SourceEmpty
  <2> QED BY <2>2 DEF i, j
<1>6. Len(g.buf) = 0
  BY <1>4
<1>7. Good(g) /\ Base(g) = 0
  <2>1. g.pos - Len(g.buf) + 1 = 1 /\ Base(g) = 0
    <3> DEFINE p == g.pos
               l == Len(g.buf)
               c == g.cursor
    <3>1. p = 0 /\ l = 0 /\ c = 0 /\ Base(g) = p - l + c
      BY <1>4, <1>6 DEF Base
    <3> HIDE DEF p, l, c
    <3>2. p - l + 1 = 1 /\ p - l + c = 0
      BY <3>1
    <3> QED BY <3>1, <3>2 DEF p, l
  <2>2. g.buf = Source(g.pos - Len(g.buf) + 1, g.pos)
    BY <1>4, <1>5, <2>1
  <2> QED BY <1>3, <1>4, <1>6, <2>1, <2>2 DEF Good
<1>8. Fits(g, top)
  BY <1>1, <1>2, <1>7 DEF Fits, Setting
<1>9. Here = 0
  BY <1>1, <1>7 DEF Here, At
<1>10. ErrorsOnce /\ ErrorsLast /\ DropEofDropsAll
  BY <1>1, <1>4 DEF ErrorsOnce, ErrorsLast, DropEofDropsAll
<1>11. IInv
  BY <1>1, <1>5, <1>8, <1>9, <1>10 DEF IInv
<1>12. Len(Buffer(g, top)) = 0
  <2>1. Len(Buffer(g, top)) = Span(Here + 1, Bound(g.pos))
    BY <1>2, <1>8, BufferIs DEF Here
  <2> QED BY <1>2, <1>4, <1>9, <2>1 DEF Span, Bound, Setting
<1>13. Abstract!Init
  BY <1>1, <1>4, <1>12 DEF Abstract!Init
<1> QED BY <1>11, <1>13

LEMMA StutterStep ==
  ASSUME UNCHANGED <<kind, param, g, top, out, last>>
  PROVE  UNCHANGED Abstract!streamVars
BY DEF Abstract!streamVars, Own, Buffer, Rest, Drop, Asked, Hard

LEMMA InvariantUnchanged ==
  ASSUME IInv, UNCHANGED <<kind, param, g, top, out, last, reported, mistaken>>, op' \in Ops
  PROVE  IInv'
<1>1. Fits(g, top)' /\ Here' = Here
  BY DEF IInv, Fits, Here, At
<1>2. ErrorsOnce' /\ ErrorsLast' /\ DropEofDropsAll'
  BY DEF IInv, ErrorsOnce, ErrorsLast, DropEofDropsAll
<1> QED BY <1>1, <1>2 DEF IInv, Ops

LEMMA NextStep ==
  ASSUME IInv, [Next]_vars
  PROVE  IInv' /\ [Abstract!Next]_(Abstract!streamVars)
<1>1. CASE UNCHANGED vars
  <2>1. UNCHANGED <<kind, param, g, top, out, last, reported, mistaken>> /\ UNCHANGED op
    BY <1>1 DEF vars
  <2> QED BY <2>1, OpUnchanged, StutterStep, InvariantUnchanged
<1>2. ASSUME NEW amount \in Amounts,
             \/ CallData(amount) \/ CallDataHard(amount) \/ CallConsume(amount)
             \/ CallDataConsume(amount) \/ CallDataConsumeHard(amount)
      PROVE  IInv' /\ Abstract!Next
  <2>1. amount \in Nat
    BY SizeAssumption DEF Amounts
  <2> QED BY <1>2, <2>1, CallStep
<1>3. ASSUME NEW name \in Loops, Begin(name)
      PROVE  IInv' /\ UNCHANGED Abstract!streamVars
  <2>1. UNCHANGED <<kind, param, g, top, out, last, reported, mistaken>>
    BY <1>3 DEF Begin
  <2>2. op' \in Ops
    BY <1>3, SizeAssumption DEF Begin, Ops
  <2> QED BY <2>1, <2>2, StutterStep, InvariantUnchanged
<1>4. CASE CallEof
  BY <1>4, EofStep
<1>5. CASE Rewind
  BY <1>5, RewindStep
<1>6. CASE Loop
  BY <1>6, DataEofStep, DropEofStep, ReadToStep, DropUntilStep DEF Loop
<1> QED BY <1>1, <1>2, <1>3, <1>4, <1>5, <1>6 DEF Next

(* The invariant implies what the run checks: the assertions of the code   *)
(* hold, and what was buffered and consumed are bytes of the source.       *)
LEMMA InvariantTypes ==
  ASSUME IInv
  PROVE  TypeOK
<1>1. Setting /\ Fits(g, top) /\ Good(g) /\ out = Source(1, Here)
  BY SettingHolds DEF IInv, Fits
<1>2. ASSUME NEW i \in Nat, i > 0, NEW j \in Int, j <= Length
      PROVE  Source(i, j) \in Seq(1 .. Length)
  <2> DEFINE n == Span(i, j)
  <2>1. n \in Nat /\ 1 .. j - i + 1 = 1 .. n /\ (n > 0 => i + n - 1 = j)
    BY DEF Span
  <2>2. Source(i, j) = [k \in 1 .. n |-> i + k - 1]
    BY <2>1 DEF Source
  <2> HIDE DEF n
  <2>3. Length \in Nat
    BY SizeAssumption
  <2>4. \A k \in 1 .. n : i + k - 1 \in 1 .. Length
    BY <1>2, <2>1, <2>3
  <2> QED BY <2>1, <2>2, <2>4, IsASeq
<1>3. /\ g.pos \in Nat /\ g.pos <= Length /\ Len(g.buf) \in Nat /\ Len(g.buf) <= g.pos
      /\ g.cursor \in Nat /\ g.cursor <= Len(g.buf)
      /\ g.fails \in Nat /\ g.fails <= MaxErrors /\ MaxErrors \in Nat /\ Length \in Nat
      /\ g.buf = Source(g.pos - Len(g.buf) + 1, g.pos)
  BY <1>1, SizeAssumption DEF Good, GenericState
<1>4. g.buf \in Seq(1 .. Length)
  <2> DEFINE i == g.pos - Len(g.buf) + 1
             j == g.pos
  <2>1. i \in Nat /\ i > 0 /\ j \in Int /\ j <= Length /\ g.buf = Source(i, j)
    BY <1>3
  <2> HIDE DEF i, j
  <2> QED BY <1>2, <2>1
<1>5. out \in Seq(1 .. Length)
  <2> DEFINE i == 1
  <2>1. i \in Nat /\ i > 0 /\ Here \in Int /\ Here <= Length /\ out = Source(i, Here)
    BY <1>1, <1>3, FitsNumbers DEF Here
  <2> HIDE DEF i
  <2> QED BY <1>2, <2>1
<1>6. top \in Nat /\ (kind = "dup" => top <= Len(Rest(g)))
  <2>1. Len(Rest(g)) = g.pos - Base(g)
    BY <1>1, RestIs
  <2> QED BY <1>1, <1>3, <2>1 DEF Fits
<1> QED BY <1>3, <1>4, <1>5, <1>6 DEF IInv, TypeOK

LEMMA Invariance == Spec => []IInv
<1>1. Init => IInv
  BY InitStep
<1>2. IInv /\ [Next]_vars => IInv'
  BY NextStep
<1> QED BY <1>1, <1>2, PTL DEF Spec

(* Errors neither overtake data nor get lost nor multiply, and the         *)
(* assertions of data_helper, Limitor and Dup hold, for every source,      *)
(* limit, reserve and amount.                                              *)
THEOREM ErrorsAccounted == Spec => []ErrorsInOrder
<1>1. IInv => ErrorsInOrder
  BY InvariantTypes DEF IInv, ErrorsInOrder
<1> QED BY <1>1, Invariance, PTL

(* drop_eof() that returns without an error, over a source that has not    *)
(* failed, has discarded all that the reader had to give.                  *)
THEOREM DropsToTheEnd == Spec => []DropEofDropsAll
<1>1. IInv => DropEofDropsAll
  BY DEF IInv
<1> QED BY <1>1, Invariance, PTL

(* Generic, Limitor, Reserve and Dup with the operations derived from      *)
(* data() and consume() implement the contract of the trait.               *)
THEOREM ReadersImplementContract == Spec => ImplementsByteStream
<1>1. Init => Abstract!Init
  BY InitStep
<1>2. IInv /\ [Next]_vars => [Abstract!Next]_(Abstract!streamVars)
  BY NextStep
<1> QED BY <1>1, <1>2, Invariance, PTL DEF Spec, ImplementsByteStream, Abstract!Spec

=============================================================================
