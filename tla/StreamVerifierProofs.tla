------------------------ MODULE StreamVerifierProofs ------------------------
(***************************************************************************)
(* The safety properties of StreamVerifier, for every length of the body,  *)
(* buffer size and sequence of reads, with and without overflow checks.    *)
(*                                                                         *)
(* The invariant says for each of the two ways in which bytes reach the    *)
(* caller, from the buffer of the packet (BodyInv) and from the reserve    *)
(* (ReserveInv), how the number of bytes handed out, the cursor and the    *)
(* bytes still held are related.  One lemma per action.                    *)
(***************************************************************************)
EXTENDS StreamVerifier, SequenceTheorems, TLAPS

-----------------------------------------------------------------------------
(* The minimum and the maximum of two numbers, which the library defines   *)
(* by CHOOSE. (Min is what read_helper() takes of the caller's buffer and  *)
(* what it may give out.)                                                  *)
LEMMA MinOfTwo ==
  ASSUME NEW a \in Int, NEW b \in Int
  PROVE  Min({a, b}) = IF a <= b THEN a ELSE b
<1> DEFINE P(x) == x \in {a, b} /\ \A y \in {a, b} : x <= y
           m == IF a <= b THEN a ELSE b
<1>1. P(m) /\ \A x : P(x) => x = m
  OBVIOUS
<1>2. Min({a, b}) = CHOOSE x : P(x)
  BY DEF Min
<1> HIDE DEF P, m
<1>3. Min({a, b}) = m
  BY <1>1, <1>2
<1> QED BY <1>3 DEF m

LEMMA MaxOfTwo ==
  ASSUME NEW a \in Int, NEW b \in Int
  PROVE  Max({a, b}) = IF a >= b THEN a ELSE b
<1> DEFINE P(x) == x \in {a, b} /\ \A y \in {a, b} : x >= y
           m == IF a >= b THEN a ELSE b
<1>1. P(m) /\ \A x : P(x) => x = m
  OBVIOUS
<1>2. Max({a, b}) = CHOOSE x : P(x)
  BY DEF Max
<1> HIDE DEF P, m
<1>3. Max({a, b}) = m
  BY <1>1, <1>2
<1> QED BY <1>3 DEF m

(* A part of the body, Bytes(i, j), is a sequence with the bytes from i to *)
(* j.                                                                      *)
LEMMA BytesSeq ==
  ASSUME NEW i \in Nat, NEW j \in Nat, i > 0, j + 1 >= i
  PROVE  /\ Bytes(i, j) \in Seq(Nat)
         /\ Len(Bytes(i, j)) = j + 1 - i
         /\ \A k \in 1 .. j + 1 - i : Bytes(i, j)[k] = i + k - 1
<1> DEFINE n == j + 1 - i
<1>1. n \in Nat /\ j - i + 1 = n
  OBVIOUS
<1>2. Bytes(i, j) = [k \in 1 .. n |-> i + k - 1]
  BY <1>1 DEF Bytes
<1>3. \A k \in 1 .. n : i + k - 1 \in Nat
  OBVIOUS
<1> HIDE DEF n
<1>4. Bytes(i, j) \in [1 .. n -> Nat]
  BY <1>2, <1>3
<1>5. Bytes(i, j) \in Seq(Nat) /\ Len(Bytes(i, j)) = n
  BY <1>1, <1>2, <1>3, IsASeq
<1> QED BY <1>1, <1>2, <1>5 DEF n

(* Appending what follows to a beginning of the body is a longer           *)
(* beginning.                                                              *)
LEMMA BytesConcat ==
  ASSUME NEW a \in Nat, NEW b \in Nat, a <= b
  PROVE  Bytes(1, a) \o Bytes(a + 1, b) = Bytes(1, b)
<1> DEFINE s == Bytes(1, a)
           t == Bytes(a + 1, b)
           u == Bytes(1, b)
<1>1. s \in Seq(Nat) /\ Len(s) = a /\ \A k \in 1 .. a : s[k] = k
  <2>1. 1 \in Nat /\ 1 > 0 /\ a + 1 >= 1
    OBVIOUS
  <2>2. /\ s \in Seq(Nat) /\ Len(s) = a + 1 - 1
        /\ \A k \in 1 .. a + 1 - 1 : s[k] = 1 + k - 1
    BY <2>1, BytesSeq
  <2> HIDE DEF s
  <2> QED BY <2>2
<1>2. u \in Seq(Nat) /\ Len(u) = b /\ \A k \in 1 .. b : u[k] = k
  <2>1. 1 \in Nat /\ 1 > 0 /\ b + 1 >= 1
    OBVIOUS
  <2>2. /\ u \in Seq(Nat) /\ Len(u) = b + 1 - 1
        /\ \A k \in 1 .. b + 1 - 1 : u[k] = 1 + k - 1
    BY <2>1, BytesSeq
  <2> HIDE DEF u
  <2> QED BY <2>2
<1>3. t \in Seq(Nat) /\ Len(t) = b - a /\ \A k \in 1 .. b - a : t[k] = a + k
  <2>1. a + 1 \in Nat /\ a + 1 > 0 /\ b + 1 >= a + 1
    OBVIOUS
  <2>2. /\ t \in Seq(Nat) /\ Len(t) = b + 1 - (a + 1)
        /\ \A k \in 1 .. b + 1 - (a + 1) : t[k] = a + 1 + k - 1
    BY <2>1, BytesSeq
  <2> HIDE DEF t
  <2> QED BY <2>2
<1> HIDE DEF s, t, u
<1>4. /\ s \o t \in Seq(Nat) /\ Len(s \o t) = Len(s) + Len(t)
      /\ \A k \in 1 .. Len(s) + Len(t) :
           (s \o t)[k] = IF k <= Len(s) THEN s[k] ELSE t[k - Len(s)]
  BY <1>1, <1>3, ConcatProperties
<1>5. ASSUME NEW k \in 1 .. b PROVE (s \o t)[k] = u[k]
  <2>1. Len(s) + Len(t) = b
    BY <1>1, <1>3
  <2>2. (s \o t)[k] = IF k <= a THEN s[k] ELSE t[k - a]
    BY <1>1, <1>4, <2>1
  <2>3. k <= a => s[k] = k
    BY <1>1
  <2>4. k > a => t[k - a] = k
    BY <1>3
  <2> QED BY <1>2, <2>2, <2>3, <2>4
<1>6. s \o t \in Seq(Nat) /\ Len(s \o t) = Len(u)
  BY <1>1, <1>2, <1>3, <1>4
<1>7. s \o t = u
  BY <1>2, <1>5, <1>6, SeqEqual
<1> QED BY <1>7 DEF s, t, u

(* SubSeq under a name of its own: a lemma about it can be instantiated by *)
(* the provers.                                                            *)
Slice(s, m, n) == SubSeq(s, m, n)

(* A part of a part of the body is a part of the body. *)
LEMMA BytesSub ==
  ASSUME NEW i \in Nat, NEW j \in Nat, i > 0, j + 1 >= i,
         NEW m \in Nat, NEW n \in Nat, m > 0, m <= n + 1, n <= j + 1 - i
  PROVE  Slice(Bytes(i, j), m, n) = Bytes(i + m - 1, i + n - 1)
<1> DEFINE s == Bytes(i, j)
           a == i + m - 1
           b == i + n - 1
           t == Bytes(a, b)
           u == SubSeq(s, m, n)
<1>1. /\ s \in Seq(Nat) /\ Len(s) = j + 1 - i
      /\ \A k \in 1 .. j + 1 - i : s[k] = i + k - 1
  BY BytesSeq
<1>2. /\ t \in Seq(Nat) /\ Len(t) = n - m + 1
      /\ \A k \in 1 .. n - m + 1 : t[k] = a + k - 1
  <2>1. a \in Nat /\ b \in Nat /\ a > 0 /\ b + 1 >= a /\ b + 1 - a = n - m + 1
    OBVIOUS
  <2> HIDE DEF a, b
  <2>2. /\ t \in Seq(Nat) /\ Len(t) = b + 1 - a
        /\ \A k \in 1 .. b + 1 - a : t[k] = a + k - 1
    BY <2>1, BytesSeq
  <2> QED BY <2>1, <2>2
<1> HIDE DEF s, t
<1>3. /\ u \in Seq(Nat) /\ Len(u) = n - m + 1
      /\ \A k \in 1 .. n - m + 1 : u[k] = s[m + k - 1]
  <2>1. \A k \in m .. n : s[k] \in Nat
    BY <1>1, ElementOfSeq
  <2>2. /\ u \in Seq(Nat) /\ Len(u) = IF m <= n THEN n - m + 1 ELSE 0
        /\ \A k \in 1 .. n - m + 1 : u[k] = s[m + k - 1]
    BY <2>1, SubSeqProperties
  <2> QED BY <2>2
<1>4. \A k \in 1 .. n - m + 1 : u[k] = t[k]
  BY <1>1, <1>2, <1>3
<1> HIDE DEF u
<1>5. u = t
  BY <1>2, <1>3, <1>4, SeqEqual
<1> QED BY <1>5 DEF s, t, u, Slice

-----------------------------------------------------------------------------
(* How many bytes the caller has. *)
Got == Len(handed)

(* The types of all variables; a truncated body cannot be followed by a    *)
(* rest that is in order.                                                  *)
Types ==
  /\ length \in 0 .. MaxLength /\ avail \in 0 .. length
  /\ tail \in {"good", "bad"} /\ (avail < length => tail = "bad")
  /\ pos \in 0 .. avail /\ shown \in 0 .. avail - pos
  /\ cursor \in Nat /\ checks \in Nat
  /\ at \in {"idle", "gone", "read_helper", "request", "copy", "finish_maybe",
             "rest", "verify_signatures"}
  /\ caller \in -1 .. MaxRead
  /\ reply \in {"none", "ok", "end", "err", "panic"}
  /\ oppr \in BOOLEAN /\ verified \in BOOLEAN
  /\ failed \in BOOLEAN /\ large \in BOOLEAN
  /\ reserve \in [some : BOOLEAN, bytes : Seq(Nat)]
  /\ handed \in Seq(Nat)

(* Where the call is. The loop of read_helper() runs only for a buffer     *)
(* that is not empty.                                                      *)
CallInv ==
  /\ at \in {"read_helper", "request", "copy"} => caller > 0
  /\ at \in {"finish_maybe", "rest", "verify_signatures"} => caller # 0
  /\ ~large => caller <= buffer_size
  /\ reply = "panic" => at = "gone" /\ (failed \/ large)

(* While the Decryptor has no reserve: the caller has got what was         *)
(* consumed and what the cursor has passed, and unless it has got nothing, *)
(* buffer_size bytes are buffered beyond it. Before it copies,             *)
(* read_helper() has been shown twice the buffer size or all there is, so  *)
(* that asking again shows the same; with reads of at most buffer_size     *)
(* bytes the cursor is in the first part of the buffer then.               *)
BodyInv ==
  ~reserve.some =>
    /\ Got = pos + cursor
    /\ Got = 0 \/ cursor + buffer_size <= shown
    /\ ~oppr => failed \/ at = "gone"
    /\ oppr => ~failed
    /\ at \in {"request", "copy", "finish_maybe"} => oppr
    /\ at = "copy" => /\ shown - cursor > buffer_size
                      /\ shown >= 2 * buffer_size \/ shown = avail - pos
    /\ at \notin {"rest", "verify_signatures"}
    /\ ~verified /\ checks = 0 /\ reply # "end"
    /\ ~large => /\ cursor = 0 \/ cursor < 2 * buffer_size
                 /\ at \in {"request", "copy", "finish_maybe"} =>
                      cursor = 0 \/ cursor < buffer_size

(* Once there is a reserve: it is the rest of the body, from where the     *)
(* caller was; until check() has approved nothing more is handed out,      *)
(* unless a call has failed; and only a message whose rest is in order is  *)
(* verified.                                                               *)
ReserveInv ==
  reserve.some =>
    /\ ~oppr
    /\ cursor <= Got /\ Got <= avail
    /\ reserve.bytes = Bytes(Got - cursor + 1, avail)
    /\ at \in {"idle", "gone", "read_helper", "rest", "verify_signatures"}
    /\ at \in {"rest", "verify_signatures"} =>
         /\ ~failed /\ ~verified /\ checks = 0 /\ reply # "end"
         /\ Got = 0 \/ Got + buffer_size <= avail
    /\ at = "verify_signatures" => tail = "good"
    /\ at \in {"idle", "gone", "read_helper"} => verified \/ failed
    /\ checks <= 1
    /\ verified => tail = "good"
    /\ reply = "end" => Got = avail

(* The inductive invariant. *)
IInv == Types /\ CallInv /\ handed = Bytes(1, Got) /\ BodyInv /\ ReserveInv

(* The contract of pp.data(amount): at least what was shown before, and if *)
(* it is less than the amount, all there is; but data(0) may show nothing. *)
LEMMA DataShows ==
  ASSUME Types, NEW amount \in Nat, NEW n \in Data(amount)
  PROVE  \/ amount = 0 /\ n = 0
         \/ /\ n \in Nat /\ shown <= n /\ n <= avail - pos
            /\ n >= amount \/ n = avail - pos
            /\ amount <= shown => n = shown
<1>1. avail - pos \in Int /\ Left = avail - pos /\ shown \in Nat /\ shown <= avail - pos
  BY DEF Types, Left
<1>2. CASE amount = 0 /\ Quiet
  BY <1>2 DEF Data
<1>3. CASE ~(amount = 0 /\ Quiet) /\ amount <= shown
  BY <1>1, <1>3 DEF Data
<1>4. CASE ~(amount = 0 /\ Quiet) /\ ~(amount <= shown)
  <2>1. n \in shown .. Left /\ n >= Min({amount, Left})
    BY <1>4 DEF Data
  <2>2. Min({amount, Left}) = IF amount <= Left THEN amount ELSE Left
    BY <1>1, MinOfTwo
  <2> QED BY <1>1, <1>4, <2>1, <2>2
<1> QED BY <1>2, <1>3, <1>4

(* The invariant holds when Decryptor::from_cookie_reader() has found the  *)
(* literal data packet.                                                    *)
LEMMA InitIInv == Init => IInv
<1> SUFFICES ASSUME Init PROVE IInv
  OBVIOUS
<1>1. << >> \in Seq(Nat) /\ Len(<< >>) = 0
  BY EmptySeq
<1>2. Types
  <2>1. None \in [some : BOOLEAN, bytes : Seq(Nat)] /\ handed \in Seq(Nat)
    BY <1>1 DEF None, Init
  <2>2. length \in 0 .. MaxLength /\ avail \in 0 .. length /\ caller \in -1 .. MaxRead
    BY SizeAssumption DEF Init, New
  <2>3. /\ pos \in 0 .. avail /\ shown \in 0 .. avail - pos
        /\ cursor \in Nat /\ checks \in Nat
    BY <2>2, SizeAssumption DEF Init
  <2>4. avail < length => tail = "bad"
    BY DEF Init
  <2>5. reserve \in [some : BOOLEAN, bytes : Seq(Nat)]
    BY <2>1 DEF Init
  <2> QED BY <2>1, <2>2, <2>3, <2>4, <2>5 DEF Init, Types
<1>3. CallInv
  BY SizeAssumption DEF Init, CallInv, New
<1>4. Got = 0
  BY <1>1 DEF Init, Got
<1>5. handed = Bytes(1, Got)
  <2>1. 1 \in Nat /\ 0 \in Nat /\ 1 > 0 /\ 0 + 1 >= 1
    OBVIOUS
  <2>2. Bytes(1, 0) \in Seq(Nat) /\ Len(Bytes(1, 0)) = 0
    BY <2>1, BytesSeq
  <2>3. Bytes(1, 0) = << >>
    BY <2>2, EmptySeq
  <2> QED BY <1>4, <2>3 DEF Init
<1>6. BodyInv /\ ReserveInv
  BY <1>4, SizeAssumption DEF Init, BodyInv, ReserveInv, None
<1> QED BY <1>2, <1>3, <1>5, <1>6 DEF IInv

(* The number of bytes that were handed out is a number. *)
LEMMA GotNat == Types => Got \in Nat
BY LenProperties DEF Types, Got

(* io::Read::read() only starts a call. *)
LEMMA ReadStep ==
  ASSUME IInv, NEW n \in 0 .. MaxRead, Read(n)
  PROVE  IInv'
<1> USE DEF IInv, Read, Source, Return, Goto
<1>1. Types'
  BY SizeAssumption DEF Types
<1>2. CallInv'
  <2>1. ~large' => ~(n > buffer_size)
    OBVIOUS
  <2>2. n # 0 => n > 0
    OBVIOUS
  <2>3. at' = IF n = 0 THEN "idle" ELSE "read_helper"
    OBVIOUS
  <2>4. reply' # "panic"
    BY DEF CallInv
  <2> QED BY <2>1, <2>2, <2>3, <2>4, SizeAssumption DEF CallInv
<1>3. UNCHANGED <<handed, Got>>
  BY DEF Got
<1>4. BodyInv'
  BY <1>3 DEF BodyInv, Types
<1>5. ReserveInv'
  BY <1>3 DEF ReserveInv, Types
<1> QED BY <1>1, <1>2, <1>3, <1>4, <1>5

(* Draining the reserve appends the next bytes of the body to what the     *)
(* caller has; only when nothing is left it says that this is the end.     *)
LEMMA DrainStep ==
  ASSUME IInv, Drain
  PROVE  IInv'
<1> DEFINE n == Min({caller, Len(reserve.bytes) - cursor})
           lo == Got - cursor + 1
           hi == Got + n
<1>1. /\ Types /\ reserve.some /\ at = "read_helper" /\ caller > 0
      /\ Got \in Nat /\ cursor \in Nat /\ caller \in Nat /\ avail \in Nat
      /\ cursor <= Got /\ Got <= avail
      /\ reserve.bytes = Bytes(lo, avail) /\ (verified \/ failed)
  BY GotNat DEF IInv, Drain, CallInv, ReserveInv, Types
<1>2. Len(reserve.bytes) = avail - Got + cursor
  <2>1. lo \in Nat /\ lo > 0 /\ avail + 1 >= lo
    BY <1>1
  <2> HIDE DEF lo
  <2>2. Len(reserve.bytes) = avail + 1 - lo
    BY <1>1, <2>1, BytesSeq
  <2> QED BY <1>1, <2>2 DEF lo
<1>3. /\ n \in Nat /\ n <= avail - Got /\ n <= caller
      /\ n = 0 => Got = avail
  <2>1. Len(reserve.bytes) - cursor = avail - Got
    BY <1>1, <1>2
  <2>2. n = IF caller <= avail - Got THEN caller ELSE avail - Got
    BY <1>1, <2>1, MinOfTwo
  <2> QED BY <1>1, <2>2
<1>4. /\ handed' = handed \o SubSeq(reserve.bytes, cursor + 1, cursor + n)
      /\ cursor' = cursor + n
      /\ reply' = (IF n = 0 THEN "end" ELSE "ok") /\ at' = "idle"
      /\ UNCHANGED <<oppr, failed, length, avail, tail, pos, shown, reserve, caller,
                     checks, verified, large>>
  BY DEF Drain, Return, Source, History
<1> HIDE DEF n
<1>5. SubSeq(reserve.bytes, cursor + 1, cursor + n) = Bytes(Got + 1, hi)
  <2> DEFINE x == cursor + 1
             y == cursor + n
             z == Got + 1
  <2>1. /\ lo \in Nat /\ lo > 0 /\ avail + 1 >= lo
        /\ x \in Nat /\ y \in Nat /\ x > 0 /\ x <= y + 1 /\ y <= avail + 1 - lo
        /\ avail \in Nat /\ z \in Nat /\ hi \in Nat /\ z = lo + x - 1 /\ hi = lo + y - 1
    BY <1>1, <1>3
  <2> HIDE DEF lo, hi, x, y, z
  <2>2. Slice(Bytes(lo, avail), x, y) = Bytes(z, hi)
    <3>1. Slice(Bytes(lo, avail), x, y) = Bytes(lo + x - 1, lo + y - 1)
      BY <2>1, BytesSub
    <3>2. z = lo + x - 1 /\ hi = lo + y - 1
      BY <2>1
    <3> QED BY <3>1, <3>2, Zenon
  <2> QED BY <1>1, <2>2 DEF x, y, z, Slice
<1>6. handed' = Bytes(1, hi) /\ handed' \in Seq(Nat) /\ Got' = hi
  <2>1. hi \in Nat /\ Got <= hi /\ 1 \in Nat /\ 1 > 0 /\ hi + 1 >= 1 /\ hi + 1 - 1 = hi
    BY <1>1, <1>3
  <2> HIDE DEF hi
  <2>2. handed' = Bytes(1, Got) \o Bytes(Got + 1, hi)
    BY <1>4, <1>5 DEF IInv
  <2>3. handed' = Bytes(1, hi)
    BY <1>1, <2>1, <2>2, BytesConcat
  <2>4. Bytes(1, hi) \in Seq(Nat) /\ Len(Bytes(1, hi)) = hi
    BY <2>1, BytesSeq
  <2> QED BY <2>3, <2>4 DEF Got
<1>7. Types'
  BY <1>1, <1>3, <1>4, <1>6 DEF Types
<1>8. CallInv'
  BY <1>1, <1>4 DEF IInv, CallInv
<1>9. BodyInv'
  BY <1>1, <1>4 DEF BodyInv
<1>10. ReserveInv'
  <2>1. Got' - cursor' + 1 = lo
    BY <1>1, <1>3, <1>4, <1>6
  <2>2. reserve'.bytes = Bytes(Got' - cursor' + 1, avail')
    BY <1>1, <1>4, <2>1
  <2>3. cursor' <= Got' /\ Got' <= avail' /\ (reply' = "end" => Got' = avail')
    BY <1>1, <1>3, <1>4, <1>6
  <2> QED BY <1>1, <1>4, <2>2, <2>3 DEF IInv, ReserveInv
<1> QED BY <1>6, <1>7, <1>8, <1>9, <1>10 DEF IInv

(* Without a parser and without a reserve, read_helper() panics; an        *)
(* earlier call has failed then.                                           *)
LEMMA NoParserStep ==
  ASSUME IInv, NoParser
  PROVE  IInv'
<1> USE DEF IInv, NoParser, Source, Panic, History
<1>1. UNCHANGED <<handed, Got>>
  BY DEF Got
<1>2. Types'
  BY DEF Types
<1>3. CallInv'
  BY DEF CallInv, BodyInv
<1>4. BodyInv' /\ ReserveInv'
  BY <1>1 DEF BodyInv, ReserveInv
<1> QED BY <1>1, <1>2, <1>3, <1>4

(* Consuming the first part of the buffer moves the cursor back by as      *)
(* much, and leaves buffer_size bytes beyond it.                           *)
LEMMA ReadHelperStep ==
  ASSUME IInv, ReadHelper
  PROVE  IInv'
<1> DEFINE first == IF cursor >= buffer_size THEN buffer_size ELSE 0
<1>1. /\ pos' = pos + first /\ shown' = shown - first /\ cursor' = cursor - first
      /\ at = "read_helper" /\ ~reserve.some /\ oppr
      /\ at' = "request"
      /\ UNCHANGED <<length, avail, tail, reserve, caller, handed, Got, checks,
                     verified, large, oppr, reply, failed>>
  BY DEF ReadHelper, Goto, Source, History, Got
<1>2. /\ Types /\ Got = pos + cursor /\ Got \in Nat
      /\ Got = 0 \/ cursor + buffer_size <= shown
  BY <1>1, GotNat DEF IInv, BodyInv
<1>3. cursor = 0 \/ cursor + buffer_size <= shown
  BY <1>2 DEF Types
<1>4. /\ first \in Nat /\ first <= cursor /\ first <= shown
      /\ first = 0 => cursor < buffer_size \/ buffer_size = 0
      /\ first # 0 => first = buffer_size
  BY <1>2, <1>3, SizeAssumption DEF Types
<1> HIDE DEF first
<1>5. Types'
  BY <1>1, <1>2, <1>4 DEF Types
<1>6. CallInv'
  BY <1>1 DEF IInv, CallInv
<1>7. BodyInv'
  BY <1>1, <1>2, <1>4, SizeAssumption DEF IInv, BodyInv, Types
<1>8. ReserveInv'
  BY <1>1 DEF ReserveInv
<1> QED BY <1>1, <1>5, <1>6, <1>7, <1>8 DEF IInv

(* A call that fails loses the parser, and hands out nothing. *)
LEMMA FailStep ==
  ASSUME IInv, Fail,
         at \in {"request", "copy", "finish_maybe", "rest", "verify_signatures"},
         UNCHANGED <<Source, pos, shown, cursor, reserve, caller, handed, verified,
                     large>>,
         \/ checks' = checks
         \/ at = "verify_signatures" /\ checks' = checks + 1
  PROVE  IInv'
<1>1. /\ reply' = "err" /\ at' \in {"gone", "idle"} /\ oppr' = FALSE /\ failed' = TRUE
      /\ UNCHANGED <<length, avail, tail, pos, shown, cursor, reserve, caller, handed,
                     Got, verified, large>>
  BY DEF Fail, Source, Got
<1>2. /\ checks \in Nat
      /\ at = "verify_signatures" => reserve.some
      /\ reserve.some => checks = 0
  BY DEF IInv, Types, BodyInv, ReserveInv
<1>3. checks' \in Nat /\ checks' <= 1 /\ (~reserve.some => checks' = 0)
  BY <1>2 DEF IInv, BodyInv
<1>4. Types'
  BY <1>1, <1>3 DEF IInv, Types
<1>5. CallInv'
  BY <1>1 DEF IInv, CallInv
<1>6. BodyInv'
  BY <1>1, <1>3 DEF IInv, BodyInv
<1>7. ReserveInv'
  BY <1>1, <1>3 DEF IInv, ReserveInv
<1> QED BY <1>1, <1>4, <1>5, <1>6, <1>7 DEF IInv

(* After the request, read_helper() copies only if more than buffer_size   *)
(* bytes are buffered beyond the cursor.                                   *)
LEMMA RequestStep ==
  ASSUME IInv, Request
  PROVE  IInv'
<1> DEFINE two == 2 * buffer_size
<1>1. at = "request" /\ two \in Nat
  BY SizeAssumption DEF Request
<1>2. CASE Fail /\ UNCHANGED shown
  BY <1>1, <1>2, FailStep DEF Request, Source, History
<1>3. ASSUME NEW n \in Data(two), shown' = Max({shown, n}),
             Goto(IF n - cursor <= buffer_size THEN "finish_maybe" ELSE "copy")
      PROVE  IInv'
  <2>1. /\ n \in Nat /\ shown \in Nat /\ n <= avail - pos /\ shown <= avail - pos
        /\ n = 0 \/ (shown <= n /\ (n >= two \/ n = avail - pos))
    <3>1. shown \in Nat /\ shown <= avail - pos /\ avail - pos \in Int
      BY DEF IInv, Types
    <3>2. \/ two = 0 /\ n = 0
          \/ n \in Nat /\ shown <= n /\ n <= avail - pos /\ (n >= two \/ n = avail - pos)
      BY <1>1, DataShows DEF IInv
    <3> HIDE DEF two
    <3> QED BY <3>1, <3>2
  <2>1a. shown' = IF shown >= n THEN shown ELSE n
    BY <1>3, <2>1, MaxOfTwo
  <2>1b. /\ shown' \in Nat /\ shown <= shown' /\ shown' <= avail - pos
         /\ n > 0 => shown' = n /\ (shown' >= two \/ shown' = avail - pos)
    <3> HIDE DEF two
    <3> QED BY <2>1, <2>1a
  <2>2. /\ UNCHANGED <<length, avail, tail, pos, cursor, reserve, caller, handed, Got,
                       checks, verified, large, oppr, reply, failed>>
        /\ at' = IF n - cursor <= buffer_size THEN "finish_maybe" ELSE "copy"
    BY <1>3 DEF Request, Goto, Source, History, Got
  <2>3. Types'
    BY <2>1b, <2>2 DEF IInv, Types
  <2>4. CallInv'
    BY <1>1, <2>2 DEF IInv, CallInv, Types
  <2>5. BodyInv'
    <3>1. Got' = 0 \/ cursor' + buffer_size <= shown' \/ reserve'.some
      BY <2>1b, <2>2, SizeAssumption DEF IInv, BodyInv, Types
    <3>2. at' = "copy" => /\ shown' - cursor' > buffer_size
                          /\ shown' >= 2 * buffer_size \/ shown' = avail' - pos'
      <4>1. cursor \in Nat /\ buffer_size \in Nat
        BY SizeAssumption DEF IInv, Types
      <4>2. at' = "copy" => n > 0 /\ n - cursor > buffer_size
        BY <2>1, <2>2, <4>1
      <4> QED BY <2>1b, <2>2, <4>2
    <3> QED BY <1>1, <2>2, <3>1, <3>2 DEF IInv, BodyInv
  <2>6. ReserveInv'
    BY <1>1, <2>2 DEF IInv, ReserveInv
  <2> QED BY <2>2, <2>3, <2>4, <2>5, <2>6 DEF IInv
<1> QED BY <1>2, <1>3 DEF Request

(* A panic while copying, which needs a read of more than buffer_size      *)
(* bytes.                                                                  *)
LEMMA CopyPanic ==
  ASSUME IInv, at = "copy", Panic, large,
         UNCHANGED <<Source, pos, shown, cursor, reserve, caller, handed, History>>
  PROVE  IInv'
<1>1. /\ reply' = "panic" /\ at' = "gone" /\ oppr' = FALSE
      /\ UNCHANGED <<length, avail, tail, pos, shown, cursor, reserve, caller, handed,
                     Got, checks, verified, large, failed>>
  BY DEF Panic, Source, History, Got
<1>2. ~reserve.some
  BY DEF IInv, ReserveInv
<1>3. Types'
  BY <1>1 DEF IInv, Types
<1>4. CallInv'
  BY <1>1 DEF IInv, CallInv
<1>5. BodyInv'
  <2>1. oppr /\ ~failed
    BY <1>2 DEF IInv, BodyInv
  <2> QED BY <1>1, <1>2, <2>1 DEF IInv, BodyInv
<1>6. ReserveInv'
  BY <1>1, <1>2 DEF ReserveInv
<1> QED BY <1>1, <1>3, <1>4, <1>5, <1>6 DEF IInv

(* Copying hands out the next bytes of the body and leaves buffer_size     *)
(* bytes beyond the cursor.                                                *)
LEMMA CopyGives ==
  ASSUME IInv, at = "copy", Return("ok"),
         handed' = handed \o Bytes(pos + cursor + 1, pos + cursor + Give(caller)),
         cursor' = cursor + Give(caller),
         UNCHANGED <<Source, pos, shown, reserve, caller, History>>
  PROVE  IInv'
<1> DEFINE g == Give(caller)
           hi == Got + g
<1>1. /\ Types /\ ~reserve.some /\ Got = pos + cursor /\ Got \in Nat
      /\ shown - cursor > buffer_size /\ caller > 0 /\ ~verified /\ checks = 0
      /\ oppr /\ ~failed
  BY GotNat DEF IInv, CallInv, BodyInv, ReserveInv
<1>2. /\ shown \in Nat /\ cursor \in Nat /\ caller \in Nat /\ pos \in Nat
      /\ buffer_size \in Nat
  BY <1>1, SizeAssumption DEF Types
<1>3. g \in Nat /\ g <= caller /\ cursor + g + buffer_size <= shown
  <2>1. g = IF caller <= shown - buffer_size - cursor THEN caller
            ELSE shown - buffer_size - cursor
    BY <1>2, MinOfTwo DEF Give
  <2> QED BY <1>1, <1>2, <2>1
<1> HIDE DEF g
<1>4. /\ reply' = "ok" /\ at' = "idle" /\ cursor' = cursor + g
      /\ UNCHANGED <<oppr, failed, length, avail, tail, pos, shown, reserve, caller,
                     checks, verified, large>>
  BY DEF Return, Source, History, g
<1>5. handed' = Bytes(1, hi) /\ handed' \in Seq(Nat) /\ Got' = hi
  <2>1. hi \in Nat /\ Got <= hi /\ 1 \in Nat /\ 1 > 0 /\ hi + 1 >= 1 /\ hi + 1 - 1 = hi
    BY <1>1, <1>3
  <2> HIDE DEF hi
  <2>2. handed' = Bytes(1, Got) \o Bytes(Got + 1, hi)
    BY <1>1 DEF IInv, hi, g
  <2>3. handed' = Bytes(1, hi)
    BY <1>1, <2>1, <2>2, BytesConcat
  <2>4. Bytes(1, hi) \in Seq(Nat) /\ Len(Bytes(1, hi)) = hi
    BY <2>1, BytesSeq
  <2> QED BY <2>3, <2>4 DEF Got
<1>6. Types'
  BY <1>1, <1>2, <1>3, <1>4, <1>5 DEF Types
<1>7. CallInv'
  BY <1>4 DEF IInv, CallInv
<1>8. BodyInv'
  <2>1. ~large => caller <= buffer_size /\ (cursor = 0 \/ cursor < buffer_size)
    BY <1>1 DEF IInv, CallInv, BodyInv
  <2>2. ~large' => cursor' = 0 \/ cursor' < 2 * buffer_size
    BY <1>1, <1>2, <1>3, <1>4, <2>1
  <2>3. Got' = pos' + cursor'
    <3>1. pos + cursor + g = pos + (cursor + g)
      BY <1>2, <1>3
    <3> QED BY <1>1, <1>4, <1>5, <3>1
  <2>4. cursor' + buffer_size <= shown'
    BY <1>2, <1>3, <1>4
  <2> QED BY <1>1, <1>4, <2>2, <2>3, <2>4 DEF BodyInv
<1>9. ReserveInv'
  BY <1>1, <1>4 DEF ReserveInv
<1> QED BY <1>5, <1>6, <1>7, <1>8, <1>9 DEF IInv

(* Unless more than buffer_size bytes were asked for in one read, the      *)
(* second data() is for no more than the first, and shows the same:        *)
(* assert_eq!(data.len(), data_len) holds and nothing overflows.           *)
LEMMA CopyStep ==
  ASSUME IInv, Copy
  PROVE  IInv'
<1> DEFINE again == 2 * buffer_size - cursor
           amount == again % Word
<1>1. /\ at = "copy" /\ ~reserve.some
      /\ UNCHANGED <<Source, pos, reserve, caller, History>>
  BY DEF Copy, IInv, ReserveInv
<1>2. ~large => again \in Nat /\ again > 0 /\ amount = again
  <2> SUFFICES ASSUME ~large PROVE again \in Nat /\ again > 0 /\ amount = again
    OBVIOUS
  <2>1. cursor < buffer_size /\ cursor \in Nat
    <3>1. cursor \in Nat /\ caller > 0 /\ caller <= buffer_size /\ caller \in Int
      BY <1>1 DEF IInv, CallInv, Types
    <3>2. cursor = 0 \/ cursor < buffer_size
      BY <1>1 DEF IInv, BodyInv
    <3> QED BY <3>1, <3>2, SizeAssumption
  <2>2. again \in Nat /\ again > 0 /\ again < Word /\ Word \in Nat /\ Word > 0
    BY <2>1, SizeAssumption
  <2> HIDE DEF again
  <2>3. again % Word = again
    BY <2>2
  <2> QED BY <2>2, <2>3
<1>3. CASE again < 0 /\ Panic /\ UNCHANGED <<shown, cursor, handed>>
  <2>1. large \in BOOLEAN /\ again \in Int
    BY SizeAssumption DEF IInv, Types
  <2>2. large
    BY <1>2, <1>3, <2>1
  <2> QED BY <1>1, <1>3, <2>2, CopyPanic
<1>4. CASE Fail /\ UNCHANGED <<shown, cursor, handed>>
  BY <1>1, <1>4, FailStep DEF History
<1>5. ASSUME NEW n \in Data(amount), n # shown, Panic,
             UNCHANGED <<shown, cursor, handed>>
      PROVE  IInv'
  <2>1. ASSUME ~large PROVE FALSE
    <3>1. amount \in Nat /\ amount # 0 /\ amount <= 2 * buffer_size
      <4>1. cursor \in Nat
        BY DEF IInv, Types
      <4> QED BY <1>2, <2>1, <4>1, SizeAssumption
    <3> HIDE DEF amount
    <3>3. /\ n \in Nat /\ shown <= n /\ n <= avail - pos
          /\ amount <= shown => n = shown
      BY <3>1, DataShows DEF IInv
    <3>4. shown >= 2 * buffer_size \/ shown = avail - pos
      BY <1>1 DEF IInv, BodyInv
    <3>5. shown \in Nat /\ avail \in Nat /\ pos \in Nat
      BY DEF IInv, Types
    <3> QED BY <1>5, <3>1, <3>3, <3>4, <3>5, SizeAssumption
  <2>2. large
    BY <2>1 DEF IInv, Types
  <2> QED BY <1>1, <1>5, <2>2, CopyPanic
<1>6. CASE /\ handed' = handed \o Bytes(pos + cursor + 1, pos + cursor + Give(caller))
           /\ cursor' = cursor + Give(caller)
           /\ Return("ok") /\ UNCHANGED shown
  BY <1>1, <1>6, CopyGives
<1> QED BY <1>3, <1>4, <1>5, <1>6 DEF Copy

(* How finish_maybe() and verify_signatures() return. *)
LEMMA GoOnStep ==
  ASSUME GoOn
  PROVE  /\ UNCHANGED <<oppr, failed>>
         /\ \/ caller = New /\ at' = "idle" /\ reply' = "ok"
            \/ caller # New /\ at' = "read_helper" /\ reply' = reply
BY DEF GoOn, Return, Goto

(* finish_maybe() stashes what is beyond the cursor, or leaves the buffer  *)
(* as it is.                                                               *)
LEMMA FinishMaybeStep ==
  ASSUME IInv, FinishMaybe
  PROVE  IInv'
<1> DEFINE amount == buffer_size + 1
<1>1. /\ at = "finish_maybe" /\ amount \in Nat /\ ~reserve.some /\ buffer_size \in Nat
      /\ UNCHANGED <<length, avail, tail, caller, handed, Got, checks, verified, large>>
  BY SizeAssumption DEF FinishMaybe, IInv, ReserveInv, Source, History, Got
<1>2. /\ Types /\ Got = pos + cursor /\ Got \in Nat /\ oppr /\ ~failed
      /\ ~verified /\ checks = 0 /\ reply # "end" /\ caller # 0 /\ handed = Bytes(1, Got)
      /\ Got = 0 \/ cursor + buffer_size <= shown
  BY <1>1, GotNat DEF IInv, CallInv, BodyInv
<1>3. /\ pos \in Nat /\ cursor \in Nat /\ shown \in Nat /\ avail \in Nat
      /\ shown <= avail - pos /\ cursor <= shown
  BY <1>1, <1>2 DEF Types
<1>4. CASE Fail /\ UNCHANGED <<pos, shown, cursor, reserve>>
  BY <1>1, <1>4, FailStep DEF Source
<1>5. ASSUME NEW n \in Data(amount), shown' = n, n - cursor > buffer_size, GoOn,
             UNCHANGED <<pos, cursor, reserve>>
      PROVE  IInv'
  <2>1. n \in Nat /\ shown <= n /\ n <= avail - pos
    BY <1>1, <1>2, DataShows
  <2>2. Types'
    <3>1. shown' \in Nat /\ shown' <= avail - pos /\ cursor <= shown'
      BY <1>3, <1>5, <2>1
    <3>2. /\ at' \in {"idle", "read_helper"} /\ reply' \in {"ok", reply}
          /\ UNCHANGED <<oppr, failed>>
      BY <1>5, GoOnStep
    <3>3. pos' \in 0 .. avail' /\ shown' \in 0 .. avail' - pos'
      BY <1>1, <1>2, <1>3, <1>5, <3>1 DEF Types
    <3> QED BY <1>1, <1>2, <1>5, <3>2, <3>3 DEF Types
  <2>3. CallInv'
    <3>1. caller # New => caller > 0
      BY <1>2 DEF Types, New
    <3> QED BY <1>1, <1>5, <3>1, GoOnStep DEF IInv, CallInv
  <2>4. BodyInv'
    <3>1. Got' = 0 \/ cursor' + buffer_size <= shown'
      BY <1>1, <1>2, <1>3, <1>5, <2>1
    <3> QED BY <1>1, <1>2, <1>5, <3>1, GoOnStep DEF IInv, BodyInv
  <2>5. ReserveInv'
    BY <1>1, <1>5 DEF ReserveInv
  <2> QED BY <1>1, <1>2, <2>2, <2>3, <2>4, <2>5 DEF IInv
<1>6. CASE /\ reserve' = [some |-> TRUE, bytes |-> Bytes(pos + cursor + 1, avail)]
           /\ pos' = avail /\ shown' = 0 /\ cursor' = 0
           /\ oppr' = FALSE /\ at' = "rest"
           /\ UNCHANGED <<reply, failed>>
  <2>1. Got <= avail /\ (Got = 0 \/ Got + buffer_size <= avail)
    BY <1>1, <1>2, <1>3
  <2>2. reserve'.some /\ reserve'.bytes = Bytes(Got + 1, avail)
    BY <1>2, <1>6
  <2>3. Bytes(Got + 1, avail) \in Seq(Nat)
    <3>1. Got + 1 \in Nat /\ Got + 1 > 0 /\ avail + 1 >= Got + 1
      BY <1>2, <1>3, <2>1
    <3> QED BY <1>3, <3>1, BytesSeq
  <2>4. reserve' \in [some : BOOLEAN, bytes : Seq(Nat)]
    <3>1. pos + cursor + 1 = Got + 1
      BY <1>2
    <3> QED BY <1>6, <2>3, <3>1
  <2>5. Types'
    <3>1. pos' \in 0 .. avail' /\ shown' \in 0 .. avail' - pos' /\ cursor' \in Nat
      BY <1>1, <1>3, <1>6
    <3> QED BY <1>1, <1>2, <1>6, <2>4, <3>1 DEF Types
  <2>6. CallInv'
    BY <1>1, <1>2, <1>6 DEF IInv, CallInv
  <2>7. BodyInv'
    BY <2>2 DEF BodyInv
  <2>8. ReserveInv'
    <3>1. Got' - cursor' + 1 = Got + 1
      BY <1>1, <1>2, <1>6
    <3>2. reserve'.bytes = Bytes(Got' - cursor' + 1, avail')
      BY <1>1, <2>2, <3>1
    <3> QED BY <1>1, <1>2, <1>6, <2>1, <3>2 DEF ReserveInv
  <2> QED BY <1>1, <1>2, <2>5, <2>6, <2>7, <2>8 DEF IInv
<1>7. \A n \in Data(amount) : n \in Nat
  BY <1>1, <1>2, DataShows
<1>8. \A n \in Data(amount) : ~(n - cursor <= buffer_size) => n - cursor > buffer_size
  BY <1>1, <1>3, <1>7
<1> QED BY <1>4, <1>5, <1>6, <1>8 DEF FinishMaybe

(* Only a message whose remaining packets are in order gets to             *)
(* verify_signatures().                                                    *)
LEMMA RestStep ==
  ASSUME IInv, Rest
  PROVE  IInv'
<1>1. CASE tail = "bad"
  BY <1>1, FailStep DEF Rest, Source, History
<1>2. CASE tail # "bad"
  <2>1. /\ at = "rest" /\ at' = "verify_signatures" /\ tail = "good"
        /\ UNCHANGED <<length, avail, tail, oppr, pos, shown, cursor, reserve, caller,
                       handed, Got, reply, checks, verified, failed, large>>
    BY <1>2 DEF Rest, Goto, Source, History, IInv, Types, Got
  <2>2. Types' /\ CallInv'
    BY <2>1 DEF IInv, Types, CallInv
  <2>3. BodyInv'
    BY <2>1 DEF IInv, BodyInv
  <2>4. ReserveInv'
    BY <2>1 DEF IInv, ReserveInv
  <2> QED BY <2>1, <2>2, <2>3, <2>4 DEF IInv
<1> QED BY <1>1, <1>2

(* verify_signatures() runs once: check() was not called before. *)
LEMMA VerifySignaturesStep ==
  ASSUME IInv, VerifySignatures
  PROVE  IInv'
<1>1. /\ at = "verify_signatures" /\ reserve.some
      /\ UNCHANGED <<Source, pos, shown, cursor, reserve, caller, handed, large>>
  BY DEF VerifySignatures, IInv, BodyInv
<1>2. CASE Fail /\ checks' \in {checks, checks + 1} /\ UNCHANGED verified
  BY <1>1, <1>2, FailStep
<1>3. CASE GoOn /\ checks' = checks + 1 /\ verified' = TRUE
  <2>1. UNCHANGED <<length, avail, tail, Got>> /\ checks = 0 /\ tail = "good" /\ reply # "end"
    BY <1>1 DEF IInv, ReserveInv, Source, Got
  <2>2. Types'
    BY <1>1, <1>3, <2>1, GoOnStep DEF IInv, Types
  <2>3. CallInv'
    <3>1. caller # New => caller > 0
      BY <1>1 DEF IInv, CallInv, Types, New
    <3> QED BY <1>1, <1>3, <3>1, GoOnStep DEF IInv, CallInv
  <2>4. BodyInv'
    BY <1>1 DEF BodyInv
  <2>5. ReserveInv'
    BY <1>1, <1>3, <2>1, GoOnStep DEF IInv, ReserveInv
  <2> QED BY <1>1, <2>1, <2>2, <2>3, <2>4, <2>5 DEF IInv
<1> QED BY <1>2, <1>3 DEF VerifySignatures

(* A step that changes nothing. *)
LEMMA StutterStep ==
  ASSUME IInv, UNCHANGED vars
  PROVE  IInv'
<1>1. UNCHANGED <<length, avail, tail, oppr, pos, shown, cursor, reserve, at, caller,
                  handed, Got, reply, checks, verified, failed, large>>
  BY DEF vars, Got
<1>2. Types' /\ CallInv'
  BY <1>1 DEF IInv, Types, CallInv
<1>3. BodyInv' /\ ReserveInv'
  BY <1>1 DEF IInv, BodyInv, ReserveInv
<1> QED BY <1>1, <1>2, <1>3 DEF IInv

(* Every step of every call keeps the invariant. *)
LEMMA NextIInv == IInv /\ [Next]_vars => IInv'
BY ReadStep, DrainStep, NoParserStep, ReadHelperStep, RequestStep, CopyStep,
   FinishMaybeStep, RestStep, VerifySignaturesStep, StutterStep DEF Next, Step

(* So it holds always. *)
LEMMA Invariant == Spec => []IInv
BY InitIInv, NextIInv, PTL DEF Spec

-----------------------------------------------------------------------------
(* The invariant implies the types and the assertions of read_helper()     *)
(* about the cursor.                                                       *)
LEMMA TypesImplied == IInv => TypeOK
<1> SUFFICES ASSUME IInv PROVE TypeOK
  OBVIOUS
<1>1. Types /\ Got \in Nat
  BY GotNat DEF IInv
<1>2. ASSUME reserve.some PROVE ~oppr /\ cursor \in 0 .. Len(reserve.bytes)
  <2> DEFINE lo == Got - cursor + 1
  <2>1. /\ ~oppr /\ cursor <= Got /\ Got <= avail /\ reserve.bytes = Bytes(lo, avail)
        /\ cursor \in Nat /\ avail \in Nat
    BY <1>1, <1>2 DEF IInv, ReserveInv, Types
  <2>2. lo \in Nat /\ lo > 0 /\ avail + 1 >= lo /\ avail + 1 - lo >= cursor
    BY <1>1, <2>1
  <2> HIDE DEF lo
  <2>3. Len(reserve.bytes) = avail + 1 - lo
    BY <2>1, <2>2, BytesSeq
  <2> QED BY <2>1, <2>2, <2>3
<1>3. ASSUME oppr PROVE cursor \in 0 .. shown
  <2>1. ~reserve.some
    BY <1>2, <1>3
  <2> QED BY <1>1, <2>1, SizeAssumption DEF IInv, BodyInv, Types
<1> QED BY <1>1, <1>2, <1>3 DEF Types, TypeOK, Left, New

(* For every length of the body, buffer size and sequence of reads,        *)
(* read_helper() hands out nothing of the last buffer_size bytes before    *)
(* check() has approved, and of a truncated body nothing of the last       *)
(* buffer_size bytes there are.                                            *)
THEOREM HoldsBack == Spec => []HeldBack
<1>1. IInv => HeldBack
  <2> SUFFICES ASSUME IInv, ~failed, ~verified
               PROVE  Len(handed) <= Max({0, avail - buffer_size})
    <3> SUFFICES ASSUME IInv PROVE HeldBack
      OBVIOUS
    <3>1. Len(handed) \in Nat /\ avail - buffer_size \in Int
      BY GotNat, SizeAssumption DEF IInv, Types, Got
    <3>2. Max({0, avail - buffer_size}) \in Int
      BY <3>1, MaxOfTwo
    <3>3. verified \in BOOLEAN /\ failed \in BOOLEAN
      BY DEF IInv, Types
    <3> QED BY <3>1, <3>2, <3>3 DEF HeldBack
  <2>1. Got \in Nat /\ avail \in Nat /\ buffer_size \in Nat /\ pos \in Nat
        /\ shown \in Nat /\ cursor \in Nat /\ shown <= avail - pos
    BY GotNat, SizeAssumption DEF IInv, Types
  <2>2. Got = 0 \/ Got + buffer_size <= avail
    <3>1. CASE reserve.some
      BY <3>1 DEF IInv, ReserveInv
    <3>2. CASE ~reserve.some
      BY <2>1, <3>2 DEF IInv, BodyInv
    <3> QED BY <3>1, <3>2
  <2>3. Max({0, avail - buffer_size}) =
          IF 0 >= avail - buffer_size THEN 0 ELSE avail - buffer_size
    BY <2>1, MaxOfTwo
  <2> QED BY <2>1, <2>2, <2>3 DEF Got
<1> QED BY <1>1, Invariant, PTL

(* What read() delivers is the body in order and without a gap, across the *)
(* change from the packet's buffer to the reserve; and if it reports the   *)
(* end without having failed, the body is complete and check() has         *)
(* approved.                                                               *)
THEOREM EndMeansVerified == Spec => []EndIsVerified
<1>1. IInv => EndIsVerified
  <2> SUFFICES ASSUME IInv PROVE EndIsVerified
    OBVIOUS
  <2>1. TypeOK
    BY TypesImplied
  <2>2. handed = Bytes(1, Len(handed))
    BY DEF IInv, Got
  <2>3. ASSUME reply = "end", ~failed PROVE verified /\ Len(handed) = length
    <3>1. reserve.some
      BY <2>3 DEF IInv, BodyInv
    <3>2. verified /\ tail = "good" /\ Got = avail
      BY <2>3, <3>1 DEF IInv, ReserveInv
    <3>3. avail = length
      BY <3>2 DEF IInv, Types
    <3> QED BY <3>2, <3>3 DEF Got
  <2> QED BY <2>1, <2>2, <2>3 DEF EndIsVerified
<1> QED BY <1>1, Invariant, PTL

(* VerificationHelper::check() is called at most once, and                 *)
(* message_processed() means that it has approved, unless a call has       *)
(* failed.                                                                 *)
THEOREM ChecksOnce == Spec => []CheckedOnce
<1>1. IInv => CheckedOnce
  <2> SUFFICES ASSUME IInv PROVE CheckedOnce
    OBVIOUS
  <2>1. CASE reserve.some
    BY <2>1 DEF IInv, ReserveInv, CheckedOnce
  <2>2. CASE ~reserve.some
    BY <2>2 DEF IInv, BodyInv, CheckedOnce
  <2> QED BY <2>1, <2>2
<1> QED BY <1>1, Invariant, PTL

(* read_helper() panics only after an error, or after a read of more than  *)
(* buffer_size bytes.                                                      *)
THEOREM NeverPanics == Spec => []NoPanic
<1>1. IInv => NoPanic
  BY DEF IInv, CallInv, NoPanic
<1> QED BY <1>1, Invariant, PTL
=============================================================================
