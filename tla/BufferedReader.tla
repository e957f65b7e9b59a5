--------------------------- MODULE BufferedReader ---------------------------
(***************************************************************************)
(* The buffered-reader crate: the reader Generic, which buffers an         *)
(* io::Read, and on top of it none or one of the readers Limitor, Reserve  *)
(* and Dup, with the operations that the trait BufferedReader derives from *)
(* data() and consume().                                                   *)
(*                                                                         *)
(* The source is a stream of Length bytes; byte k of it is the number k,   *)
(* so that a lost, repeated or misplaced byte shows.  It may return any    *)
(* number of bytes, and it may fail MaxErrors times.  A read that was      *)
(* interrupted is repeated at once and is not visible.                     *)
(*                                                                         *)
(* A reader belongs to one caller, so an operation is one action, except   *)
(* for the operations that loop: those take one action for each round.     *)
(***************************************************************************)
EXTENDS Integers, Sequences, FiniteSetsExt

CONSTANTS
  Length,      \* how many bytes the source has
  MaxErrors,   \* bound: how often the source fails
  MaxAmount,   \* bound: the largest amount a caller asks for
  Extra,       \* how much more than the amount a new buffer has room for
  BufSize,     \* default_buf_size(), and the 128 of read_to()
  Kinds,       \* readers on top: "generic" is none
  Params,      \* limits, or sizes of the reserve
  Terminals    \* the bytes of the source that are terminals

ASSUME SizeAssumption ==
  /\ {Length, MaxErrors, MaxAmount} \subseteq Nat
  /\ Extra \in Nat /\ BufSize \in Nat \ {0}
  /\ Params \subseteq Nat /\ Terminals \subseteq 1 .. Length

ASSUME KindAssumption ==
  Kinds \subseteq {"generic", "limitor", "reserve", "dup"}

VARIABLES
  kind,   \* the reader on top
  param,  \* the limit or the reserve that it was created with
  g,      \* Generic: its buffer and cursor, eof and stashed error, and how far
          \* the source has been read and how often it has failed
  top,    \* Limitor: what is left of the limit; Dup: its cursor
  op,     \* the operation that loops, and the size it asks for next
  out,    \* the bytes that the caller has consumed
  last    \* what the last operation was and what it returned

(* History variables: how many errors of the source have been returned to  *)
(* the caller, and how many eof() has taken for the end.                   *)
VARIABLES reported, mistaken

vars == <<kind, param, g, top, op, out, last, reported, mistaken>>

Source(i, j) == [k \in 1 .. j - i + 1 |-> i + k - 1]
Prefix(s, n) == SubSeq(s, 1, Min({n, Len(s)}))
Drop(s, n) == SubSeq(s, n + 1, Len(s))

-----------------------------------------------------------------------------
(* Generic. *)

Rest(r) == Drop(r.buf, r.cursor)

(* n bytes were read: they are appended to what was buffered, in a new     *)
(* buffer.                                                                 *)
Filled(r, n) ==
  [r EXCEPT !.buf = IF n = 0 THEN @ ELSE Rest(r) \o Source(r.pos + 1, r.pos + n),
            !.cursor = IF n = 0 THEN @ ELSE 0,
            !.pos = @ + n]

(* Mutant of Fill: one read is enough. *)
FillOnce(r, amount) ==
  LET have == Len(Rest(r))
      left == Length - r.pos
      room == amount + Extra - have
  IN  IF amount <= have \/ r.eof \/ r.error THEN {r}
      ELSE IF left = 0 THEN {[r EXCEPT !.eof = TRUE]}
      ELSE {Filled(r, n) : n \in 1 .. Min({left, room})}

(* The states in which the loop that reads until amount bytes are buffered *)
(* can end: with enough, at the end of the source, or with an error that   *)
(* is stashed.                                                             *)
Fill(r, amount) ==
  LET have == Len(Rest(r))
      left == Length - r.pos
      room == amount + Extra - have
      enough == {n \in 0 .. left : have + n >= amount /\ n <= room}
      short == {n \in 0 .. left : have + n < amount}
  IN  IF amount <= have \/ r.eof \/ r.error THEN {r}
      ELSE      {Filled(r, n) : n \in enough}
           \cup {[Filled(r, n) EXCEPT !.eof = TRUE] : n \in short \cap {left}}
           \cup {[Filled(r, n) EXCEPT !.error = TRUE, !.fails = @ + 1] :
                   n \in {n \in short : r.fails < MaxErrors}}

(* What an operation returns: the reader after it, its error or "none",    *)
(* the data, and how much of the data is consumed.                         *)
Result(r, t, err, data, took) ==
  [g |-> r, top |-> t, err |-> err, data |-> data, took |-> took]

(* Mutant of GenericHelper: an error overtakes the data. *)
GenericHelperErrorFirst(r, t, amount, hard) ==
  {LET have == Len(Rest(f))
   IN  IF f.error THEN Result([f EXCEPT !.error = FALSE], t, "io", <<>>, 0)
       ELSE IF hard /\ have < amount THEN Result(f, t, "eof", <<>>, 0)
       ELSE Result(f, t, "none", IF amount = 0 THEN <<>> ELSE Rest(f), 0)
   : f \in Fill(r, amount)}

(* data_helper: a stashed error is reported, and forgotten, when there is  *)
(* nothing else to return.                                                 *)
GenericHelper(r, t, amount, hard) ==
  {LET have == Len(Rest(f))
       fails == f.error /\ (IF hard THEN amount > have ELSE have = 0)
   IN  IF fails THEN Result([f EXCEPT !.error = FALSE], t, "io", <<>>, 0)
       ELSE IF hard /\ have < amount THEN Result(f, t, "eof", <<>>, 0)
       ELSE Result(f, t, "none", IF amount = 0 THEN <<>> ELSE Rest(f), 0)
   : f \in Fill(r, amount)}

GenericData(amount) == GenericHelper(g, top, amount, FALSE)

(* and_consume: the cursor moves over what is returned. *)
Take(res, amount) ==
  LET n == Min({amount, Len(res.data)})
  IN  [res EXCEPT !.g.cursor = @ + n, !.took = n]

-----------------------------------------------------------------------------
(* The readers on top. *)

(* buffer() *)
Buffer(r, t) ==
  CASE kind = "generic" -> Rest(r)
    [] kind = "limitor" -> Prefix(Rest(r), t)
    [] kind = "reserve" -> Prefix(Rest(r), Len(Rest(r)) - param)
    [] kind = "dup"     -> Drop(Rest(r), t)

(* data() *)
Data(amount) ==
  CASE kind = "generic" -> GenericData(amount)
    [] kind = "limitor" ->
         {[res EXCEPT !.data = Prefix(@, top)] : res \in GenericData(Min({amount, top}))}
    [] kind = "reserve" ->
         {[res EXCEPT !.data = Prefix(@, Len(@) - param)] :
            res \in GenericData(amount + param)}
    [] kind = "dup" ->
         {[res EXCEPT !.data = Drop(@, top)] : res \in GenericData(top + amount)}

(* data_hard(): Generic has its own, the others derive it from data(). *)
DataHard(amount) ==
  IF kind = "generic" THEN GenericHelper(g, top, amount, TRUE)
  ELSE {IF res.err = "none" /\ Len(res.data) < amount
        THEN [res EXCEPT !.err = "eof", !.data = <<>>] ELSE res : res \in Data(amount)}

(* consume(): the Limitor counts, the Dup only moves its own cursor. *)
Consumed(res, n) ==
  CASE kind \in {"generic", "reserve"} ->
         [res EXCEPT !.g.cursor = @ + n, !.took = n]
    [] kind = "limitor" ->
         [res EXCEPT !.g.cursor = @ + n, !.top = @ - n, !.took = n]
    [] kind = "dup" -> [res EXCEPT !.top = @ + n, !.took = n]

(* data_consume() *)
DataConsume(amount) ==
  CASE kind = "generic" -> {Take(res, amount) : res \in GenericData(amount)}
    [] kind = "limitor" ->
         LET asked == Min({amount, top})
         IN  {LET n == Min({asked, Len(res.data)})
              IN  [Take(res, asked) EXCEPT !.top = @ - n, !.data = Prefix(@, top)]
              : res \in GenericData(asked)}
    [] OTHER -> {IF res.err # "none" THEN res
                 ELSE Consumed(res, Min({amount, Len(res.data)})) : res \in Data(amount)}

(* data_consume_hard() *)
DataConsumeHard(amount) ==
  CASE kind = "generic" ->
         {IF res.err = "none" THEN Take(res, amount) ELSE res : res \in DataHard(amount)}
    [] kind = "limitor" ->
         IF amount > top THEN {Result(g, top, "eof", <<>>, 0)}
         ELSE {IF res.err # "none" THEN res
               ELSE [Take(res, amount) EXCEPT !.top = @ - Min({amount, Len(res.data)}),
                                              !.data = Prefix(@, top)]
               : res \in GenericHelper(g, top, amount, TRUE)}
    [] kind = "dup" ->
         {IF res.err # "none" THEN res
          ELSE Consumed([res EXCEPT !.data = Drop(@, top)], amount)
          : res \in GenericHelper(g, top, top + amount, TRUE)}
    [] kind = "reserve" ->
         {IF res.err # "none" THEN res ELSE Consumed(res, amount) : res \in DataHard(amount)}

-----------------------------------------------------------------------------
(* The caller's operations. *)

Amounts == 0 .. MaxAmount
Idle == op.name = "idle"

Apply(res, name, amount) ==
  /\ g' = res.g
  /\ top' = res.top
  /\ out' = out \o Prefix(res.data, res.took)
  /\ last' = [name |-> name, amount |-> amount, err |-> res.err, data |-> res.data]
  /\ reported' = IF res.err = "io" THEN reported + 1 ELSE reported
  /\ UNCHANGED <<kind, param, mistaken>>

(* data(), data_hard(), data_consume() (which read() is) and               *)
(* data_consume_hard() (which steal() and read_be_u16() are).              *)
CallData(amount) ==
  /\ Idle /\ \E res \in Data(amount) : Apply(res, "data", amount)
  /\ UNCHANGED op

CallDataHard(amount) ==
  /\ Idle /\ \E res \in DataHard(amount) : Apply(res, "data_hard", amount)
  /\ UNCHANGED op

CallDataConsume(amount) ==
  /\ Idle /\ \E res \in DataConsume(amount) : Apply(res, "data_consume", amount)
  /\ UNCHANGED op

CallDataConsumeHard(amount) ==
  /\ Idle
  /\ \E res \in DataConsumeHard(amount) : Apply(res, "data_consume_hard", amount)
  /\ UNCHANGED op

(* consume() of data that data() has returned. *)
CallConsume(amount) ==
  /\ Idle
  /\ amount <= Len(Buffer(g, top))
  /\ Apply(Consumed(Result(g, top, "none", Buffer(g, top), 0), amount),
           "consume", amount)
  /\ UNCHANGED op

(* eof(): any error of data_hard(1) means yes. *)
CallEof ==
  /\ Idle
  /\ \E res \in DataHard(1) :
       /\ g' = res.g /\ top' = res.top
       /\ last' = [name |-> IF res.err = "none" THEN "not_eof" ELSE "eof",
                   amount |-> 1, err |-> "none", data |-> <<>>]
       /\ mistaken' = IF res.err = "io" THEN mistaken + 1 ELSE mistaken
  /\ UNCHANGED <<kind, param, op, out, reported>>

(* Dup::rewind() *)
Rewind ==
  /\ Idle /\ kind = "dup"
  /\ top' = 0 /\ out' = <<>>
  /\ last' = [name |-> "rewind", amount |-> 0, err |-> "none", data |-> <<>>]
  /\ UNCHANGED <<kind, param, g, op, reported, mistaken>>

(* data_eof(), drop_eof(), copy(), read_to() and drop_until() begin. *)
Begin(name) ==
  /\ Idle
  /\ op' = [name |-> name, size |-> BufSize]
  /\ UNCHANGED <<kind, param, g, top, out, last, reported, mistaken>>

Finish(res, err) ==
  /\ op' = [name |-> "idle", size |-> 0]
  /\ Apply([res EXCEPT !.err = err], op.name, op.size)

(* Mutant of DataEof: the size is not increased. *)
DataEofSameSize ==
  /\ op.name = "data_eof"
  /\ \E res \in Data(op.size) :
       IF res.err # "none" \/ Len(res.data) < op.size
       THEN Finish(res, res.err)
       ELSE Apply(res, "more", op.size) /\ UNCHANGED op

(* data_eof(): ask for more and more, until less than that is returned. *)
DataEof ==
  /\ op.name = "data_eof"
  /\ \E res \in Data(op.size) :
       IF res.err # "none" \/ Len(res.data) < op.size
       THEN Finish(res, res.err)
       ELSE Apply(res, "more", op.size) /\ op' = [op EXCEPT !.size = 2 * @]

(* Mutant of DropEof: a full buffer is taken for the last one. *)
DropEofStopsEarly ==
  /\ op.name = "drop_eof"
  /\ \E res \in Data(op.size) :
       IF res.err # "none" THEN Finish(res, res.err)
       ELSE IF Len(res.data) <= op.size THEN Finish(Consumed(res, Len(res.data)), "none")
       ELSE Apply(Consumed(res, Len(res.data)), "more", op.size) /\ UNCHANGED op

(* drop_eof() and copy(): consume buffer after buffer, until one is short. *)
DropEof ==
  /\ op.name = "drop_eof"
  /\ \E res \in Data(op.size) :
       IF res.err # "none" THEN Finish(res, res.err)
       ELSE IF Len(res.data) < op.size THEN Finish(Consumed(res, Len(res.data)), "none")
       ELSE Apply(Consumed(res, Len(res.data)), "more", op.size) /\ UNCHANGED op

HasTerminal(data) == \E i \in 1 .. Len(data) : data[i] \in Terminals
FirstTerminal(data) ==
  CHOOSE i \in 1 .. Len(data) :
    data[i] \in Terminals /\ \A j \in 1 .. i - 1 : data[j] \notin Terminals

(* read_to(): return what precedes the terminal and the terminal, or the   *)
(* rest if there is none.  Nothing is consumed.                            *)
ReadTo ==
  /\ op.name = "read_to"
  /\ \E res \in Data(op.size) :
       IF res.err # "none" THEN Finish(res, res.err)
       ELSE IF HasTerminal(res.data)
            THEN Finish([res EXCEPT !.data = Prefix(@, FirstTerminal(@))], "none")
       ELSE IF Len(res.data) < op.size THEN Finish(res, "none")
       ELSE /\ Apply(res, "more", op.size)
            /\ op' = [op EXCEPT !.size = Max({2 * @, Len(res.data) + 1})]

(* drop_until(): look at what is buffered, or at new data if nothing is;   *)
(* discard it as long as it has no terminal.                               *)
DropUntil ==
  /\ op.name = "drop_until"
  /\ \E res \in IF Buffer(g, top) = <<>> THEN Data(BufSize)
                ELSE {Result(g, top, "none", Buffer(g, top), 0)} :
       IF res.err # "none" \/ res.data = <<>> THEN Finish(res, res.err)
       ELSE IF HasTerminal(res.data)
            THEN Finish(Consumed(res, FirstTerminal(res.data) - 1), "none")
       ELSE Apply(Consumed(res, Len(res.data)), "drop_until", BufSize) /\ UNCHANGED op

Init ==
  /\ kind \in Kinds /\ param \in Params
  /\ g = [buf |-> <<>>, cursor |-> 0, eof |-> FALSE, error |-> FALSE,
          pos |-> 0, fails |-> 0]
  /\ top = IF kind = "limitor" THEN param ELSE 0
  /\ op = [name |-> "idle", size |-> 0]
  /\ out = <<>>
  /\ last = [name |-> "new", amount |-> 0, err |-> "none", data |-> <<>>]
  /\ reported = 0 /\ mistaken = 0

Loops == {"data_eof", "drop_eof", "read_to", "drop_until"}

Loop == DataEof \/ DropEof \/ ReadTo \/ DropUntil

Next ==
  \/ \E amount \in Amounts :
       \/ CallData(amount) \/ CallDataHard(amount) \/ CallConsume(amount)
       \/ CallDataConsume(amount) \/ CallDataConsumeHard(amount)
  \/ CallEof \/ Rewind
  \/ \E name \in Loops : Begin(name)
  \/ Loop

(* An operation that has begun runs on. *)
Spec == Init /\ [][Next]_vars /\ WF_vars(Loop)

-----------------------------------------------------------------------------
(* Types, and the assertions of data_helper (the cursor is in the buffer), *)
(* of Limitor (the limit is not overrun) and of Dup (what it has read is   *)
(* still buffered).                                                        *)
TypeOK ==
  /\ kind \in Kinds /\ param \in Params
  /\ g.pos \in 0 .. Length /\ g.fails \in 0 .. MaxErrors
  /\ g.buf \in Seq(1 .. Length) /\ g.cursor \in 0 .. Len(g.buf)
  /\ top \in Nat
  /\ kind = "dup" => top <= Len(Rest(g))
  /\ op.name \in Loops \cup {"idle"} /\ op.size \in Nat
  /\ out \in Seq(1 .. Length)

(* Once the source is at its end, drop_eof() has discarded all there was.  *)
DropEofDropsAll ==
  last.name = "drop_eof" /\ last.err = "none" /\ g.fails = 0 =>
    Len(out) = IF kind = "limitor" THEN Min({param, Length})
               ELSE IF kind = "reserve" THEN Max({0, Length - param})
               ELSE Length

(* "Errors are returned only when the internal buffer is empty": data()    *)
(* and data_consume() do not let an error overtake data (data()).          *)
ErrorsLast ==
  last.err = "io" /\ last.name \in {"data", "data_consume", "data_eof", "drop_eof"} =>
    Rest(g) = <<>>

(* No error of the source is dropped or reported twice, wherever it hit:   *)
(* it waits in the stash, was returned once, or eof() has taken it for the *)
(* end of the stream (error, error.take()).                                *)
ErrorsOnce ==
  g.fails = reported + mistaken + (IF g.error THEN 1 ELSE 0)

(* Errors neither overtake data nor get lost nor multiply (data_helper),   *)
(* and the assertions hold.                                                *)
ErrorsInOrder == TypeOK /\ ErrorsLast /\ ErrorsOnce

(* What the reader on top has to give: Limitor up to its limit, Reserve    *)
(* what precedes the reserve.                                              *)
Own ==
  CASE kind = "limitor" -> Source(1, Min({param, Length}))
    [] kind = "reserve" -> Source(1, Length - param)
    [] OTHER            -> Source(1, Length)

(* How many bytes the call has asked for: eof() asks for none, and those   *)
(* that stop at a terminal for as many as there happen to be.              *)
Asked ==
  IF last.err = "none" /\ last.name \in {"eof", "not_eof", "read_to", "drop_until"}
  THEN 0 ELSE last.amount

Hard == last.name \in {"data_hard", "data_consume_hard"}

Abstract == INSTANCE ByteStream WITH
  Eager <- FALSE,
  content <- Own,
  shown <- Len(Buffer(g, top)),
  fault <- g.error,
  reply <- [amount |-> Asked, hard |-> Hard,
            err |-> last.err # "none", data |-> last.data]

(* Every stack of readers implements the contract of the trait, however    *)
(* the source chops and fails: no byte is lost, repeated, out of order or  *)
(* beyond a bound, what was shown stays, data() is short only at the end   *)
(* or before an error, errors wait until the data before them has been     *)
(* taken, and a call that fails takes nothing.                             *)
ImplementsByteStream == Abstract!Spec

(* Each of the looping operations ends. *)
LoopsEnd == op.name # "idle" ~> op.name = "idle"

=============================================================================
