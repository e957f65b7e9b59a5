----------------------------- MODULE ByteStream -----------------------------
(***************************************************************************)
(* What the trait BufferedReader (buffered-reader/src/lib.rs) promises its *)
(* caller, as an abstract specification that the readers are shown to      *)
(* implement: a reader is a sequence of bytes and a position in it.  The   *)
(* caller is shown bytes that follow the position, consumes some of what   *)
(* it has been shown, and what it has been shown stays until then.  A call *)
(* that fails consumes nothing and takes nothing back.                     *)
(***************************************************************************)
EXTENDS Integers, Sequences, SequencesExt

CONSTANT
  Eager     \* the reader breaks the promise on the order of errors

VARIABLES
  content,  \* the bytes that the reader has to give
  out,      \* the bytes that the caller has consumed
  shown,    \* how many of the following bytes the caller may consume
  fault,    \* a failure of the reader below is yet to be reported
  reply     \* the amount asked for, whether all of it is needed, whether the
            \* call failed, and the data

streamVars == <<content, out, shown, fault, reply>>

(* The bytes from the position on. *)
Ahead == SubSeq(content, Len(out) + 1, Len(content))

(* The reader is created over what it is to read. *)
Create ==
  /\ out = <<>> /\ out' = out
  /\ shown = 0 /\ shown' = 0
  /\ UNCHANGED <<fault, reply>>

(* data() and what is derived from it: n bytes of the data are consumed,   *)
(* none or as many of the amount as there are.  The data are the bytes     *)
(* ahead, at least the amount unless they end before or a failure is       *)
(* waiting behind them.                                                    *)
Answer(n) ==
  /\ ~reply'.err
  /\ IsPrefix(reply'.data, Ahead)
  /\ \/ Len(reply'.data) >= reply'.amount
     \/ reply'.data = Ahead
     \/ fault'
  /\ n <= Len(reply'.data)
  /\ out' = out \o SubSeq(Ahead, 1, n)
  /\ shown' + n >= shown /\ shown' + n <= Len(Ahead)
  /\ UNCHANGED content

(* The call fails, which it may only do if it has to read on, as it is     *)
(* asked for more than is shown or nothing is, or if a failure is waiting. *)
(* Unless all of the amount is needed, "errors are returned only when the  *)
(* internal buffer is empty" (data()): a reader that is Eager breaks that. *)
Fail ==
  /\ reply'.err
  /\ reply'.amount > shown \/ shown = 0 \/ fault
  /\ reply'.hard \/ shown' = 0 \/ Eager
  /\ shown' >= shown /\ shown' <= Len(Ahead)
  /\ UNCHANGED <<content, out>>

(* What a call leaves that asks for no data and returns none. *)
Silent == reply'.amount = 0 /\ ~reply'.err /\ reply'.data = <<>>

(* consume(): of what has been shown, and nothing else. *)
Consume(n) ==
  /\ n <= shown /\ Silent
  /\ out' = out \o SubSeq(Ahead, 1, n)
  /\ shown' = shown - n
  /\ UNCHANGED <<content, fault>>

(* Dup::rewind(): what has been consumed is shown again. *)
Rewind ==
  /\ out # <<>> /\ out' = <<>> /\ Silent
  /\ shown' = shown + Len(out)
  /\ UNCHANGED <<content, fault>>

Init ==
  /\ out = <<>>
  /\ shown = 0
  /\ ~fault

Next ==
  \/ Create
  \/ \E n \in 0 .. Len(Ahead) : Answer(n) \/ Consume(n)
  \/ Fail
  \/ Rewind

Spec == Init /\ [][Next]_streamVars
=============================================================================
