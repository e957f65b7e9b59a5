--------------------------- MODULE StreamVerifier ---------------------------
(***************************************************************************)
(* Decryptor (openpgp/src/parse/stream.rs), which is behind Verifier and   *)
(* Decryptor: from the literal data packet on, it hands out the body, but  *)
(* holds back at least the last buffer_size bytes until the packets that   *)
(* follow have been processed and VerificationHelper::check has approved   *)
(* of the signatures.                                                      *)
(*                                                                         *)
(* The body is read from the packet parser by the contract of              *)
(* BufferedReader (module ByteStream): data() shows any number of bytes    *)
(* that is at least the amount, and it is short only at the end or before  *)
(* a failure.  A body of a packet that is truncated, or of which the       *)
(* source fails, ends at avail < length.  Byte k of the body is k.         *)
(*                                                                         *)
(* A Decryptor belongs to one caller.  A call is taken in steps because    *)
(* read_helper() and finish_maybe() call each other and every step may     *)
(* fail.                                                                   *)
(***************************************************************************)
EXTENDS Integers, Sequences, FiniteSetsExt

CONSTANTS
  MaxLength,      \* bound: the longest body
  buffer_size,    \* Decryptor::buffer_size; the builders accept 0, too
  Quiet,          \* whether data(0) shows nothing although data is
                  \* buffered, as that of Generic does
  MaxRead,        \* bound: the size of the caller's buffer
  OverflowChecks, \* whether the build checks arithmetic
  Word            \* otherwise, arithmetic is modulo this

ASSUME SizeAssumption ==
  /\ MaxLength \in Nat /\ MaxRead \in Nat
  /\ buffer_size \in Nat
  /\ OverflowChecks \in BOOLEAN /\ Quiet \in BOOLEAN
  /\ Word \in Nat /\ Word > MaxLength /\ Word > 2 * buffer_size

VARIABLES
  length, avail,  \* the body, and how much of it can be read
  tail,           \* whether the packets that follow are in order
  oppr,           \* whether the Decryptor has a packet parser
  pos, shown,     \* of the literal packet's body: consumed, and buffered
  cursor,         \* Decryptor::cursor
  reserve,        \* the bytes of Decryptor::reserve, if it is some
  at,             \* what is executing: a function, or "idle" or "gone"
  caller,         \* the call that the caller has made: "new" or a size
  handed,         \* the bytes that the caller has got
  reply           \* what the last call has returned: "ok", "end", "err"...

(* History variables: how often check() was called, whether it was and has *)
(* approved, whether a call has failed, and whether a read was for more    *)
(* than buffer_size.                                                       *)
VARIABLES checks, verified, failed, large

vars == <<length, avail, tail, oppr, pos, shown, cursor, reserve, at, caller,
          handed, reply, checks, verified, failed, large>>

Source == <<length, avail, tail>>
History == <<checks, verified, large>>

None == [some |-> FALSE, bytes |-> <<>>]
Bytes(i, j) == [k \in 1 .. j - i + 1 |-> i + k - 1]

-----------------------------------------------------------------------------
New == -1

Init ==
  /\ length \in 0 .. MaxLength
  /\ avail \in 0 .. length
  /\ tail \in {"good", "bad"}
  /\ avail < length => tail = "bad"
  /\ oppr = TRUE
  /\ pos = 0 /\ shown = 0 /\ cursor = 0
  /\ reserve = None
  /\ at = "finish_maybe" /\ caller = New
  /\ handed = <<>> /\ reply = "none"
  /\ checks = 0 /\ verified = FALSE /\ failed = FALSE /\ large = FALSE

(* pp.data(amount): how much it may show, and whether it may fail.  It     *)
(* only reads on if it has to.                                             *)
Left == avail - pos
Data(amount) ==
  IF amount = 0 /\ Quiet THEN {0}
  ELSE IF amount <= shown THEN {shown}
  ELSE {n \in shown .. Left : /\ n >= Min({amount, Left})
                              /\ n >= amount \/ avail = length \/ n > 0}
Fails(amount) == avail < length /\ amount > Left

(* A call returns.  If it fails, what was taken out of oppr is gone, and a *)
(* Decryptor that is being constructed does not come into being.           *)
Return(r) ==
  /\ reply' = r
  /\ at' = "idle"
  /\ UNCHANGED <<oppr, failed>>

Fail ==
  /\ reply' = "err"
  /\ at' = IF caller = New THEN "gone" ELSE "idle"
  /\ oppr' = FALSE /\ failed' = TRUE

Panic ==
  /\ reply' = "panic"
  /\ at' = "gone"
  /\ oppr' = FALSE /\ UNCHANGED failed

Goto(f) == at' = f /\ UNCHANGED <<oppr, reply, failed>>

(* finish_maybe() and verify_signatures() return to their caller. *)
GoOn == IF caller = New THEN Return("ok") ELSE Goto("read_helper")

-----------------------------------------------------------------------------
(* io::Read::read() into a buffer of n bytes, which is a short cut if the  *)
(* buffer is empty.                                                        *)
Read(n) ==
  /\ at = "idle"
  /\ caller' = n
  /\ large' = (large \/ n > buffer_size)
  /\ IF n = 0 THEN Return("ok") ELSE Goto("read_helper")
  /\ UNCHANGED <<Source, pos, shown, cursor, reserve, handed, checks, verified>>

(* read_helper() with a reserve: "The message has been verified.  We can   *)
(* now drain the reserve."                                                 *)
Drain ==
  /\ at = "read_helper" /\ reserve.some
  /\ LET n == Min({caller, Len(reserve.bytes) - cursor})
     IN  /\ handed' = handed \o SubSeq(reserve.bytes, cursor + 1, cursor + n)
         /\ cursor' = cursor + n
         /\ Return(IF n = 0 THEN "end" ELSE "ok")
  /\ UNCHANGED <<Source, pos, shown, reserve, caller, History>>

(* read_helper() of a Decryptor that has lost its packet parser. *)
NoParser ==
  /\ at = "read_helper" /\ ~reserve.some /\ ~oppr
  /\ Panic
  /\ UNCHANGED <<Source, pos, shown, cursor, reserve, caller, handed, History>>

(* read_helper(): the first part of the buffer is consumed once it has     *)
(* been given out.                                                         *)
ReadHelper ==
  LET first == IF cursor >= buffer_size THEN buffer_size ELSE 0
  IN  /\ at = "read_helper" /\ ~reserve.some /\ oppr
      /\ pos' = pos + first /\ shown' = shown - first
      /\ cursor' = cursor - first
      /\ Goto("request")
      /\ UNCHANGED <<Source, reserve, caller, handed, History>>

(* Mutant of Request: only the part that is held back is requested. *)
MutRequest ==
  /\ at = "request"
  /\ \/ \E n \in Data(buffer_size + cursor + 1) :
          /\ shown' = n
          /\ Goto(IF n - cursor <= buffer_size THEN "finish_maybe" ELSE "copy")
     \/ Fails(buffer_size + cursor + 1) /\ Fail /\ UNCHANGED shown
  /\ UNCHANGED <<Source, pos, cursor, reserve, caller, handed, History>>

(* "We request two times what our buffer size is, the first part is the    *)
(* one we give out, the second part is the one we hold back."              *)
Request ==
  /\ at = "request"
  /\ \/ \E n \in Data(2 * buffer_size) :
          /\ shown' = Max({shown, n})
          /\ Goto(IF n - cursor <= buffer_size THEN "finish_maybe" ELSE "copy")
     \/ Fails(2 * buffer_size) /\ Fail /\ UNCHANGED shown
  /\ UNCHANGED <<Source, pos, cursor, reserve, caller, handed, History>>

(* Mutant of Give: nothing is held back. *)
MutGive(n) == Min({n, shown - cursor})

(* How much is given out for a buffer of n bytes. *)
Give(n) == Min({n, shown - buffer_size - cursor})

(* read_helper(): ask for the data again, which must be what it was        *)
(* before, and give it out.                                                *)
Copy ==
  LET again == 2 * buffer_size - cursor
      amount == again % Word
  IN  /\ at = "copy"
      /\ \/ /\ OverflowChecks /\ again < 0
            /\ Panic
            /\ UNCHANGED <<shown, cursor, handed>>
         \/ /\ ~(OverflowChecks /\ again < 0)
            /\ \E n \in Data(amount) :
                 IF n # shown
                 THEN Panic /\ UNCHANGED <<shown, cursor, handed>>
                 ELSE /\ handed' = handed \o Bytes(pos + cursor + 1,
                                                   pos + cursor + Give(caller))
                      /\ cursor' = cursor + Give(caller)
                      /\ Return("ok")
                      /\ UNCHANGED shown
         \/ /\ ~(OverflowChecks /\ again < 0)
            /\ Fails(amount) /\ Fail
            /\ UNCHANGED <<shown, cursor, handed>>
      /\ UNCHANGED <<Source, pos, reserve, caller, History>>

(* Mutant of FinishMaybe: the comparison is off by one. *)
MutFinishMaybe ==
  /\ at = "finish_maybe"
  /\ \/ \E n \in Data(buffer_size + 1) :
          IF n - cursor < buffer_size
          THEN /\ reserve' = [some |-> TRUE, bytes |-> Bytes(pos + cursor + 1, avail)]
               /\ pos' = avail /\ shown' = 0 /\ cursor' = 0
               /\ oppr' = FALSE /\ at' = "rest"
               /\ UNCHANGED <<reply, failed>>
          ELSE /\ shown' = n
               /\ GoOn
               /\ UNCHANGED <<pos, cursor, reserve>>
     \/ /\ avail < length
        /\ \/ Fails(buffer_size + 1)
           \/ \E n \in Data(buffer_size + 1) : n - cursor <= buffer_size
        /\ Fail
        /\ UNCHANGED <<pos, shown, cursor, reserve>>
  /\ UNCHANGED <<Source, caller, handed, History>>

(* Mutant of FinishMaybe: the packet parser is not put back. *)
MutFinishMaybeLoses ==
  /\ at = "finish_maybe"
  /\ \/ \E n \in Data(buffer_size + 1) :
          IF n - cursor <= buffer_size
          THEN /\ reserve' = [some |-> TRUE, bytes |-> Bytes(pos + cursor + 1, avail)]
               /\ pos' = avail /\ shown' = 0 /\ cursor' = 0
               /\ oppr' = FALSE /\ at' = "rest"
               /\ UNCHANGED <<reply, failed>>
          ELSE /\ shown' = n
               /\ oppr' = FALSE /\ reply' = "ok" /\ at' = "idle"
               /\ UNCHANGED <<pos, cursor, reserve, failed>>
     \/ /\ avail < length
        /\ \/ Fails(buffer_size + 1)
           \/ \E n \in Data(buffer_size + 1) : n - cursor <= buffer_size
        /\ Fail
        /\ UNCHANGED <<pos, shown, cursor, reserve>>
  /\ UNCHANGED <<Source, caller, handed, History>>

(* finish_maybe(): if no more than the reserve is left, it is stashed, and *)
(* the parser goes on.                                                     *)
FinishMaybe ==
  /\ at = "finish_maybe"
  /\ \/ \E n \in Data(buffer_size + 1) :
          IF n - cursor <= buffer_size
          THEN /\ reserve' = [some |-> TRUE, bytes |-> Bytes(pos + cursor + 1, avail)]
               /\ pos' = avail /\ shown' = 0 /\ cursor' = 0
               /\ oppr' = FALSE /\ at' = "rest"
               /\ UNCHANGED <<reply, failed>>
          ELSE /\ shown' = n
               /\ GoOn
               /\ UNCHANGED <<pos, cursor, reserve>>
     \/ /\ avail < length
        /\ \/ Fails(buffer_size + 1)
           \/ \E n \in Data(buffer_size + 1) : n - cursor <= buffer_size
        /\ Fail
        /\ UNCHANGED <<pos, shown, cursor, reserve>>
  /\ UNCHANGED <<Source, caller, handed, History>>

(* Mutant of Rest: the errors of the rest of the message are ignored. *)
MutRest ==
  /\ at = "rest"
  /\ Goto("verify_signatures")
  /\ UNCHANGED <<Source, pos, shown, cursor, reserve, caller, handed, History>>

(* finish_maybe(): process the rest of the packets, which may fail, not be *)
(* a message, or have been manipulated.                                    *)
Rest ==
  /\ at = "rest"
  /\ IF tail = "bad" THEN Fail ELSE Goto("verify_signatures")
  /\ UNCHANGED <<Source, pos, shown, cursor, reserve, caller, handed, History>>

(* verify_signatures(): get_certs() may fail, and check() may reject the   *)
(* message.                                                                *)
VerifySignatures ==
  /\ at = "verify_signatures"
  /\ \/ Fail /\ checks' \in {checks, checks + 1} /\ UNCHANGED verified
     \/ GoOn /\ checks' = checks + 1 /\ verified' = TRUE
  /\ UNCHANGED <<Source, pos, shown, cursor, reserve, caller, handed, large>>

Step ==
  \/ Drain \/ NoParser \/ ReadHelper \/ Request \/ Copy
  \/ FinishMaybe \/ Rest \/ VerifySignatures

Next == (\E n \in 0 .. MaxRead : Read(n)) \/ Step

(* A call that has been made runs on: it is sequential code. *)
Spec == Init /\ [][Next]_vars /\ WF_vars(Step)

-----------------------------------------------------------------------------
(* Types.  The assertions of read_helper(): a Decryptor with a reserve has *)
(* no parser left, and the cursor is in the reserve, or in the buffer.     *)
TypeOK ==
  /\ length \in 0 .. MaxLength /\ avail \in 0 .. length
  /\ pos \in 0 .. avail /\ shown \in 0 .. Left
  /\ at \in {"idle", "gone", "read_helper", "request", "copy", "finish_maybe",
             "rest", "verify_signatures"}
  /\ caller \in New .. MaxRead
  /\ reply \in {"none", "ok", "end", "err", "panic"}
  /\ {oppr, verified, failed, large} \subseteq BOOLEAN
  /\ checks \in Nat
  /\ reserve.some => ~oppr /\ cursor \in 0 .. Len(reserve.bytes)
  /\ oppr => cursor \in 0 .. shown

(* Nothing of the last buffer_size bytes of the body is handed out before  *)
(* check() has approved, in any sequence of reads, and even if the body is *)
(* truncated (as long as the caller stops at the first error).             *)
HeldBack ==
  ~failed /\ Len(handed) > Max({0, avail - buffer_size}) => verified

(* What the caller gets is the body, in order and from its start, although *)
(* it comes from the packet's buffer first and from the reserve later; and *)
(* if a read says that it is the end, it was all of it, and verified.      *)
(* The assertions on the cursor hold (TypeOK).                             *)
EndIsVerified ==
  /\ TypeOK
  /\ handed = Bytes(1, Len(handed))
  /\ reply = "end" /\ ~failed => verified /\ Len(handed) = length

(* check() is "called exactly once per message", however often and however *)
(* little is read (VerificationHelper::check), and if message_processed()  *)
(* is true and no call has failed, it was and has approved.                *)
CheckedOnce ==
  /\ checks <= 1
  /\ at = "idle" /\ ~oppr /\ ~failed => verified

(* No call panics as long as none has failed and none has asked for more   *)
(* than buffer_size: what data() has shown is shown again                  *)
(* (assert_eq!(data.len(), data_len)), and no subtraction overflows.       *)
NoPanic == reply = "panic" => failed \/ large

(* read_helper() and finish_maybe() do not call each other forever, unless *)
(* the buffer size is 0: then read_helper() asks for no data, and          *)
(* finish_maybe() finds some, again and again.                             *)
CallsReturn ==
  buffer_size > 0 /\ at \notin {"idle", "gone"} ~> at \in {"idle", "gone"}
=============================================================================
