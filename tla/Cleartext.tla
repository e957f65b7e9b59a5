----------------------------- MODULE Cleartext -----------------------------
(***************************************************************************)
(* The cleartext signature framework from end to end: Signer::cleartext    *)
(* (openpgp/src/serialize/stream.rs) with the two filters around it,       *)
(* TrailingWSFilter above and DashEscapeFilter below, the armor reader     *)
(* that turns the file back into an inline-signed message                  *)
(* (openpgp/src/armor.rs), and the text mode of the hash                   *)
(* (HashingMode::update, openpgp/src/parse/hashed_reader.rs) on both       *)
(* sides.  The text is written, and the literal data of the transformed    *)
(* message is consumed, in pieces of any size.                             *)
(*                                                                         *)
(* The bytes that the code tells apart are kept, and three tokens stand    *)
(* for longer strings: FROM for "From ", MARK for "BEGIN PGP SIGNATURE",   *)
(* and UDASH for a dash of Unicode that is not the ASCII one, as the three *)
(* bytes of an em dash.                                                    *)
(***************************************************************************)
EXTENDS Integers, Sequences, SequencesExt

CONSTANTS
  Byte,         \* the bytes of a text, members of AllBytes
  MaxLength,    \* the longest text
  MaxPiece,     \* the largest piece written or consumed at once
  Mixed         \* whether texts that mix line endings are signed, too

CR == "CR"
LF == "LF"
SP == "SP"
DASH == "DASH"
FROM == "FROM"
MARK == "MARK"
UDASH == "UDASH"
AllBytes == {CR, LF, SP, DASH, FROM, MARK, UDASH, "x"}

ASSUME ByteAssumption == Byte \subseteq AllBytes
ASSUME BoundAssumption == MaxLength \in Nat /\ MaxPiece \in Nat \ {0}

VARIABLES
  text,      \* what the caller wants to have signed
  written,   \* how much of it the caller has written
  trimmer,   \* TrailingWSFilter::buffer
  escaper,   \* DashEscapeFilter::buffer
  signed,    \* the Signer's hash: [out, last_was_cr]
  file,      \* what has reached the sink, without the armor header
  body,      \* the literal data that the armor reader assembles
  consumed,  \* how much of it has been consumed
  hashed,    \* the hash of the HashedReader: [out, last_was_cr]
  phase      \* "writing", "written", "reading" or "done"

vars == <<text, written, trimmer, escaper, signed, file, body, consumed,
          hashed, phase>>

Texts == UNION {[1 .. n -> Byte] : n \in 0 .. MaxLength}

(* A text with one kind of line ending: no CR at all, or no LF without a   *)
(* CR before it and no CR without an LF after it.                          *)
Uniform(t) ==
  \/ CR \notin ToSet(t)
  \/ \A i \in DOMAIN t :
       /\ t[i] = LF => i > 1 /\ t[i - 1] = CR
       /\ t[i] = CR => i < Len(t) /\ t[i + 1] = LF

-----------------------------------------------------------------------------
(* HashingMode::update of a text hash.  h.last_was_cr tells Text from      *)
(* TextLastWasCr; in the loop, it is only cleared by a byte that is not a  *)
(* line ending, and in_crlf is the look-ahead for the LF after a CR.       *)
HashByte(acc, c) ==
  IF c = LF /\ acc.in_crlf THEN [acc EXCEPT !.in_crlf = FALSE]
  ELSE IF c = LF /\ acc.last_was_cr THEN acc
  ELSE IF c \in {CR, LF}
  THEN [acc EXCEPT !.out = @ \o <<CR, LF>>, !.in_crlf = (c = CR)]
  ELSE [out |-> Append(acc.out, c), last_was_cr |-> FALSE, in_crlf |-> FALSE]

(* Mutant of update: the CR at the end of the data is forgotten. *)
MutUpdate(h, data) ==
  [out |-> FoldLeft(HashByte, [out |-> h.out, last_was_cr |-> FALSE,
                               in_crlf |-> FALSE], data).out,
   last_was_cr |-> FALSE]

update(h, data) ==
  IF data = <<>> THEN h
  ELSE LET acc == FoldLeft(HashByte,
                           [out |-> h.out, last_was_cr |-> h.last_was_cr,
                            in_crlf |-> FALSE], data)
       IN  [out |-> acc.out, last_was_cr |-> Last(data) = CR]

(* slice::split at the newlines: one more line than there are newlines. *)
Lines(s) ==
  FoldLeft(LAMBDA ls, c : IF c = LF THEN Append(ls, <<>>)
                          ELSE [ls EXCEPT ![Len(ls)] = Append(@, c)],
           << <<>> >>, s)

(* The line without the spaces at its end. *)
TrimEnd(l) ==
  LET keep == {i \in DOMAIN l : l[i] # SP}
      n == IF keep = {} THEN 0 ELSE CHOOSE i \in keep : \A j \in keep : j <= i
  IN  SubSeq(l, 1, n)

EndsWithCR(l) == l # <<>> /\ Last(l) = CR

(* Mutant of TrimmedLine: the CR is not split off before trimming. *)
MutTrimmedLine(l) == <<TrimEnd(l), <<LF>> >>

(* What TrailingWSFilter::write_out passes on for a whole line, as it does *)
(* it: first the line, then the line ending.                               *)
TrimmedLine(l) ==
  IF EndsWithCR(l) THEN <<TrimEnd(Front(l)), <<CR, LF>> >>
                   ELSE <<TrimEnd(l), <<LF>> >>

(* TrailingWSFilter::write_out: the writes to the Signer. *)
TrimmerWrites(ls, done) ==
  FlattenSeq([i \in 1 .. Len(ls) - 1 |-> TrimmedLine(ls[i])])
    \o (IF done THEN <<TrimEnd(Last(ls))>> ELSE <<>>)

(* What DashEscapeFilter::write_out writes for a line. *)
Escaped(l) ==
  IF l # <<>> /\ Head(l) \in {DASH, FROM} THEN <<DASH, SP>> \o l ELSE l

(* DashEscapeFilter::write_out. *)
EscaperOut(ls, done) ==
  FlattenSeq([i \in 1 .. Len(ls) - 1 |-> Append(Escaped(ls[i]), LF)])
    \o (IF done THEN Escaped(Last(ls)) ELSE <<>>)

(* Signer::write: the data goes through DashEscapeFilter and is hashed as  *)
(* it is.  write_all() does not call write() for no data.                  *)
SignerWrite(s, data) ==
  LET ls == Lines(s.escaper \o data)
  IN  IF data = <<>> THEN s
      ELSE [escaper |-> Last(ls), file |-> s.file \o EscaperOut(ls, FALSE),
            signed |-> update(s.signed, data)]

-----------------------------------------------------------------------------
Init ==
  /\ text \in {t \in Texts : Mixed \/ Uniform(t)}
  /\ written = 0
  /\ trimmer = <<>>
  /\ escaper = <<>>
  /\ signed = [out |-> <<>>, last_was_cr |-> FALSE]
  /\ file = <<>>
  /\ body = <<>>
  /\ consumed = 0
  /\ hashed = [out |-> <<>>, last_was_cr |-> FALSE]
  /\ phase = "writing"

Below == [escaper |-> escaper, file |-> file, signed |-> signed]

(* The caller writes the next n bytes. *)
Write(n) ==
  /\ phase = "writing"
  /\ written + n <= Len(text)
  /\ LET ls == Lines(trimmer \o SubSeq(text, written + 1, written + n))
         s == FoldLeft(SignerWrite, Below, TrimmerWrites(ls, FALSE))
     IN  /\ trimmer' = Last(ls)
         /\ escaper' = s.escaper
         /\ file' = s.file
         /\ signed' = s.signed
  /\ written' = written + n
  /\ UNCHANGED <<text, body, consumed, hashed, phase>>

(* finalize(): TrailingWSFilter::into_inner flushes the last line,         *)
(* Signer::into_inner calls emit_signatures(), which pops the              *)
(* DashEscapeFilter, adds the separating newline and writes the armored    *)
(* signature, of which the marker is kept.                                 *)
Finalize ==
  /\ phase = "writing"
  /\ written = Len(text)
  /\ LET ls == Lines(trimmer)
         s == FoldLeft(SignerWrite, Below, TrimmerWrites(ls, TRUE))
     IN  /\ file' = s.file \o EscaperOut(Lines(s.escaper), TRUE)
                      \o <<LF, DASH, DASH, DASH, DASH, DASH, MARK, LF>>
         /\ signed' = s.signed
  /\ trimmer' = <<>>
  /\ escaper' = <<>>
  /\ phase' = "written"
  /\ UNCHANGED <<text, written, body, consumed, hashed>>

(* What read_clearsigned_message() adds to the text for a line, which it   *)
(* has read up to and with the newline.                                    *)
ReadLine(l) ==
  LET u == IF Len(l) >= 2 /\ l[1] = DASH /\ l[2] = SP THEN SubSeq(l, 3, Len(l))
                                                      ELSE l
  IN  IF EndsWithCR(u) THEN TrimEnd(Front(u)) \o <<CR, LF>>
                       ELSE Append(TrimEnd(u), LF)

(* dash_prefix() of the line, and its length in bytes. *)
DashPrefix(l) ==
  LET n == CHOOSE n \in 0 .. Len(l) :
             /\ \A i \in 1 .. n : l[i] \in {DASH, UDASH}
             /\ n < Len(l) => l[n + 1] \notin {DASH, UDASH}
  IN  SubSeq(l, 1, n)

DashBytes(l) ==
  FoldLeft(LAMBDA n, c : n + (IF c = UDASH THEN 3 ELSE 1), 0, DashPrefix(l))

(* read_clearsigned_message() takes the line for the armor header line of  *)
(* the signature.                                                          *)
IsMarker(l) ==
  LET n == Len(DashPrefix(l))
  IN  DashBytes(l) > 2 /\ n < Len(l) /\ l[n + 1] = MARK

(* Mutant of DropSeparator: the separating newline is left in the text. *)
MutDropSeparator(t) == t

(* The final newline separates the signature marker from the text. *)
DropSeparator(t) ==
  LET u == IF t = <<>> THEN t ELSE Front(t)
  IN  IF EndsWithCR(u) THEN Front(u) ELSE u

(* Reader::read_clearsigned_message, the text body: it ends at the first   *)
(* line that is taken for the marker.                                      *)
Transform ==
  /\ phase = "written"
  /\ LET ls == Lines(file)
         end == CHOOSE i \in DOMAIN ls :
                  IsMarker(ls[i]) /\ \A j \in 1 .. i - 1 : ~IsMarker(ls[j])
     IN  body' = DropSeparator(
                   FlattenSeq([i \in 1 .. end - 1 |-> ReadLine(ls[i])]))
  /\ phase' = "reading"
  /\ UNCHANGED <<text, written, trimmer, escaper, signed, file, consumed,
                 hashed>>

(* HashedReader::consume: hash_update_csf() hashes what is consumed. *)
Consume(n) ==
  /\ phase = "reading"
  /\ consumed + n <= Len(body)
  /\ hashed' = update(hashed, SubSeq(body, consumed + 1, consumed + n))
  /\ consumed' = consumed + n
  /\ UNCHANGED <<text, written, trimmer, escaper, signed, file, body, phase>>

(* The literal data is exhausted; the signature packets follow. *)
EndOfBody ==
  /\ phase = "reading"
  /\ consumed = Len(body)
  /\ phase' = "done"
  /\ UNCHANGED <<text, written, trimmer, escaper, signed, file, body, consumed,
                 hashed>>

Next ==
  \/ \E n \in 1 .. MaxPiece : Write(n) \/ Consume(n)
  \/ Finalize
  \/ Transform
  \/ EndOfBody

Spec == Init /\ [][Next]_vars

-----------------------------------------------------------------------------
(* What RFC 9580 has signed: every line without the whitespace at its end  *)
(* (Section 7.2), every line ending as CR LF.                              *)
Normalized(t) ==
  FoldLeft(LAMBDA acc, i :
             IF t[i] = LF /\ i > 1 /\ t[i - 1] = CR THEN acc
             ELSE acc \o (IF t[i] \in {CR, LF} THEN <<CR, LF>> ELSE <<t[i]>>),
           <<>>, [i \in DOMAIN t |-> i])

Trimmed(t) ==
  LET AtEnd(i) == \E j \in i + 1 .. Len(t) + 1 :
                    /\ \A k \in i .. j - 1 : t[k] = SP
                    /\ \/ j > Len(t)
                       \/ t[j] = LF
                       \/ j < Len(t) /\ t[j] = CR /\ t[j + 1] = LF
      kept == SelectSeq([i \in DOMAIN t |-> i], LAMBDA i : ~AtEnd(i))
  IN  [n \in DOMAIN kept |-> t[kept[n]]]

(* The pieces do not matter to the hash: what the HashedReader has hashed  *)
(* is the normalized form of what has been consumed ("The data is hashed   *)
(* with line endings normalized to `\r\n`.", HashingMode::Text).           *)
HashedIsNormalized == hashed.out = Normalized(SubSeq(body, 1, consumed))

(* Neither do the caller's pieces: the Signer hashes the normalized form   *)
(* of the trimmed text, however the filter above it was fed.               *)
SignedIsNormalized ==
  phase # "writing" => signed.out = Normalized(Trimmed(text))

(* DashEscapeFilter escapes the lines that start with an ASCII dash, and   *)
(* the reader accepts any dash before the marker.  A text with a line that *)
(* is a marker behind a dash that is not escaped ends there.               *)
EndsEarly(t) ==
  \E i \in DOMAIN Lines(t) : IsMarker(Lines(t)[i]) /\ Head(Lines(t)[i]) # DASH

(* A message that the Signer makes verifies, unless the text ends early:   *)
(* dash-escaping is undone, no other line of the text is taken for the     *)
(* signature marker, and the reader hashes what the Signer has hashed.     *)
CleartextVerifies ==
  phase = "done" /\ ~EndsEarly(text) => hashed.out = signed.out

(* The verifier shows the text that was signed, without the whitespace at  *)
(* the end of lines, and never more than that: of a text that ends early,  *)
(* what is before the line that is taken for the marker.                   *)
BodyIsText ==
  phase \in {"reading", "done"} =>
    IF EndsEarly(text) THEN IsPrefix(body, Trimmed(text)) ELSE body = Trimmed(text)
=============================================================================
