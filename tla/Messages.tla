------------------------------- MODULE Messages -------------------------------
(* Writing and reading a message: a wire comes either from a writer stack or   *)
(* from somewhere else (Wires), and is then parsed, decrypted and verified.    *)
EXTENDS WriterStack

CONSTANT Wires      \* packet sequences from elsewhere

vars == <<parserVars, writerVars>>

Init ==
    \/ /\ \E w \in Wires : ParserInit(w)
       /\ mode = "parsing"
       /\ stack = <<>>
       /\ over = <<>>
    \/ /\ ParserInit(<<>>)
       /\ mode = "building"
       /\ stack = <<>>
       /\ over = <<>>

Write ==
    /\ WriterNext
    /\ UNCHANGED <<at, frame, validator, layers, counter, digest, literal, outcome>>

\* The writer stack is finalized: what it wrote is read back.
Open ==
    /\ mode = "finalizing"
    /\ stack = <<>>
    /\ mode' = "parsing"
    /\ digest' = [i \in DOMAIN wire |-> NoDigest]
    /\ UNCHANGED <<wire, at, frame, validator, layers, counter, literal, outcome,
                   stack, over>>

Read ==
    /\ mode = "parsing"
    /\ ParserNext
    /\ UNCHANGED writerVars

Done == outcome # "running" /\ UNCHANGED vars

Next == Write \/ Open \/ Read \/ Done

Spec == Init /\ [][Next]_vars

-----------------------------------------------------------------------------
(* What a signature should be over, from the packets alone. *)

Tagged(t) == {i \in DOMAIN wire : wire[i].t = t}
LiteralAt == CHOOSE i \in DOMAIN wire : wire[i].t = "LIT"
Accepted == outcome = "accepted"

\* Messages whose signatures all close a one-pass signature, with no markers.
Plain ==
    /\ Tagged("MARKER") = {}
    /\ \A j \in Tagged("SIG") : j > LiteralAt

\* Signature j closes the one-pass signature i: same container, balanced between.
Closes(j, i) ==
    LET between == {k \in (i + 1)..(j - 1) : wire[k].d = wire[i].d}
    IN /\ i < j
       /\ wire[i].t = "OPS" /\ wire[j].t = "SIG"
       /\ wire[i].d = wire[j].d
       /\ \A k \in i..j : wire[k].d >= wire[i].d
       /\ Cardinality(between \intersect Tagged("OPS"))
            = Cardinality(between \intersect Tagged("SIG"))
Opening(j) == CHOOSE i \in DOMAIN wire : Closes(j, i)
Closing(i) == CHOOSE j \in DOMAIN wire : Closes(j, i)

\* The last one-pass signature of the group that i belongs to.
GroupEnd(i) ==
    CHOOSE k \in i..Len(wire) :
        /\ \A m \in i..k : wire[m].t = "OPS" /\ wire[m].d = wire[i].d
        /\ \A m \in i..(k - 1) : ~wire[m].last
        /\ wire[k].last \/ wire[k + 1].t # "OPS" \/ wire[k + 1].d # wire[k].d
GroupEnds == {GroupEnd(i) : i \in Tagged("OPS")}
Members(k) == {i \in Tagged("OPS") : GroupEnd(i) = k}

\* Everything between the group's last one-pass signature and the signature
\* that closes it, but of a literal data packet only the body.
Enclosed(k) ==
    LET j == Closing(k)
        pieces(m) == CASE wire[m].d > wire[k].d -> <<>>
                       [] wire[m].t = "LIT" -> Body_(m)
                       [] OTHER -> Head_(m) \o Body_(m)
    IN FlattenSeq([m \in 1..(j - k - 1) |-> pieces(k + m)])

\* How many groups of the same container are nested inside.
Nested(k) == Cardinality({m \in GroupEnds : /\ k < m /\ m < Closing(k)
                                            /\ wire[m].d = wire[k].d})

-----------------------------------------------------------------------------
(* Properties. *)

\* finish_maybe() looks at a modification detection code if the depth falls by
\* one behind it.  It does not see one behind which it falls by more, where the
\* container is the last thing in another one.
Unseen(i) == DepthAfter(i) + 1 < wire[i].d

\* The verdict is exact: at the end of the packets, the message is accepted if
\* and only if the tree of packets follows the grammar, no container is nested
\* too deeply to be read, and every modification detection code that
\* finish_maybe() sees matches.
\* (MessageValidator, PacketParser::recurse, Decryptor::finish_maybe.)
VerdictExact ==
    outcome # "running" =>
        (Accepted <=> /\ WellFormed(SelectSeq(wire, LAMBDA p : p.t # "MARKER"))
                      /\ \A i \in DOMAIN wire : wire[i].d <= MaxDepth
                      /\ \A i \in Tagged("MDC") : wire[i].ok \/ Unseen(i))

\* Each signature of an accepted message is checked against exactly the bytes
\* that its group encloses, at its level of notarization; it has no digest only
\* when no one-pass signature of the group announced its hash algorithm or the
\* back end lacks it.  (Cookie::hash_update, OnePassSig3::parse,
\* Signature::parse_finish.)
DigestsRight ==
    Accepted /\ Plain =>
        \A j \in Tagged("SIG") :
            LET k == GroupEnd(Opening(j))
                announced == {wire[i].a : i \in Members(k)} \intersect Supported
            IN digest[j] = IF wire[j].a \in announced
                           THEN [level |-> Nested(k), over |-> Enclosed(k)]
                           ELSE NoDigest

\* The decryptor keeps its own account of the groups: the layer in which each
\* signature is reported is the group whose hash it was checked against, the
\* layers are in the order of nesting, and none waits for more signatures.
\* (IMessageStructure::push_ops, insert_missing_signature_group,
\* push_signature.)
LayersMatch ==
    Accepted /\ Plain =>
        LET starts == SetToSortSeq(GroupEnds
                                     \union {i \in DOMAIN wire : wire[i].t \in Containers},
                                   <)
            expected(k) == IF wire[k].t = "OPS"
                           THEN {Closing(i) : i \in Members(k)} ELSE {wire[k].t}
            got(l) == IF IsGroup(l)
                      THEN {l.sigs[n] : n \in DOMAIN l.sigs} ELSE {l.kind}
        IN /\ [n \in DOMAIN starts |-> expected(starts[n])]
                = [n \in DOMAIN layers |-> got(layers[n])]
           /\ \A n \in DOMAIN layers : IsGroup(layers[n]) => layers[n].count = 0

\* What a writer stack produces is read back: the message is accepted and every
\* signature is checked against what its signer had hashed, except where a
\* Signer sits on a Signer directly below the literal writer.  (Signer::build,
\* LiteralWriter::build, Signer::emit_signatures and the parser.)
WrittenVerifies ==
    (over # <<>> /\ outcome # "running"
        /\ \A i \in DOMAIN wire : wire[i].d <= MaxDepth) =>
        /\ Accepted
        /\ \A j \in Tagged("SIG") :
              \/ digest[j].over = over[j]
              \/ wire[j].d = wire[LiteralAt].d /\ digest[j].level > 0
=============================================================================
