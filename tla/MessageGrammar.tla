---------------------------- MODULE MessageGrammar ----------------------------
(* The OpenPGP message grammar and the MessageValidator that tells, packet by  *)
(* packet, whether what was seen so far can be a message                       *)
(* (openpgp/src/message/mod.rs, message/grammar.lalrpop).                      *)
(*                                                                             *)
(* A wire is a flattened packet sequence: each packet carries its tag t, its   *)
(* depth d (the length of its path minus one), the hash algorithm a of a       *)
(* one-pass signature or signature, the "last" flag of a one-pass signature    *)
(* and whether a modification detection code matches (ok).  The packets of a   *)
(* container are the ones that follow it at a greater depth.                   *)
EXTENDS Naturals, Sequences, SequencesExt, FiniteSets

\* The tags of containers, and the tags that the validator skips.
Containers == {"COMP", "SEIP1", "SEIP2"}
Ignored == {"MARKER"}

-----------------------------------------------------------------------------
(* The grammar as a table: <<expected symbol, token, what is expected then>>. *)

MessageProductions ==
    {<<"Message", "LIT", <<>>>>,
     <<"Message", "OPAQUE", <<>>>>,
     <<"Message", "COMP", <<"Message", "POP">>>>,
     <<"Message", "SIG", <<"Message">>>>,
     <<"Message", "OPS", <<"Message", "SIG">>>>,
     <<"Message", "ESK", <<"Encrypted">>>>,
     <<"Message", "SEIP1", <<"Seipv1Part">>>>,
     <<"Message", "SEIP2", <<"Message", "POP">>>>}

Seipv1Productions ==
    {<<"Seipv1Part", p[2], p[3] \o <<"MDC", "POP">>>> :
        p \in {q \in MessageProductions : q[2] # "OPAQUE"}}
    \union {<<"Seipv1Part", "OPAQUE", <<"Seipv1End">>>>,
            <<"Seipv1End", "POP", <<>>>>,
            <<"Seipv1End", "MDC", <<"POP">>>>}

EncryptedProductions ==
    {<<"Encrypted", p[2], p[3]>> :
        p \in {q \in MessageProductions : q[2] \in {"ESK", "SEIP1", "SEIP2"}}}

Productions ==
    MessageProductions \union Seipv1Productions \union EncryptedProductions
        \union {<<t, t, <<>>>> : t \in {"SIG", "MDC", "POP"}}

-----------------------------------------------------------------------------
(* The validator: what the tokens so far still expect, the depth of the last *)
(* packet, and whether the sequence is known not to be a message.            *)

NewValidator == [expect |-> <<"Message">>, depth |-> 0, error |-> FALSE]

\* What the parser expects after token tok, or an error that sticks.
Shift(v, tok) ==
    LET fits == {p \in Productions : v.expect # <<>> /\ p[1] = Head(v.expect)
                                                     /\ p[2] = tok}
    IN IF v.error \/ fits = {} THEN [v EXCEPT !.error = TRUE]
       ELSE LET p == CHOOSE q \in fits : TRUE
            IN [v EXCEPT !.expect = p[3] \o Tail(@)]

ShiftAll(v, toks) == FoldLeft(Shift, v, toks)

\* Mutant of push_token: a container that has ended is not popped.
MutPushToken(v, tok, depth) ==
    Shift([v EXCEPT !.depth = depth], tok)

\* A packet at a lower depth closes the containers in between.
push_token(v, tok, depth) ==
    LET pops == IF v.depth > depth THEN v.depth - depth ELSE 0
    IN ShiftAll([v EXCEPT !.depth = depth],
                [i \in 1..pops |-> "POP"] \o <<tok>>)

\* Marker and padding packets are skipped; an unknown critical packet is an
\* error at once.
push(v, tag, depth) ==
    CASE v.error -> v
      [] tag \in Ignored -> v
      [] tag = "UNKNOWN" -> [v EXCEPT !.error = TRUE]
      [] OTHER -> push_token(v, tag, depth)

finish(v) == ShiftAll(v, [i \in 1..v.depth |-> "POP"])

\* check(): before the end anything without an error is a prefix of a message;
\* at the end nothing may be missing.
possible_message(v) == ~v.error
is_message(v) == ~finish(v).error /\ finish(v).expect = <<>>

-----------------------------------------------------------------------------
(* The reference: the grammar of RFC 9580, section 10.3, read directly off    *)
(* the tree of packets, with neither tokens nor pops.                         *)

\* Packets lo..hi of wire w, all below depth d, are a message at depth d.
WellFormed(w) ==
    LET Sub == {<<l, h, d>> \in (1..(Len(w) + 1)) \X (0..Len(w)) \X (0..Len(w)) :
                    h + 1 >= l}
        Inside(l, h, d) == \A i \in l..h : w[i].d > d
        M[x \in Sub] ==
            LET l == x[1]  h == x[2]  d == x[3]
                inner(k, m) == h >= k /\ M[<<k, m, d + 1>>]
            IN /\ l <= h
               /\ w[l].d = d
               /\ CASE w[l].t = "LIT" -> l = h
                    [] w[l].t \in {"COMP", "SEIP2"} ->
                         Inside(l + 1, h, d) /\ inner(l + 1, h)
                    [] w[l].t = "SEIP1" ->
                         /\ Inside(l + 1, h, d)
                         /\ h > l + 1
                         /\ w[h].t = "MDC" /\ w[h].d = d + 1
                         /\ M[<<l + 1, h - 1, d + 1>>]
                    [] w[l].t = "ESK" ->
                         /\ l < h
                         /\ w[l + 1].t \in {"ESK", "SEIP1", "SEIP2"}
                         /\ M[<<l + 1, h, d>>]
                    [] w[l].t = "SIG" -> M[<<l + 1, h, d>>]
                    [] w[l].t = "OPS" ->
                         /\ l + 1 < h
                         /\ w[h].t = "SIG" /\ w[h].d = d
                         /\ M[<<l + 1, h - 1, d>>]
                    [] OTHER -> FALSE
    IN M[<<1, Len(w), 0>>]
=============================================================================
