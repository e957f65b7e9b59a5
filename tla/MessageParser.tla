---------------------------- MODULE MessageParser ----------------------------
(* The packet parser and the streaming decryptor and verifier on top of it:   *)
(* packets are read one after the other, one-pass signatures install hashing  *)
(* readers, signatures take the digests out again, the validator follows, and *)
(* the decryptor keeps the layers that it will report                         *)
(* (openpgp/src/parse.rs, parse/hashed_reader.rs, parse/stream.rs).           *)
(*                                                                            *)
(* What is hashed is a sequence of pieces: <<i, "head">> is the header of     *)
(* packet i (with the metadata of a literal), <<i, "body">> its body.  The    *)
(* body of a container is one piece for the readers around the container.     *)
EXTENDS MessageGrammar

CONSTANTS
    Algos,          \* hash algorithms
    Supported,      \* the ones the back end implements
    MaxDepth        \* max_recursion_depth

ASSUME MessageParserAssumption == Supported \subseteq Algos /\ MaxDepth \in Nat

VARIABLES
    wire,           \* the packets
    at,             \* the packet parsed last, 0 before the first
    frame,          \* depth |-> the hashing reader for the packets at that depth
    validator,      \* state.message_validator
    layers,         \* structure.layers
    counter,        \* structure.sig_group_counter
    digest,         \* signature |-> its computed digest and level
    literal,        \* the literal data packet was found
    outcome         \* how the decryptor ended

parserVars ==
    <<wire, at, frame, validator, layers, counter, digest, literal, outcome>>

\* A digest that was not computed: a signature without one does not verify.
NoDigest == [level |-> 0, over |-> <<"none">>]

-----------------------------------------------------------------------------
(* Cookie: the groups of signatures that a hashing reader serves. *)

NewGroup == [ops_count |-> 0, hashes |-> [a \in {} |-> <<>>]]

\* No HashedReader, or one that no longer hashes for signatures.
Nothing ==
    [active |-> FALSE, hashing |-> "Enabled", saw_last |-> FALSE,
     sig_groups |-> <<NewGroup>>, max_len |-> 1, hash_stash |-> <<>>]

WithHash(g, a) ==
    IF a \in DOMAIN g.hashes \/ a \notin Supported THEN g
    ELSE [g EXCEPT !.hashes =
             [b \in DOMAIN g.hashes \union {a} |->
                 IF b = a THEN <<>> ELSE g.hashes[b]]]

Counted(g) == [g EXCEPT !.ops_count = @ + 1]

Fed(g, pieces) ==
    [g EXCEPT !.hashes = [a \in DOMAIN g.hashes |-> g.hashes[a] \o pieces]]

Hashing(f, how) == IF f.active THEN [f EXCEPT !.hashing = how] ELSE f

\* Mutant of hash_update: the stash is not hashed.
MutHashUpdate(f, pieces) ==
    LET n == Len(f.sig_groups)
        hot(i) == f.hashing = "Enabled" \/ (f.hashing = "Notarized" /\ i < n)
    IN [f EXCEPT !.hash_stash = <<>>,
                 !.sig_groups = [i \in 1..n |->
                     IF hot(i) THEN Fed(@[i], pieces) ELSE @[i]]]

hash_update(f, pieces) ==
    LET n == Len(f.sig_groups)
        flushed == IF f.hash_stash = <<>> THEN f.sig_groups
                   ELSE [f.sig_groups EXCEPT ![n - 1] = Fed(@, f.hash_stash)]
        hot(i) == f.hashing = "Enabled" \/ (f.hashing = "Notarized" /\ i < n)
    IN [f EXCEPT !.hash_stash = <<>>,
                 !.sig_groups = [i \in 1..n |->
                     IF hot(i) THEN Fed(flushed[i], pieces) ELSE flushed[i]]]

sig_group_push(f) ==
    [f EXCEPT !.sig_groups = Append(@, NewGroup), !.max_len = @ + 1]

sig_group_pop(f) ==
    IF Len(f.sig_groups) = 1
    THEN [f EXCEPT !.sig_groups = <<NewGroup>>, !.active = FALSE]
    ELSE [f EXCEPT !.sig_groups = Front(@)]

-----------------------------------------------------------------------------
(* What parsing packet i does to the hashing reader of its depth. *)

Head_(i) == <<<<i, "head">>>>
Body_(i) == <<<<i, "body">>>>

\* OnePassSig3::parse with a reader in place: the header was consumed before
\* the group was pushed, so it is stashed for the former topmost group.
JoinGroup(f, i) ==
    LET p == wire[i]
        top == IF f.saw_last
               THEN [sig_group_push(f) EXCEPT !.hash_stash = Head_(i)]
               ELSE f
        n == Len(top.sig_groups)
    IN [top EXCEPT !.sig_groups[n] = Counted(WithHash(@, p.a)),
                   !.saw_last = p.last]

ParseOnePassSig(f, i) ==
    IF f.active
    THEN LET noted == hash_update(Hashing(f, "Notarized"), Head_(i))
             joined == JoinGroup(noted, i)
         IN Hashing(hash_update(joined, Body_(i)), "Enabled")
    ELSE [Nothing EXCEPT !.active = TRUE,
                         !.saw_last = wire[i].last,
                         !.sig_groups = <<Counted(WithHash(NewGroup, wire[i].a))>>]

\* Signature::parse: only notarizing signatures hash a signature packet.
NotedSignature(f, i) ==
    IF f.active THEN hash_update(Hashing(f, "Notarized"), Head_(i) \o Body_(i))
    ELSE f

\* Signature::parse_finish.
parse_finish(f) ==
    LET n == Len(f.sig_groups)
        less == [f EXCEPT !.sig_groups[n].ops_count = @ - 1]
    IN CASE ~f.active -> f
         [] less.sig_groups[n].ops_count = 0 -> sig_group_pop(less)
         [] OTHER -> less

ComputedDigest(f, a) ==
    LET g == f.sig_groups[Len(f.sig_groups)]
    IN IF f.active /\ a \in DOMAIN g.hashes
       THEN [level |-> f.max_len - Len(f.sig_groups), over |-> g.hashes[a]]
       ELSE NoDigest

\* Literal::parse: neither header nor metadata are hashed, the body is.
ParseLiteral(f, i) ==
    IF f.active
    THEN hash_update(Hashing(hash_update(Hashing(f, "Disabled"), Head_(i)), "Enabled"), Body_(i))
    ELSE f

\* Any other packet is hashed in the mode that the last packet left.
ParseOther(f, i) ==
    IF f.active THEN hash_update(f, Head_(i) \o Body_(i)) ELSE f

\* The hashing readers after packet i.  Entering a container starts its
\* contents without one; before the modification detection code, the reader
\* of the contents is popped with the fake end of file.
FramesAfter(i) ==
    LET p == wire[i]  f == frame[p.d]
    IN CASE p.t = "OPS" -> [frame EXCEPT ![p.d] = ParseOnePassSig(f, i)]
         [] p.t = "SIG" -> [frame EXCEPT ![p.d] = parse_finish(NotedSignature(f, i))]
         [] p.t = "LIT" -> [frame EXCEPT ![p.d] = ParseLiteral(f, i)]
         [] p.t = "MDC" -> [frame EXCEPT ![p.d] = Nothing]
         [] p.t \in Containers ->
              [frame EXCEPT ![p.d] = ParseOther(f, i), ![p.d + 1] = Nothing]
         [] OTHER -> [frame EXCEPT ![p.d] = ParseOther(f, i)]

DigestsAfter(i) ==
    IF wire[i].t = "SIG"
    THEN [digest EXCEPT ![i] =
             ComputedDigest(NotedSignature(frame[wire[i].d], i), wire[i].a)]
    ELSE digest

-----------------------------------------------------------------------------
(* PacketParser::recurse, next and finish. *)

\* A container below the maximum depth is not entered.
Opaque(i) == wire[i].t \in Containers /\ wire[i].d >= MaxDepth

IsEmpty(i) == i = Len(wire) \/ wire[i + 1].d <= wire[i].d

\* The packet after packet i (Len(wire) + 1 at the end).
NextAfter(i) ==
    IF i > 0 /\ Opaque(i)
    THEN CHOOSE j \in (i + 1)..(Len(wire) + 1) :
            /\ j = Len(wire) + 1 \/ wire[j].d <= wire[i].d
            /\ \A k \in (i + 1)..(j - 1) : wire[k].d > wire[i].d
    ELSE i + 1

\* The depth of the packet after packet i, zero at the end.
DepthAfter(i) == IF NextAfter(i) > Len(wire) THEN 0 ELSE wire[NextAfter(i)].d

\* The validator after packet i: a container that is left unread, if it is
\* not empty, counts as opaque content.
Validated(i) ==
    LET p == wire[i]  v == push(validator, p.t, p.d)
    IN IF Opaque(i) /\ ~IsEmpty(i) /\ ~v.error
       THEN push_token(v, "OPAQUE", p.d + 1) ELSE v

-----------------------------------------------------------------------------
(* IMessageStructure: the layers that the helper will be shown. *)

Group(sigs, count) == [kind |-> "SignatureGroup", sigs |-> sigs, count |-> count]
Container(kind, depth) == [kind |-> kind, depth |-> depth]
IsGroup(l) == l.kind = "SignatureGroup"

insert_missing_signature_group(ls) ==
    IF counter > 0 THEN Append(ls, Group(<<>>, counter)) ELSE ls

push_ops(i) ==
    IF wire[i].last
    THEN layers' = Append(layers, Group(<<>>, counter + 1)) /\ counter' = 0
    ELSE layers' = layers /\ counter' = counter + 1

\* Mutant of push_signature: the signature goes to the innermost group, complete or not.
MutPushSignature(ls, i) ==
    IF \E k \in DOMAIN ls : IsGroup(ls[k])
    THEN LET k == CHOOSE k \in DOMAIN ls :
                     /\ IsGroup(ls[k])
                     /\ \A m \in DOMAIN ls : m > k => ~IsGroup(ls[m])
         IN [ls EXCEPT ![k].sigs = Append(@, i)]
    ELSE Append(ls, Group(<<i>>, 0))

\* The innermost group with outstanding signatures takes the signature.
push_signature(ls, i) ==
    LET open == {k \in DOMAIN ls : IsGroup(ls[k]) /\ ls[k].count > 0}
        k == CHOOSE m \in open : \A n \in open : n <= m
    IN IF open = {} THEN Append(ls, Group(<<i>>, 0))
       ELSE [ls EXCEPT ![k].sigs = Append(@, i), ![k].count = @ - 1]

push_bare_signature(ls, i) ==
    IF ls # <<>> /\ IsGroup(Last(ls))
    THEN [ls EXCEPT ![Len(ls)].sigs = Append(@, i)]
    ELSE Append(ls, Group(<<i>>, 0))

expect_mdc_at(depth) ==
    \E k \in DOMAIN layers : layers[k] = Container("SEIP1", depth)

-----------------------------------------------------------------------------
(* The decryptor: Decryptor::from_cookie_reader up to the literal data packet, *)
(* then finish_maybe.                                                          *)

ParserInit(w) ==
    /\ wire = w
    /\ at = 0
    /\ frame = [d \in 0..(MaxDepth + 1) |-> Nothing]
    /\ validator = NewValidator
    /\ layers = <<>>
    /\ counter = 0
    /\ digest = [i \in DOMAIN w |-> NoDigest]
    /\ literal = FALSE
    /\ outcome = "running"

\* Parse the packet after packet at.
Parse(i) ==
    /\ outcome = "running"
    /\ i = NextAfter(at)
    /\ i <= Len(wire)
    /\ at' = i
    /\ frame' = FramesAfter(i)
    /\ digest' = DigestsAfter(i)
    /\ validator' = Validated(i)
    /\ wire' = wire

Reject(why) ==
    /\ outcome' = why
    /\ UNCHANGED <<layers, counter, literal>>

\* possible_message() fails on the way to the literal data packet.
Malformed ==
    \E i \in DOMAIN wire :
        /\ ~literal
        /\ Parse(i)
        /\ ~possible_message(push(validator, wire[i].t, wire[i].d))
        /\ Reject("malformed")

\* The packet is fine so far.
Possible(i) == /\ Parse(i)
               /\ possible_message(push(validator, wire[i].t, wire[i].d))

OnePassSignature ==
    \E i \in DOMAIN wire :
        /\ ~literal
        /\ wire[i].t = "OPS"
        /\ Possible(i)
        /\ push_ops(i)
        /\ UNCHANGED <<literal, outcome>>

BareSignature ==
    \E i \in DOMAIN wire :
        /\ ~literal
        /\ wire[i].t = "SIG"
        /\ Possible(i)
        /\ layers' = push_bare_signature(layers, i)
        /\ UNCHANGED <<counter, literal, outcome>>

\* A compressed or encrypted container; the session key is known to the helper.
\* Recursing into an empty container fails.
OpenContainer ==
    \E i \in DOMAIN wire :
        /\ ~literal
        /\ wire[i].t \in Containers
        /\ Possible(i)
        /\ layers' = Append(insert_missing_signature_group(layers),
                            Container(wire[i].t, wire[i].d))
        /\ counter' = 0
        /\ outcome' = IF ~Opaque(i) /\ IsEmpty(i) THEN "error" ELSE "running"
        /\ literal' = literal

\* Session keys are collected, markers are ignored, a modification detection
\* code must match.
SkipPacket ==
    \E i \in DOMAIN wire :
        /\ ~literal
        /\ wire[i].t \in {"ESK", "MARKER", "MDC"}
        /\ Possible(i)
        /\ outcome' = IF wire[i].t = "MDC" /\ ~wire[i].ok
                      THEN "manipulated" ELSE "running"
        /\ UNCHANGED <<layers, counter, literal>>

\* The modification detection code must be the last thing in its container.
ManipulatedAt(i) ==
    /\ DepthAfter(i) + 1 = wire[i].d
    /\ expect_mdc_at(DepthAfter(i))
    /\ ~(wire[i].t = "MDC" /\ wire[i].ok)

FoundLiteral ==
    \E i \in DOMAIN wire :
        /\ ~literal
        /\ wire[i].t = "LIT"
        /\ Possible(i)
        /\ literal' = TRUE
        /\ layers' = insert_missing_signature_group(layers)
        /\ counter' = 0
        /\ outcome' = IF ManipulatedAt(i) THEN "manipulated" ELSE "running"

\* finish_maybe() after the literal data packet: anything that is not possible
\* here is reported as a manipulation, a container that cannot be entered as
\* whatever error that is.
Trailing ==
    \E i \in DOMAIN wire :
        /\ literal
        /\ Parse(i)
        /\ LET truncated == wire[i].t \in Containers /\ ~Opaque(i) /\ IsEmpty(i)
               inMdc == wire[i].d > 0 /\ expect_mdc_at(wire[i].d - 1)
               possible == possible_message(push(validator, wire[i].t, wire[i].d))
           IN CASE truncated /\ ~inMdc -> Reject("error")
                [] truncated /\ inMdc -> Reject("manipulated")
                [] ~truncated /\ (ManipulatedAt(i) \/ ~possible) ->
                     Reject("manipulated")
                [] OTHER ->
                     /\ layers' = IF wire[i].t = "SIG"
                                  THEN push_signature(layers, i) ELSE layers
                     /\ UNCHANGED <<counter, literal, outcome>>

\* PacketParserResult::EOF: is_message(), then the signatures are checked.
EndOfMessage ==
    /\ outcome = "running"
    /\ NextAfter(at) > Len(wire)
    /\ outcome' = IF literal /\ is_message(validator) THEN "accepted"
                                                     ELSE "malformed"
    /\ UNCHANGED <<wire, at, frame, validator, layers, counter, digest, literal>>

ParserNext ==
    \/ Malformed
    \/ OnePassSignature
    \/ BareSignature
    \/ OpenContainer
    \/ SkipPacket
    \/ FoundLiteral
    \/ Trailing
    \/ EndOfMessage
=============================================================================
