----------------------------- MODULE WriterStack -----------------------------
(* The stack of streaming writers: signers, compressors and encryptors below   *)
(* a literal writer, each writing packets to the writer underneath             *)
(* (openpgp/src/serialize/stream.rs).  Bytes that a writer passes down go      *)
(* through the signers underneath, which hash them, until the nearest          *)
(* container, which makes them part of its own body.                           *)
EXTENDS MessageParser

CONSTANTS
    MaxStack,       \* writers below the literal writer
    MaxSigners      \* signers of one Signer

ASSUME WriterStackAssumption == MaxStack \in Nat /\ MaxSigners \in Nat \ {0}

VARIABLES
    stack,          \* the writers, bottom first
    over,           \* signature |-> the pieces its hash context had seen
    mode            \* "building", "writing", "finalizing", "parsing"

writerVars == <<stack, over, mode>>

Packet(t, d) == [t |-> t, d |-> d, a |-> "none", last |-> FALSE, ok |-> TRUE]
OnePass(a, last, d) == [Packet("OPS", d) EXCEPT !.a = a, !.last = last]
Sig(a, d) == [Packet("SIG", d) EXCEPT !.a = a]

Signer(a, n) == [kind |-> "Signer", algo |-> a, n |-> n, hashed |-> <<>>]
Filter(kind) == [kind |-> kind]

\* What the writer stack has produced so far.
Now == [wire |-> wire, stack |-> stack, over |-> over]

Depth(st, k) == Cardinality({j \in 1..(k - 1) : st[j].kind \in Containers})

\* The signers that writer k writes through.
Through(st, k) ==
    {i \in 1..(k - 1) : \A j \in i..(k - 1) : st[j].kind = "Signer"}

\* Signer::write: pass the bytes down, then hash them.
Hashed(st, who, pieces) ==
    [i \in DOMAIN st |-> IF i \in who
                         THEN [st[i] EXCEPT !.hashed = @ \o pieces] ELSE st[i]]

\* Writer k writes packet p, made over the pieces s if it is a signature.
Emit(o, k, p, s) ==
    LET i == Len(o.wire) + 1
    IN [wire |-> Append(o.wire, p),
        stack |-> Hashed(o.stack, Through(o.stack, k), Head_(i) \o Body_(i)),
        over |-> Append(o.over, s)]

Become(o) == wire' = o.wire /\ stack' = o.stack /\ over' = o.over

-----------------------------------------------------------------------------
(* Building the stack. *)

Building == mode = "building" /\ Len(stack) < MaxStack

\* Signer::build: one one-pass signature per signer, the last one marked.
BuildSigner(a, n) ==
    LET k == Len(stack) + 1
        d == Depth(stack, k)
        ops == [i \in 1..n |-> OnePass(a, i = n, d)]
        out == FoldLeft(LAMBDA o, p : Emit(o, k, p, <<>>), Now, ops)
    IN Become([out EXCEPT !.stack = Append(@, Signer(a, n))])

PushSigner ==
    /\ Building
    /\ \E a \in Supported, n \in 1..MaxSigners : BuildSigner(a, n)
    /\ mode' = mode

\* Compressor::build: the packet header, then a filter for the contents.
PushCompressor ==
    /\ Building
    /\ LET k == Len(stack) + 1
           out == Emit(Now, k, Packet("COMP", Depth(stack, k)), <<>>)
       IN Become([out EXCEPT !.stack = Append(@, Filter("COMP"))])
    /\ mode' = mode

\* Encryptor::build: a session key packet for the recipient, then the container.
PushEncryptor ==
    /\ Building
    /\ LET k == Len(stack) + 1
           d == Depth(stack, k)
       IN \E c \in {"SEIP1", "SEIP2"} :
            LET esk == Emit(Now, k, Packet("ESK", d), <<>>)
                out == Emit(esk, k, Packet(c, d), <<>>)
            IN Become([out EXCEPT !.stack = Append(@, Filter(c))])
    /\ mode' = mode

\* Mutant of BelowLiteral: the signer stays on the stack.
MutBelowLiteral(k) == Through(stack, k)

\* LiteralWriter::build: a signer directly underneath is popped off the stack
\* before the header is written.
BelowLiteral(k) == Through(stack, k) \ {k - 1}

PushLiteral ==
    /\ mode = "building"
    /\ LET k == Len(stack) + 1
           i == Len(wire) + 1
       IN /\ wire' = Append(wire, Packet("LIT", Depth(stack, k)))
          /\ stack' = Append(Hashed(stack, BelowLiteral(k), Head_(i)),
                             Filter("LIT"))
          /\ over' = Append(over, <<>>)
    /\ mode' = "writing"

\* LiteralWriter::write: the popped signer is given the body, too.
WriteBody ==
    /\ mode = "writing"
    /\ stack' = Hashed(stack, Through(stack, Len(stack)), Body_(Len(wire)))
    /\ mode' = "finalizing"
    /\ UNCHANGED <<wire, over>>

-----------------------------------------------------------------------------
(* Finalizing it, from the top. *)

\* Signer::into_inner: the signatures in reverse, so that they bracket.
EmitSignatures ==
    /\ mode = "finalizing"
    /\ stack # <<>>
    /\ Last(stack).kind = "Signer"
    /\ LET k == Len(stack)
           s == Last(stack)
           sigs == [i \in 1..s.n |-> Sig(s.algo, Depth(stack, k))]
           out == FoldLeft(LAMBDA o, p : Emit(o, k, p, s.hashed), Now, sigs)
       IN Become([out EXCEPT !.stack = Front(@)])
    /\ mode' = mode

\* The literal writer, a compressor and an AEAD encryptor emit nothing more;
\* an Encryptor for SEIPDv1 closes with the modification detection code.
PopFilter ==
    /\ mode = "finalizing"
    /\ stack # <<>>
    /\ Last(stack).kind # "Signer"
    /\ LET d == Depth(stack, Len(stack)) + 1
           mdc == Last(stack).kind = "SEIP1"
       IN /\ wire' = IF mdc THEN Append(wire, Packet("MDC", d)) ELSE wire
          /\ over' = IF mdc THEN Append(over, <<>>) ELSE over
          /\ stack' = Front(stack)
    /\ mode' = mode

WriterNext ==
    \/ PushSigner
    \/ PushCompressor
    \/ PushEncryptor
    \/ PushLiteral
    \/ WriteBody
    \/ EmitSignatures
    \/ PopFilter
=============================================================================
