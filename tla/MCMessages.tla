------------------------------ MODULE MCMessages ------------------------------
(* Packet sequences for Messages: every short flat sequence, brackets of up to *)
(* three signatures around a message, and containers, two of them nested, with *)
(* short contents.                                                             *)
EXTENDS Messages

CONSTANTS
    FlatLength,     \* packets of a flat sequence
    InnerLength     \* packets in a container

Opss(d) == {OnePass(a, l, d) : a \in Algos, l \in BOOLEAN}
Sigs(d) == {Sig(a, d) : a \in Algos}
Others(d) == {Packet(t, d) : t \in {"LIT", "MARKER", "UNKNOWN", "ESK"}}

Flat(S, n) == UNION {[1..k -> S] : k \in 0..n}

FlatWires == Flat(Opss(0) \union Sigs(0) \union Others(0), FlatLength) \ {<<>>}

\* One algorithm is enough where the container is the point.
Contents(d) == Flat({OnePass(a, TRUE, d) : a \in Supported}
                      \union {Sig(a, d) : a \in Supported}
                      \union {Packet(t, d) : t \in {"LIT", "COMP"}}
                      \union {Packet(t, d + 1) : t \in {"LIT", "MARKER"}},
                    InnerLength)
Nestings(w) == \A i \in DOMAIN w : w[i].d = 2 =>
                    i > 1 /\ (w[i - 1].d = 2 \/ w[i - 1].t = "COMP")
Mdc(ok, d) == [Packet("MDC", d) EXCEPT !.ok = ok]

\* In a container, a container with a modification detection code.
Sealed ==
    {<<Packet("SEIP1", 1)>> \o c \o <<Mdc(ok, 2)>> : ok \in BOOLEAN,
        c \in Flat({OnePass(a, TRUE, 2) : a \in Supported}
                    \union {Sig(a, 2) : a \in Supported} \union {Packet("LIT", 2)},
                  InnerLength)}

Filled == {c \in Contents(1) : Nestings(c)}
Bodies ==
    {<<Packet(t, 0)>> \o c : t \in {"COMP", "SEIP2"}, c \in Filled}
    \union {<<Packet("SEIP1", 0)>> \o c \o <<Mdc(ok, 1)>> : c \in Filled, ok \in BOOLEAN}
    \union {<<Packet(t, 0)>> \o s : t \in {"COMP", "SEIP2"}, s \in Sealed}
    \union {<<Packet("SEIP1", 0)>> \o s \o <<Mdc(ok, 1)>> : s \in Sealed, ok \in BOOLEAN}
    \union {<<Packet("COMP", 0), OnePass(a, TRUE, 1)>> \o s \o <<Sig(a, 1)>> :
              a \in Supported, s \in Sealed}
BoxedWires ==
    Bodies \union {b \o <<p>> : b \in Bodies, p \in {Packet("LIT", 0), Packet("COMP", 0)}}

Bracketed ==
    {<<Packet("LIT", 0)>>, <<Packet("COMP", 0), Packet("LIT", 1)>>}
    \union {<<Packet("COMP", 0), OnePass(a, TRUE, 1), Packet("LIT", 1), Sig(a, 1)>> :
              a \in Supported}
BracketWires ==
    UNION {{o \o m \o s : o \in [1..n -> Opss(0)], m \in Bracketed,
                          s \in [1..n -> Sigs(0)]} : n \in 2..3}

MCWires == FlatWires \union BoxedWires \union BracketWires
=============================================================================
