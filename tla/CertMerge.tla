------------------------------ MODULE CertMerge ------------------------------
(* Certificates that are put together from packets arriving in any order: a   *)
(* packet sequence is parsed into components with the signatures that follow  *)
(* them, canonicalize() moves every signature to the component it belongs to, *)
(* and certificates are merged, updated with packets, stripped and trimmed    *)
(* (openpgp/src/cert.rs, cert/bundle.rs, cert/parser/mod.rs).                 *)
(*                                                                            *)
(* Signatures are compared modulo their unhashed area, so a list of           *)
(* signatures that was sorted and deduplicated is a set.  Which of a          *)
(* component's five lists a signature is in follows from its type and issuer. *)
EXTENDS Naturals, Sequences

CONSTANTS
    Holders,        \* who keeps a copy of the certificate
    Order,          \* the components, as into_packets() emits them
    Userids,        \* components that are user IDs
    Subkeys,        \* components that are subkeys
    Unknowns,       \* components of an unknown kind
    Sigs,           \* signatures
    Over,           \* signature |-> the component it was made over
    Foreign,        \* signatures by somebody else
    Approvals,      \* certification approval signatures
    MaxSecret       \* ways to protect a secret key

Primary == "primary"
Bad == "bad"
Components == Userids \union Subkeys \union Unknowns
Keys == {Primary} \union Subkeys
Places == {Primary, Bad} \union Components

ASSUME CertMergeAssumption ==
    /\ Order \in Seq(Components) /\ {Order[i] : i \in 1..Len(Order)} = Components
    /\ Primary \notin Components /\ Bad \notin Components
    /\ Foreign \subseteq Sigs /\ Approvals \subseteq Sigs
    /\ MaxSecret \in Nat

\* Variants of a key: without a secret, and the ways to protect one.
NoSecret == 0
Secrets == 0..MaxSecret

VARIABLES
    cert,           \* holder |-> its copy
    given,          \* holder |-> what it was given and did not drop
    inserting       \* the call of insert_packets() that has begun, if any: whose
                    \* copy it is, and what the next signature would follow

vars == <<cert, given, inserting>>

-----------------------------------------------------------------------------
(* Canonicalization. *)

\* The signature's type suits the component and the digest prefix matches.
Fits(s, p) == Over[s] = p /\ p \notin Unknowns /\ p # Bad

Known(c) == {Primary} \union (c.comps \ Unknowns)

\* A signature that is out of place is tried on every component; approvals
\* only if they are by the certificate's owner.
Tried(s) == s \notin Approvals \/ s \notin Foreign

Found(c, s) == Tried(s) /\ \E p \in Known(c) : Fits(s, p)

InPlace(c, p) == {s \in c.at[p] : Fits(s, p)}

\* What does not belong where it is, and what is on unknown components.
Loose(c) == c.at[Bad] \union UNION {c.at[p] \ InPlace(c, p) : p \in Known(c)}
Parked(c) == UNION {c.at[u] : u \in c.comps \intersect Unknowns}

\* Mutant of canonicalize: signatures on unknown components stay there.
MutCanonicalize(c) ==
    [c EXCEPT !.at = [p \in Places |->
        CASE p \in Known(c) ->
               InPlace(c, p) \union {s \in Loose(c) : Tried(s) /\ Fits(s, p)}
          [] p = Bad -> {s \in Loose(c) : ~Found(c, s)}
          [] OTHER -> c.at[p]]]

canonicalize(c) ==
    [c EXCEPT !.at = [p \in Places |->
        CASE p \in Known(c) ->
               InPlace(c, p) \union {s \in Loose(c) \union Parked(c) :
                                        Tried(s) /\ Fits(s, p)}
          [] p = Bad -> {s \in Loose(c) : ~Found(c, s)}
          [] OTHER -> {s \in c.at[p] : ~Found(c, s)}]]

-----------------------------------------------------------------------------
(* Packets: into_packets() and the certificate parser. *)

\* The component that a signature at the end of the packets follows.
LastOf(comps) ==
    LET present == {i \in 1..Len(Order) : Order[i] \in comps}
    IN IF present = {} THEN Primary
       ELSE Order[CHOOSE i \in present : \A j \in present : j <= i]

\* The copy as the parser sees it again: the bad signatures come last, and so
\* end up on the last component.  (Packets that cannot be parsed as signatures,
\* which the grammar drops, are not among the signatures of the model.)
Reparsed(c) ==
    [c EXCEPT !.at = [p \in Places |->
        CASE p = Bad -> {}
          [] p = LastOf(c.comps) -> c.at[p] \union c.at[Bad]
          [] OTHER -> c.at[p]]]

\* One more signature behind the packets of c, the last component of which is
\* last.  A signature that is there already keeps its place.
WithSig(c, last, s) ==
    IF \E p \in Places : s \in c.at[p] THEN c
    ELSE [c EXCEPT !.at = [p \in Places |->
                              IF p = last THEN c.at[p] \union {s} ELSE c.at[p]]]

\* One more component.  A key that is there already in another variant takes the
\* place of the old one.
WithComponent(c, k, v) ==
    [c EXCEPT !.comps = @ \union ({k} \ {Primary}),
              !.secret = [@ EXCEPT ![k] = v]]

-----------------------------------------------------------------------------
(* Merging. *)

strip_secret_key_material(c) ==
    [c EXCEPT !.secret = [k \in DOMAIN @ |-> NoSecret]]

\* Mutant of PreferLater: the later variant is kept in any case.
MutPreferLater(a, b) == b

\* The later variant of a key is kept if it has a secret.
PreferLater(a, b) == IF b # NoSecret THEN b ELSE a

\* The unknown components of other are not taken over.
merge_public_and_secret(c, other) ==
    canonicalize(
        [comps |-> c.comps \union (other.comps \ Unknowns),
         secret |-> [k \in DOMAIN c.secret |->
                        PreferLater(c.secret[k], other.secret[k])],
         at |-> [p \in Places |-> c.at[p] \union
                    (IF p \in Unknowns THEN {} ELSE other.at[p])]])

merge_public(c, other) ==
    merge_public_and_secret(c, strip_secret_key_material(other))

retain(c, comps) ==
    [c EXCEPT !.comps = comps,
              !.secret = [k \in DOMAIN @ |->
                             IF k \in comps \union {Primary} THEN @[k] ELSE NoSecret],
              !.at = [p \in Places |->
                         IF p \in Components \ comps THEN {} ELSE @[p]]]

-----------------------------------------------------------------------------
(* The operations on the copies. *)

Bare == [comps |-> {}, secret |-> [k \in Keys \union Components |-> NoSecret],
         at |-> [p \in Places |-> {}]]

Nothing == [comps |-> {}, sigs |-> {}]

Init ==
    /\ cert = [h \in Holders |-> Bare]
    /\ given = [h \in Holders |-> Nothing]
    /\ inserting = {}

Put(h, c, g) ==
    /\ cert' = [cert EXCEPT ![h] = c]
    /\ given' = [given EXCEPT ![h] = g]

\* A call of another function.  While packets are inserted nothing else is done
\* with the copy, and what other copies go through meanwhile makes no difference.
Step(h, c, g) == inserting = {} /\ Put(h, c, g) /\ UNCHANGED inserting

Given(g, comps, sigs) ==
    [comps |-> g.comps \union comps, sigs |-> g.sigs \union sigs]

\* insert_packets(): the packets of the copy, then the new ones one by one, and
\* at the end the parser, which canonicalizes.
InsertPackets(h) ==
    /\ inserting = {}
    /\ inserting' = {[holder |-> h, last |-> LastOf(cert[h].comps)]}
    /\ Put(h, Reparsed(cert[h]), given[h])

InsertSig(call, s) ==
    LET h == call.holder
    IN /\ Put(h, WithSig(cert[h], call.last, s), Given(given[h], {}, {s}))
       /\ UNCHANGED inserting

InsertComponent(call, k, v) ==
    LET h == call.holder
        new == k \notin cert[h].comps \union {Primary}
    IN /\ k \notin Keys => v = NoSecret
       /\ Put(h, WithComponent(cert[h], k, v), Given(given[h], {k} \ {Primary}, {}))
       /\ inserting' = {[holder |-> h, last |-> IF new THEN k ELSE call.last]}

InsertEnd(call) ==
    /\ Put(call.holder, canonicalize(cert[call.holder]), given[call.holder])
    /\ inserting' = {}

\* What other has to offer: not its unknown components and what is on them.
Offered(other) ==
    [comps |-> given[other].comps \ Unknowns,
     sigs |-> UNION {cert[other].at[p] : p \in Places \ Unknowns}]

MergePublic(h, other) ==
    Step(h, merge_public(cert[h], cert[other]),
         Given(given[h], Offered(other).comps, Offered(other).sigs))

MergePublicAndSecret(h, other) ==
    Step(h, merge_public_and_secret(cert[h], cert[other]),
         Given(given[h], Offered(other).comps, Offered(other).sigs))

Strip(h) == Step(h, strip_secret_key_material(cert[h]), given[h])

\* retain_userids() and retain_subkeys(): the components go, and what is on them.
Retain(h) ==
    \E k \in cert[h].comps \ Unknowns :
        LET gone == {s \in cert[h].at[k] : \A p \in Places \ {k} : s \notin cert[h].at[p]}
        IN Step(h, retain(cert[h], cert[h].comps \ {k}),
                [comps |-> given[h].comps \ {k}, sigs |-> given[h].sigs \ gone])

Next ==
    \/ \E h \in Holders : InsertPackets(h) \/ Strip(h) \/ Retain(h)
    \/ \E call \in inserting, s \in Sigs : InsertSig(call, s)
    \/ \E call \in inserting, k \in Components \union {Primary}, v \in Secrets :
          InsertComponent(call, k, v)
    \/ \E call \in inserting : InsertEnd(call)
    \/ \E h, other \in Holders : MergePublic(h, other) \/ MergePublicAndSecret(h, other)

Spec == Init /\ [][Next]_vars

-----------------------------------------------------------------------------
(* Properties. *)

\* A copy that no packets are being inserted into.
Whole(h) == \A call \in inserting : call.holder # h

\* The order in which packets arrived leaves no trace: every copy has exactly
\* the components it was given, every component has exactly the signatures over
\* it, and the signatures whose component is not there yet are all kept, as bad
\* signatures or on an unknown component.  The exception are approvals by others,
\* which nobody looks for a place for: they may be found where they fit, among
\* the bad ones, or in both.
\* (Cert::canonicalize, merge_public_and_secret, insert_packets.)
OrderIndependent ==
    \A h \in Holders : Whole(h) =>
        LET c == cert[h]  g == given[h]
            kept == c.at[Bad] \union Parked(c)
            homeless == {s \in g.sigs : \A p \in Known(c) : ~Fits(s, p)}
        IN /\ c.comps = g.comps
           /\ \A p \in Known(c) : \A s \in g.sigs :
                 /\ s \in c.at[p] => Fits(s, p)
                 /\ Fits(s, p) => s \in c.at[p] \/ (~Tried(s) /\ s \in kept)
           /\ homeless \subseteq kept /\ \A s \in kept \ homeless : ~Tried(s)
           /\ UNION {c.at[p] : p \in Places} = g.sigs

\* Whatever the copies went through, merging one with itself changes nothing,
\* a public merge leaves its secrets alone, a merge with secrets loses none,
\* and two copies without unknown components agree on components and
\* signatures whichever is merged into the other.
\* (Cert::merge_public, merge_public_and_secret, sort_and_dedup.)
MergeLaws ==
    \A h, other \in Holders : Whole(h) /\ Whole(other) =>
        LET c == cert[h]  o == cert[other]
            public == merge_public(c, o)
            both == merge_public_and_secret(c, o)
            back == merge_public(o, c)
        IN /\ h = other => both = c
           /\ public.secret = c.secret
           /\ \A k \in Keys : c.secret[k] # NoSecret => both.secret[k] # NoSecret
           /\ (c.comps \union o.comps) \intersect Unknowns = {} =>
                public.comps = back.comps /\ public.at = back.at
=============================================================================
