--------------------------- MODULE CertMergeProofs ---------------------------
(******************************************************************************)
(* The properties of CertMerge for any number of holders, components and      *)
(* signatures, and for calls of insert_packets() with any number of packets   *)
(* in any order.                                                              *)
(*                                                                            *)
(* The invariant says of every copy that it holds what it was given and       *)
(* nothing on components that are not there (Holds), and of one that no       *)
(* packets are being inserted into that canonicalize() would leave it as it   *)
(* is (Canonical).  The lemmas say of each operation what it does to the two. *)
(******************************************************************************)
EXTENDS CertMerge, WellFoundedInduction, TLAPS

Certs == [comps : SUBSET Components,
          secret : [Keys \union Components -> Secrets],
          at : [Places -> SUBSET Sigs]]

Gifts == [comps : SUBSET Components, sigs : SUBSET Sigs]

(* The signatures of a copy, wherever they are. *)
AllSigs(c) == {s \in Sigs : \E p \in Places : s \in c.at[p]}

(* A component that is not there has no signatures. *)
Tidy(c) == \A p \in Components \ c.comps : c.at[p] = {}

Holds(c, g) == c \in Certs /\ Tidy(c) /\ c.comps = g.comps /\ AllSigs(c) = g.sigs

(* What canonicalize() establishes: the signatures on known components fit,   *)
(* and for the others no place is found.                                      *)
Canonical(c) ==
    /\ \A p \in Known(c) : \A s \in c.at[p] : Fits(s, p)
    /\ \A s \in c.at[Bad] \union Parked(c) : ~Found(c, s)

(* The call of insert_packets() that is under way. *)
CallInv ==
    /\ \A call \in inserting :
          /\ call = [holder |-> call.holder, last |-> call.last]
          /\ call.holder \in Holders
          /\ call.last \in {Primary} \union cert[call.holder].comps
    /\ \A a, b \in inserting : a = b

IInv ==
    /\ cert \in [Holders -> Certs] /\ given \in [Holders -> Gifts]
    /\ CallInv
    /\ \A h \in Holders : Holds(cert[h], given[h]) /\ (Whole(h) => Canonical(cert[h]))

------------------------------------------------------------------------------
(* The places, and the last of them. *)

LEMMA PlaceFacts ==
    /\ Primary \in Places /\ Bad \in Places /\ Primary # Bad
    /\ Primary \notin Components /\ Bad \notin Components
    /\ Components \subseteq Places /\ Unknowns \subseteq Components
    /\ Keys \union Components = {Primary} \union Components
    /\ 0 \in Secrets
<1>1. Primary # Bad
  BY DEF Primary, Bad
<1>2. Primary \notin Components /\ Bad \notin Components /\ MaxSecret \in Nat
  BY CertMergeAssumption
<1>3. Components \subseteq Places /\ Unknowns \subseteq Components
      /\ Primary \in Places /\ Bad \in Places
      /\ Keys \union Components = {Primary} \union Components
  BY DEF Components, Places, Keys
<1>4. 0 \in Secrets
  BY <1>2 DEF Secrets
<1> QED BY <1>1, <1>2, <1>3, <1>4

(* A set of places in a sequence that is not empty has a last one. *)
LEMMA LastExists ==
    ASSUME NEW n \in Nat, NEW S \in SUBSET (1..n), S # {}
    PROVE  \E i \in S : \A j \in S : j <= i
<1> DEFINE T == {k \in Nat : \E i \in S : k = n - i}
           R == OpToRel(<, Nat)
<1>1. T \subseteq Nat /\ T # {}
  <2>1. PICK i \in S : TRUE
    OBVIOUS
  <2>2. n - i \in Nat
    BY <2>1
  <2>3. n - i \in T
    BY <2>1, <2>2
  <2> QED BY <2>3
<1>2. PICK k \in T : \A y \in T : ~(<<y, k>> \in R)
  <2> HIDE DEF T
  <2> QED BY <1>1, NatLessThanWellFounded, WFMin
<1>3. PICK i \in S : k = n - i
  BY <1>2
<1>4. ASSUME NEW j \in S PROVE j <= i
  <2>1. n - j \in Nat /\ n - j \in T
    OBVIOUS
  <2>2. ~(n - j < k)
    <3> DEFINE y == n - j
    <3>1. ~(<<y, k>> \in R)
      BY <1>2, <2>1
    <3>2. k \in Nat /\ y \in Nat
      BY <1>1, <1>2, <2>1
    <3> HIDE DEF T, y
    <3>3. ~(y < k)
      BY <3>1, <3>2 DEF OpToRel
    <3> QED BY <3>3 DEF y
  <2> QED BY <1>3, <2>2
<1> QED BY <1>4

LEMMA LastOfIs ==
    ASSUME NEW comps \in SUBSET Components
    PROVE  LastOf(comps) \in {Primary} \union comps
<1> DEFINE present == {i \in 1..Len(Order) : Order[i] \in comps}
<1>1. CASE present = {}
  BY <1>1 DEF LastOf
<1>2. CASE present # {}
  <2>1. Len(Order) \in Nat
    BY CertMergeAssumption
  <2>2. \E i \in present : \A j \in present : j <= i
    <3> DEFINE n == Len(Order)
    <3>1. present \in SUBSET (1..n)
      OBVIOUS
    <3> HIDE DEF present, n
    <3> QED BY <1>2, <2>1, <3>1, LastExists DEF n
  <2> DEFINE i == CHOOSE i \in present : \A j \in present : j <= i
  <2>3. i \in present
    BY <2>2
  <2>4. LastOf(comps) = Order[i]
    BY <1>2 DEF LastOf
  <2> QED BY <2>3, <2>4
<1> QED BY <1>1, <1>2

------------------------------------------------------------------------------
(* What the operations do to a copy. *)

(* The parts of a copy. *)
LEMMA CertParts ==
    ASSUME NEW c \in Certs
    PROVE  /\ c.comps \in SUBSET Components
           /\ c.secret \in [Keys \union Components -> Secrets]
           /\ c.at \in [Places -> SUBSET Sigs]
           /\ c = [comps |-> c.comps, secret |-> c.secret, at |-> c.at]
BY DEF Certs

(* A copy whose signatures have been moved. *)
LEMMA MovedIs ==
    ASSUME NEW c \in Certs, NEW at
    PROVE  [c EXCEPT !.at = at] = [comps |-> c.comps, secret |-> c.secret, at |-> at]
BY DEF Certs

LEMMA MakeCert ==
    ASSUME NEW comps \in SUBSET Components,
           NEW secret \in [Keys \union Components -> Secrets],
           NEW at \in [Places -> SUBSET Sigs]
    PROVE  [comps |-> comps, secret |-> secret, at |-> at] \in Certs
BY DEF Certs

LEMMA KnownPlaces ==
    ASSUME NEW c \in Certs
    PROVE  /\ Known(c) \subseteq Places /\ Bad \notin Known(c)
           /\ Known(c) \intersect Unknowns = {}
           /\ \A p \in Places \ Known(c) : p = Bad \/ p \in Unknowns \/ p \in Components \ c.comps
<1>1. c.comps \subseteq Components
  BY CertParts
<1>2. Known(c) = {Primary} \union (c.comps \ Unknowns)
  BY DEF Known
<1> QED BY <1>1, <1>2, PlaceFacts DEF Places

(* insert_packets() starts with all the signatures of the copy. *)
LEMMA ReparsedIs ==
    ASSUME NEW c \in Certs, Tidy(c)
    PROVE  /\ Reparsed(c) \in Certs /\ Tidy(Reparsed(c))
           /\ Reparsed(c).comps = c.comps /\ AllSigs(Reparsed(c)) = AllSigs(c)
<1> DEFINE l == LastOf(c.comps)
           at == [p \in Places |-> CASE p = Bad -> {}
                                     [] p = l -> c.at[p] \union c.at[Bad]
                                     [] OTHER -> c.at[p]]
           d == [comps |-> c.comps, secret |-> c.secret, at |-> at]
<1>1. Reparsed(c) = d
  BY MovedIs DEF Reparsed
<1>2. l \in Places /\ l # Bad /\ l \in {Primary} \union c.comps
  BY CertParts, LastOfIs, PlaceFacts
<1> HIDE DEF l
<1>3. at \in [Places -> SUBSET Sigs]
  BY <1>2, CertParts, PlaceFacts
<1>4. \A p \in Places : d.at[p] = CASE p = Bad -> {}
                                    [] p = l -> c.at[p] \union c.at[Bad]
                                    [] OTHER -> c.at[p]
  OBVIOUS
<1>5. d \in Certs /\ d.comps = c.comps
  <2> HIDE DEF at
  <2> QED BY <1>3, CertParts, MakeCert
<1> HIDE DEF d
<1>6. Tidy(d)
  <2> SUFFICES ASSUME NEW p \in Components \ c.comps PROVE d.at[p] = {}
    BY <1>5 DEF Tidy
  <2>1. p \in Places /\ p # l /\ p # Bad /\ c.at[p] = {}
    BY <1>2, PlaceFacts DEF Tidy
  <2> QED BY <1>4, <2>1
<1>7. AllSigs(d) = AllSigs(c)
  <2>1. ASSUME NEW s \in Sigs, NEW p \in Places, s \in d.at[p]
        PROVE  \E q \in Places : s \in c.at[q]
    BY <1>4, <2>1, PlaceFacts
  <2>2. ASSUME NEW s \in Sigs, NEW p \in Places, s \in c.at[p]
        PROVE  \E q \in Places : s \in d.at[q]
    <3>1. CASE p = Bad
      BY <1>2, <1>4, <2>2, <3>1
    <3>2. CASE p # Bad
      BY <1>4, <2>2, <3>2
    <3> QED BY <3>1, <3>2
  <2> QED BY <2>1, <2>2 DEF AllSigs
<1> QED BY <1>1, <1>5, <1>6, <1>7

LEMMA WithSigIs ==
    ASSUME NEW c \in Certs, Tidy(c), NEW last \in {Primary} \union c.comps, NEW s \in Sigs
    PROVE  /\ WithSig(c, last, s) \in Certs /\ Tidy(WithSig(c, last, s))
           /\ WithSig(c, last, s).comps = c.comps
           /\ AllSigs(WithSig(c, last, s)) = AllSigs(c) \union {s}
<1>1. CASE \E p \in Places : s \in c.at[p]
  <2>1. WithSig(c, last, s) = c
    BY <1>1 DEF WithSig
  <2>2. s \in AllSigs(c)
    BY <1>1 DEF AllSigs
  <2> QED BY <2>1, <2>2
<1>2. CASE ~ \E p \in Places : s \in c.at[p]
  <2> DEFINE at == [p \in Places |-> IF p = last THEN c.at[p] \union {s} ELSE c.at[p]]
             d == [comps |-> c.comps, secret |-> c.secret, at |-> at]
  <2>1. WithSig(c, last, s) = d
    BY <1>2, MovedIs DEF WithSig
  <2>2. last \in Places
    BY CertParts, PlaceFacts
  <2>3. at \in [Places -> SUBSET Sigs]
    BY CertParts
  <2>4. \A p \in Places : d.at[p] = IF p = last THEN c.at[p] \union {s} ELSE c.at[p]
    OBVIOUS
  <2>5. d \in Certs /\ d.comps = c.comps
    <3> HIDE DEF at
    <3> QED BY <2>3, CertParts, MakeCert
  <2> HIDE DEF d
  <2>6. Tidy(d)
    <3> SUFFICES ASSUME NEW p \in Components \ c.comps PROVE d.at[p] = {}
      BY <2>5 DEF Tidy
    <3> QED BY <2>4, PlaceFacts DEF Tidy
  <2>7. AllSigs(d) = AllSigs(c) \union {s}
    BY <2>2, <2>4 DEF AllSigs
  <2> QED BY <2>1, <2>5, <2>6, <2>7
<1> QED BY <1>1, <1>2

LEMMA WithComponentIs ==
    ASSUME NEW c \in Certs, Tidy(c), NEW k \in Components \union {Primary}, NEW v \in Secrets
    PROVE  /\ WithComponent(c, k, v) \in Certs /\ Tidy(WithComponent(c, k, v))
           /\ WithComponent(c, k, v).comps = c.comps \union ({k} \ {Primary})
           /\ AllSigs(WithComponent(c, k, v)) = AllSigs(c)
<1> DEFINE comps == c.comps \union ({k} \ {Primary})
           secret == [c.secret EXCEPT ![k] = v]
           d == [comps |-> comps, secret |-> secret, at |-> c.at]
<1>1. WithComponent(c, k, v) = d
  <2>1. WithComponent(c, k, v) = [c EXCEPT !.comps = comps, !.secret = secret]
    BY DEF WithComponent
  <2> HIDE DEF comps, secret
  <2> QED BY <2>1 DEF Certs
<1>2. comps \in SUBSET Components
  BY CertParts
<1>3. secret \in [Keys \union Components -> Secrets]
  BY CertParts
<1>4. d \in Certs /\ d.comps = comps /\ d.at = c.at
  <2> HIDE DEF comps, secret
  <2> QED BY <1>2, <1>3, CertParts, MakeCert
<1> HIDE DEF d
<1>5. Tidy(d)
  BY <1>4 DEF Tidy
<1>6. AllSigs(d) = AllSigs(c)
  BY <1>4 DEF AllSigs
<1> QED BY <1>1, <1>4, <1>5, <1>6

(* canonicalize(), by the places of a signature: it stays where it fits,      *)
(* moves to where it is found to fit, and otherwise stays on its unknown      *)
(* component or is bad.                                                       *)
LEMMA CanonicalizeAt ==
    ASSUME NEW c \in Certs
    PROVE  /\ canonicalize(c) \in Certs
           /\ canonicalize(c).comps = c.comps /\ canonicalize(c).secret = c.secret
           /\ \A p \in Known(c) :
                canonicalize(c).at[p] =
                  InPlace(c, p) \union {s \in Loose(c) \union Parked(c) :
                                          Tried(s) /\ Fits(s, p)}
           /\ canonicalize(c).at[Bad] = {s \in Loose(c) : ~Found(c, s)}
           /\ \A p \in Places \ (Known(c) \union {Bad}) :
                canonicalize(c).at[p] = {s \in c.at[p] : ~Found(c, s)}
<1> DEFINE new(p) == CASE p \in Known(c) ->
                            InPlace(c, p) \union {s \in Loose(c) \union Parked(c) :
                                                    Tried(s) /\ Fits(s, p)}
                       [] p = Bad -> {s \in Loose(c) : ~Found(c, s)}
                       [] OTHER -> {s \in c.at[p] : ~Found(c, s)}
           at == [p \in Places |-> new(p)]
           d == [comps |-> c.comps, secret |-> c.secret, at |-> at]
<1>1. canonicalize(c) = d
  BY MovedIs DEF canonicalize
<1>2. /\ Known(c) \subseteq Places /\ Bad \notin Known(c) /\ Bad \in Places
  BY KnownPlaces, PlaceFacts
<1>3. \A p \in Places : c.at[p] \subseteq Sigs /\ InPlace(c, p) \subseteq Sigs
  BY CertParts DEF InPlace
<1>4. Parked(c) \subseteq Sigs
  BY <1>3, CertParts, PlaceFacts DEF Parked
<1>5. Loose(c) \subseteq Sigs
  BY <1>2, <1>3 DEF Loose
<1>6. \A p \in Places : new(p) \in SUBSET Sigs
  BY <1>2, <1>3, <1>4, <1>5
<1>7. at \in [Places -> SUBSET Sigs] /\ \A p \in Places : at[p] = new(p)
  BY <1>6
<1>8. d \in Certs /\ d.comps = c.comps /\ d.secret = c.secret /\ d.at = at
  <2> HIDE DEF at
  <2> QED BY <1>7, CertParts, MakeCert
<1> HIDE DEF d, at
<1> QED BY <1>1, <1>2, <1>7, <1>8

(* canonicalize() loses and adds nothing. *)
LEMMA CanonicalizeIs ==
    ASSUME NEW c \in Certs, Tidy(c)
    PROVE  /\ canonicalize(c) \in Certs /\ Tidy(canonicalize(c))
           /\ canonicalize(c).comps = c.comps /\ canonicalize(c).secret = c.secret
           /\ AllSigs(canonicalize(c)) = AllSigs(c) /\ Canonical(canonicalize(c))
<1> DEFINE d == canonicalize(c)
           moved(p) == {s \in Loose(c) \union Parked(c) : Tried(s) /\ Fits(s, p)}
<1>1. /\ d \in Certs /\ d.comps = c.comps /\ d.secret = c.secret
      /\ \A p \in Known(c) : d.at[p] = InPlace(c, p) \union moved(p)
      /\ d.at[Bad] = {s \in Loose(c) : ~Found(c, s)}
      /\ \A p \in Places \ (Known(c) \union {Bad}) : d.at[p] = {s \in c.at[p] : ~Found(c, s)}
  BY CanonicalizeAt
<1> HIDE DEF d
<1>2. /\ Known(c) \subseteq Places /\ Bad \notin Known(c) /\ Bad \in Places
      /\ Known(c) \intersect Unknowns = {}
      /\ \A p \in Places \ Known(c) : p = Bad \/ p \in Unknowns \/ p \in Components \ c.comps
  BY KnownPlaces, PlaceFacts
<1>3. Known(d) = Known(c)
  BY <1>1 DEF Known
<1>4. \A s : Found(d, s) <=> Found(c, s)
  BY <1>3 DEF Found
<1>5. Tidy(d)
  <2> SUFFICES ASSUME NEW p \in Components \ c.comps PROVE d.at[p] = {}
    BY <1>1 DEF Tidy
  <2>1. p \in Places \ (Known(c) \union {Bad}) /\ c.at[p] = {}
    BY PlaceFacts DEF Tidy, Known
  <2> QED BY <1>1, <2>1
<1>6. /\ Loose(c) = {s \in Sigs : \/ s \in c.at[Bad]
                                  \/ \E p \in Known(c) : s \in c.at[p] /\ ~Fits(s, p)}
      /\ Parked(c) = {s \in Sigs : \E u \in c.comps \intersect Unknowns : s \in c.at[u]}
      /\ \A p \in Places : InPlace(c, p) = {s \in c.at[p] : Fits(s, p)}
  <2>1. \A p \in Places : c.at[p] \subseteq Sigs
    BY CertParts
  <2>2. c.comps \intersect Unknowns \subseteq Places
    BY CertParts, PlaceFacts
  <2> QED BY <1>2, <2>1, <2>2 DEF Loose, Parked, InPlace
<1>7. Parked(d) = {s \in Parked(c) : ~Found(c, s)}
  <2>1. \A u \in c.comps \intersect Unknowns : d.at[u] = {s \in c.at[u] : ~Found(c, s)}
    BY <1>1, <1>2, CertParts, PlaceFacts
  <2> QED BY <1>1, <2>1 DEF Parked
<1>8. Canonical(d)
  <2>1. ASSUME NEW p \in Known(d), NEW s \in d.at[p] PROVE Fits(s, p)
    BY <1>1, <1>2, <1>3, <1>6, <2>1
  <2>2. ASSUME NEW s \in d.at[Bad] \union Parked(d) PROVE ~Found(d, s)
    BY <1>1, <1>4, <1>7, <2>2
  <2> QED BY <2>1, <2>2 DEF Canonical
<1>9. ASSUME NEW s \in Sigs, NEW p \in Places, s \in d.at[p]
      PROVE  \E q \in Places : s \in c.at[q]
  <2>1. CASE p \in Known(c)
    BY <1>1, <1>2, <1>6, <1>9, <2>1, CertParts, PlaceFacts
  <2>2. CASE p = Bad
    BY <1>1, <1>2, <1>6, <1>9, <2>2
  <2>3. CASE p \notin Known(c) \union {Bad}
    BY <1>1, <1>9, <2>3
  <2> QED BY <2>1, <2>2, <2>3
<1>10. ASSUME NEW s \in Sigs, NEW p \in Places, s \in c.at[p]
       PROVE  \E q \in Places : s \in d.at[q]
  <2>1. CASE p \in Known(c) /\ Fits(s, p)
    BY <1>1, <1>6, <1>10, <2>1
  <2>2. CASE Found(c, s) /\ ~(p \in Known(c) /\ Fits(s, p))
    <3>1. PICK q \in Known(c) : Fits(s, q) /\ Tried(s)
      BY <2>2 DEF Found
    <3>2. p \in Components \ c.comps => c.at[p] = {}
      BY DEF Tidy
    <3>3. s \in Loose(c) \union Parked(c)
      <4>1. CASE p \in Known(c) \/ p = Bad
        BY <1>6, <1>10, <2>2, <4>1
      <4>2. CASE p \in Unknowns /\ p \in c.comps
        BY <1>6, <1>10, <4>2
      <4> QED BY <1>2, <1>10, <3>2, <4>1, <4>2, PlaceFacts
    <3> QED BY <1>1, <1>2, <3>1, <3>3
  <2>3. CASE ~Found(c, s) /\ p \in Known(c) /\ ~Fits(s, p)
    BY <1>1, <1>2, <1>6, <1>10, <2>3
  <2>4. CASE ~Found(c, s) /\ p = Bad
    BY <1>1, <1>6, <1>10, <2>4
  <2>5. CASE ~Found(c, s) /\ p \notin Known(c) \union {Bad}
    BY <1>1, <1>10, <2>5
  <2> QED BY <2>1, <2>2, <2>3, <2>4, <2>5
<1>11. AllSigs(d) = AllSigs(c)
  BY <1>9, <1>10 DEF AllSigs
<1> QED BY <1>1, <1>5, <1>8, <1>11 DEF d

(* and leaves a copy alone that has been through it. *)
LEMMA CanonicalizeAgain ==
    ASSUME NEW c \in Certs, Tidy(c), Canonical(c)
    PROVE  canonicalize(c) = c
<1> DEFINE d == canonicalize(c)
<1>1. /\ d \in Certs /\ d.comps = c.comps /\ d.secret = c.secret
      /\ \A p \in Known(c) : d.at[p] = InPlace(c, p) \union
                {s \in Loose(c) \union Parked(c) : Tried(s) /\ Fits(s, p)}
      /\ d.at[Bad] = {s \in Loose(c) : ~Found(c, s)}
      /\ \A p \in Places \ (Known(c) \union {Bad}) : d.at[p] = {s \in c.at[p] : ~Found(c, s)}
  BY CanonicalizeAt
<1> HIDE DEF d
<1>2. /\ Known(c) \subseteq Places /\ Bad \notin Known(c) /\ Bad \in Places
      /\ \A p \in Places \ Known(c) : p = Bad \/ p \in Unknowns \/ p \in Components \ c.comps
  BY KnownPlaces, PlaceFacts
<1>3. \A p \in Known(c) : InPlace(c, p) = c.at[p]
  BY DEF Canonical, InPlace
<1>4. Loose(c) = c.at[Bad]
  BY <1>3 DEF Loose
<1>5. ASSUME NEW p \in Places PROVE d.at[p] = c.at[p]
  <2>1. CASE p \in Known(c)
    <3>1. ~ \E s \in Loose(c) \union Parked(c) : Tried(s) /\ Fits(s, p)
      BY <1>4, <2>1 DEF Canonical, Found
    <3>2. d.at[p] = c.at[p] \union {s \in Loose(c) \union Parked(c) : Tried(s) /\ Fits(s, p)}
      BY <1>1, <1>3, <2>1
    <3> QED BY <3>1, <3>2
  <2>2. CASE p = Bad
    BY <1>1, <1>4, <2>2 DEF Canonical
  <2>3. CASE p \notin Known(c) \union {Bad} /\ p \in c.comps
    <3>1. p \in Unknowns
      BY <1>2, <2>3
    <3>2. c.at[p] \subseteq Parked(c)
      BY <2>3, <3>1 DEF Parked
    <3> QED BY <1>1, <2>3, <3>2 DEF Canonical
  <2>4. CASE p \notin Known(c) \union {Bad} /\ p \notin c.comps
    <3>1. c.at[p] = {}
      BY <2>4, PlaceFacts DEF Tidy, Known, Places
    <3> QED BY <1>1, <2>4, <3>1
  <2> QED BY <2>1, <2>2, <2>3, <2>4
<1>6. d.at = c.at
  <2>1. d.at \in [Places -> SUBSET Sigs] /\ c.at \in [Places -> SUBSET Sigs]
    BY <1>1, CertParts
  <2> QED BY <1>5, <2>1
<1>7. /\ d = [comps |-> d.comps, secret |-> d.secret, at |-> d.at]
      /\ c = [comps |-> c.comps, secret |-> c.secret, at |-> c.at]
  BY <1>1, CertParts
<1> QED BY <1>1, <1>6, <1>7 DEF d

LEMMA StripIs ==
    ASSUME NEW c \in Certs
    PROVE  /\ strip_secret_key_material(c) \in Certs
           /\ strip_secret_key_material(c).comps = c.comps
           /\ strip_secret_key_material(c).at = c.at
           /\ \A k \in Keys \union Components : strip_secret_key_material(c).secret[k] = NoSecret
<1> DEFINE secret == [k \in DOMAIN c.secret |-> NoSecret]
           d == [comps |-> c.comps, secret |-> secret, at |-> c.at]
<1>1. strip_secret_key_material(c) = d
  <2>1. strip_secret_key_material(c) = [c EXCEPT !.secret = secret]
    BY DEF strip_secret_key_material
  <2> HIDE DEF secret
  <2> QED BY <2>1 DEF Certs
<1>2. secret \in [Keys \union Components -> Secrets]
      /\ \A k \in Keys \union Components : secret[k] = NoSecret
  BY CertParts, PlaceFacts DEF NoSecret
<1>3. d \in Certs /\ d.comps = c.comps /\ d.at = c.at /\ d.secret = secret
  <2> HIDE DEF secret
  <2> QED BY <1>2, CertParts, MakeCert
<1> QED BY <1>1, <1>2, <1>3

(* The copies side by side, before canonicalize(). *)
Joined(c, o) ==
    [comps |-> c.comps \union (o.comps \ Unknowns),
     secret |-> [k \in DOMAIN c.secret |-> PreferLater(c.secret[k], o.secret[k])],
     at |-> [p \in Places |-> c.at[p] \union (IF p \in Unknowns THEN {} ELSE o.at[p])]]

LEMMA JoinedIs ==
    ASSUME NEW c \in Certs, NEW o \in Certs, Tidy(c), Tidy(o)
    PROVE  /\ Joined(c, o) \in Certs /\ Tidy(Joined(c, o))
           /\ Joined(c, o).comps = c.comps \union (o.comps \ Unknowns)
           /\ \A k \in Keys \union Components :
                Joined(c, o).secret[k] = PreferLater(c.secret[k], o.secret[k])
           /\ \A p \in Places :
                Joined(c, o).at[p] = c.at[p] \union (IF p \in Unknowns THEN {} ELSE o.at[p])
           /\ AllSigs(Joined(c, o)) =
                AllSigs(c) \union UNION {o.at[p] : p \in Places \ Unknowns}
<1> DEFINE comps == c.comps \union (o.comps \ Unknowns)
           secret == [k \in DOMAIN c.secret |-> PreferLater(c.secret[k], o.secret[k])]
           at == [p \in Places |-> c.at[p] \union (IF p \in Unknowns THEN {} ELSE o.at[p])]
           d == [comps |-> comps, secret |-> secret, at |-> at]
<1>1. Joined(c, o) = d
  BY DEF Joined
<1>2. comps \in SUBSET Components
  BY CertParts
<1>3. /\ secret \in [Keys \union Components -> Secrets]
      /\ \A k \in Keys \union Components : secret[k] = PreferLater(c.secret[k], o.secret[k])
  BY CertParts DEF PreferLater
<1>4. at \in [Places -> SUBSET Sigs]
  BY CertParts
<1>5. \A p \in Places : at[p] = c.at[p] \union (IF p \in Unknowns THEN {} ELSE o.at[p])
  OBVIOUS
<1> HIDE DEF secret, at
<1>6. d \in Certs /\ d.comps = comps /\ d.secret = secret /\ d.at = at
  <2> HIDE DEF comps
  <2> QED BY <1>2, <1>3, <1>4, MakeCert
<1> HIDE DEF d
<1>7. Tidy(d)
  <2> SUFFICES ASSUME NEW p \in Components \ comps PROVE at[p] = {}
    BY <1>6 DEF Tidy
  <2>1. p \in Places /\ c.at[p] = {} /\ (p \notin Unknowns => o.at[p] = {})
    BY PlaceFacts DEF Tidy
  <2> QED BY <1>5, <2>1
<1>8. AllSigs(d) = AllSigs(c) \union UNION {o.at[p] : p \in Places \ Unknowns}
  <2>1. \A p \in Places : c.at[p] \subseteq Sigs /\ o.at[p] \subseteq Sigs
    BY CertParts
  <2>2. ASSUME NEW s \in Sigs
        PROVE  (\E p \in Places : s \in d.at[p]) <=>
                 \/ \E p \in Places : s \in c.at[p]
                 \/ \E p \in Places \ Unknowns : s \in o.at[p]
    BY <1>5, <1>6
  <2> QED BY <2>1, <2>2 DEF AllSigs
<1> QED BY <1>1, <1>3, <1>5, <1>6, <1>7, <1>8

LEMMA MergeIs ==
    ASSUME NEW c \in Certs, NEW o \in Certs, Tidy(c), Tidy(o)
    PROVE  /\ merge_public_and_secret(c, o) = canonicalize(Joined(c, o))
           /\ merge_public_and_secret(c, o) \in Certs /\ Tidy(merge_public_and_secret(c, o))
           /\ Canonical(merge_public_and_secret(c, o))
           /\ merge_public_and_secret(c, o).comps = c.comps \union (o.comps \ Unknowns)
           /\ merge_public_and_secret(c, o).secret = Joined(c, o).secret
           /\ AllSigs(merge_public_and_secret(c, o)) =
                AllSigs(c) \union UNION {o.at[p] : p \in Places \ Unknowns}
<1>1. merge_public_and_secret(c, o) = canonicalize(Joined(c, o))
  BY DEF merge_public_and_secret, Joined
<1> DEFINE j == Joined(c, o)
<1>2. j \in Certs /\ Tidy(j) /\ j.comps = c.comps \union (o.comps \ Unknowns)
      /\ AllSigs(j) = AllSigs(c) \union UNION {o.at[p] : p \in Places \ Unknowns}
  BY JoinedIs
<1> HIDE DEF j
<1>3. /\ canonicalize(j) \in Certs /\ Tidy(canonicalize(j))
      /\ canonicalize(j).comps = j.comps /\ canonicalize(j).secret = j.secret
      /\ AllSigs(canonicalize(j)) = AllSigs(j) /\ Canonical(canonicalize(j))
  BY <1>2, CanonicalizeIs
<1> QED BY <1>1, <1>2, <1>3 DEF j

(* merge_public() is the same with a copy without secrets. *)
LEMMA MergePublicIs ==
    ASSUME NEW c \in Certs, NEW o \in Certs, Tidy(c), Tidy(o)
    PROVE  /\ merge_public(c, o) = canonicalize(Joined(c, strip_secret_key_material(o)))
           /\ merge_public(c, o) \in Certs /\ Tidy(merge_public(c, o))
           /\ Canonical(merge_public(c, o))
           /\ merge_public(c, o).comps = c.comps \union (o.comps \ Unknowns)
           /\ merge_public(c, o).secret = c.secret
           /\ AllSigs(merge_public(c, o)) =
                AllSigs(c) \union UNION {o.at[p] : p \in Places \ Unknowns}
<1> DEFINE b == strip_secret_key_material(o)
<1>1. b \in Certs /\ b.comps = o.comps /\ b.at = o.at
      /\ \A k \in Keys \union Components : b.secret[k] = NoSecret
  BY StripIs
<1>2. merge_public(c, o) = merge_public_and_secret(c, b)
  BY DEF merge_public
<1> HIDE DEF b
<1>3. Tidy(b)
  BY <1>1 DEF Tidy
<1> DEFINE j == Joined(c, b)
<1>4. j \in Certs /\ \A k \in Keys \union Components : j.secret[k] = c.secret[k]
  BY <1>1, <1>3, JoinedIs DEF PreferLater
<1>5. j.secret = c.secret
  <2>1. /\ j.secret \in [Keys \union Components -> Secrets]
        /\ c.secret \in [Keys \union Components -> Secrets]
    BY <1>4, CertParts
  <2> HIDE DEF j
  <2> QED BY <1>4, <2>1
<1>6. /\ merge_public_and_secret(c, b) = canonicalize(j)
      /\ merge_public_and_secret(c, b) \in Certs /\ Tidy(merge_public_and_secret(c, b))
      /\ Canonical(merge_public_and_secret(c, b))
      /\ merge_public_and_secret(c, b).comps = c.comps \union (b.comps \ Unknowns)
      /\ merge_public_and_secret(c, b).secret = j.secret
      /\ AllSigs(merge_public_and_secret(c, b)) =
           AllSigs(c) \union UNION {b.at[p] : p \in Places \ Unknowns}
  BY <1>1, <1>3, MergeIs
<1> QED BY <1>1, <1>2, <1>5, <1>6 DEF b

(* A known component is dropped, with the signatures that are on it. *)
LEMMA RetainIs ==
    ASSUME NEW c \in Certs, Tidy(c), Canonical(c), NEW k \in c.comps \ Unknowns
    PROVE  LET d == retain(c, c.comps \ {k})
               gone == {s \in c.at[k] : \A p \in Places \ {k} : s \notin c.at[p]}
           IN  /\ d \in Certs /\ Tidy(d) /\ Canonical(d) /\ d.comps = c.comps \ {k}
               /\ AllSigs(d) = AllSigs(c) \ gone
<1> DEFINE comps == c.comps \ {k}
           secret == [x \in DOMAIN c.secret |->
                        IF x \in comps \union {Primary} THEN c.secret[x] ELSE NoSecret]
           at == [p \in Places |-> IF p \in Components \ comps THEN {} ELSE c.at[p]]
           d == [comps |-> comps, secret |-> secret, at |-> at]
           gone == {s \in c.at[k] : \A p \in Places \ {k} : s \notin c.at[p]}
<1>1. retain(c, comps) = d
  <2>1. retain(c, comps) = [c EXCEPT !.comps = comps, !.secret = secret, !.at = at]
    BY DEF retain
  <2> HIDE DEF comps, secret, at
  <2> QED BY <2>1 DEF Certs
<1>2. comps \in SUBSET Components /\ k \in Components /\ k \in Places
  BY CertParts, PlaceFacts
<1>3. secret \in [Keys \union Components -> Secrets]
  BY CertParts, PlaceFacts DEF NoSecret
<1>4. at \in [Places -> SUBSET Sigs]
  BY CertParts
<1>5. \A p \in Places : at[p] = IF p = k THEN {} ELSE c.at[p]
  <2> SUFFICES ASSUME NEW p \in Places PROVE at[p] = IF p = k THEN {} ELSE c.at[p]
    OBVIOUS
  <2>1. p \in Components \ c.comps => c.at[p] = {}
    BY DEF Tidy
  <2> QED BY <1>2, <2>1
<1>6. d \in Certs /\ d.comps = comps /\ d.at = at
  <2> HIDE DEF comps, secret, at
  <2> QED BY <1>2, <1>3, <1>4, MakeCert
<1> HIDE DEF d, at, secret
<1>7. Tidy(d)
  <2> SUFFICES ASSUME NEW p \in Components \ comps PROVE at[p] = {}
    BY <1>6 DEF Tidy
  <2> QED BY <1>5, PlaceFacts DEF Tidy
<1>8. Known(d) \subseteq Known(c) /\ k \notin Known(d) /\ Known(d) \subseteq Places
  <2>1. k # Primary
    BY <1>2, PlaceFacts
  <2> QED BY <1>6, <2>1, KnownPlaces DEF Known
<1>9. Parked(d) = Parked(c)
  <2>1. d.comps \intersect Unknowns = c.comps \intersect Unknowns
    BY <1>6
  <2>2. \A u \in c.comps \intersect Unknowns : d.at[u] = c.at[u]
    BY <1>5, <1>6, CertParts, PlaceFacts
  <2> QED BY <2>1, <2>2 DEF Parked
<1>10. Canonical(d)
  <2>1. d.at[Bad] = c.at[Bad]
    BY <1>2, <1>5, <1>6, PlaceFacts
  <2>2. \A s : Found(d, s) => Found(c, s)
    BY <1>8 DEF Found
  <2>3. \A p \in Known(d) : d.at[p] = c.at[p]
    BY <1>5, <1>6, <1>8
  <2> QED BY <1>8, <1>9, <2>1, <2>2, <2>3 DEF Canonical
<1>11. AllSigs(d) = AllSigs(c) \ gone
  <2>1. ASSUME NEW s \in Sigs
        PROVE  (\E p \in Places : s \in d.at[p]) <=>
                 (\E p \in Places : s \in c.at[p]) /\ s \notin gone
    BY <1>2, <1>5, <1>6
  <2> QED BY <2>1 DEF AllSigs
<1> QED BY <1>1, <1>6, <1>7, <1>10, <1>11

------------------------------------------------------------------------------
(* The invariant. *)

LEMMA InitInv == Init => IInv
<1> SUFFICES ASSUME Init PROVE IInv
  OBVIOUS
<1> DEFINE secret == [k \in Keys \union Components |-> NoSecret]
           at == [p \in Places |-> {}]
<1>1. secret \in [Keys \union Components -> Secrets] /\ at \in [Places -> SUBSET Sigs]
      /\ \A p \in Places : at[p] = {}
  BY PlaceFacts DEF NoSecret
<1>2. Bare = [comps |-> {}, secret |-> secret, at |-> at]
  BY DEF Bare
<1> HIDE DEF secret, at
<1>3. Bare \in Certs /\ Bare.comps = {} /\ Bare.at = at
  BY <1>1, <1>2, MakeCert
<1>4. Nothing \in Gifts /\ Nothing.comps = {} /\ Nothing.sigs = {}
  BY DEF Nothing, Gifts
<1>5. Holds(Bare, Nothing)
  BY <1>1, <1>3, <1>4, PlaceFacts DEF Holds, Tidy, AllSigs
<1>6. Canonical(Bare)
  <2>1. Known(Bare) \subseteq Places
    BY <1>3, KnownPlaces
  <2>2. Bare.at[Bad] = {} /\ Parked(Bare) = {}
    BY <1>1, <1>3, PlaceFacts DEF Parked
  <2> QED BY <1>1, <1>3, <2>1, <2>2 DEF Canonical
<1>7. CallInv
  BY DEF Init, CallInv
<1> QED BY <1>3, <1>4, <1>5, <1>6, <1>7 DEF Init, IInv

(* What is left to show of a step that changes one copy. *)
LEMMA PutInv ==
    ASSUME IInv, NEW h \in Holders, NEW c, NEW g \in Gifts, Put(h, c, g),
           CallInv', Holds(c, g),
           \A x \in Holders \ {h} : Whole(x)' => Whole(x),
           Whole(h)' => Canonical(c)
    PROVE  IInv'
<1>1. c \in Certs
  BY DEF Holds
<1>2. /\ cert \in [Holders -> Certs] /\ given \in [Holders -> Gifts]
      /\ cert' = [cert EXCEPT ![h] = c] /\ given' = [given EXCEPT ![h] = g]
  BY DEF IInv, Put
<1>3. cert' \in [Holders -> Certs] /\ given' \in [Holders -> Gifts]
  BY <1>1, <1>2
<1>4. ASSUME NEW x \in Holders
      PROVE  Holds(cert'[x], given'[x]) /\ (Whole(x)' => Canonical(cert'[x]))
  <2>1. CASE x = h
    <3>1. cert'[x] = c /\ given'[x] = g
      BY <1>2, <2>1
    <3> QED BY <2>1, <3>1
  <2>2. CASE x # h
    <3>1. cert'[x] = cert[x] /\ given'[x] = given[x]
      BY <1>2, <2>2
    <3>2. Holds(cert[x], given[x]) /\ (Whole(x) => Canonical(cert[x]))
      BY DEF IInv
    <3> QED BY <2>2, <3>1, <3>2
  <2> QED BY <2>1, <2>2
<1>5. \A x \in Holders : Holds(cert[x], given[x])' /\ (Whole(x) => Canonical(cert[x]))'
  BY <1>4 DEF Holds, Canonical, Tidy, AllSigs, Parked, Known, Found
<1> QED BY <1>3, <1>5 DEF IInv

(* A copy that is not being inserted into, and what was given to it. *)
LEMMA CopyFacts ==
    ASSUME IInv, NEW h \in Holders
    PROVE  /\ cert[h] \in Certs /\ Tidy(cert[h]) /\ given[h] \in Gifts
           /\ given[h].comps \in SUBSET Components /\ given[h].sigs \in SUBSET Sigs
           /\ cert[h].comps = given[h].comps /\ AllSigs(cert[h]) = given[h].sigs
           /\ (inserting = {} => Canonical(cert[h]))
<1>1. given[h] \in Gifts /\ Holds(cert[h], given[h]) /\ (Whole(h) => Canonical(cert[h]))
  BY DEF IInv
<1> QED BY <1>1 DEF Holds, Gifts, Whole

LEMMA GivenIs ==
    ASSUME NEW g \in Gifts, NEW comps \in SUBSET Components, NEW sigs \in SUBSET Sigs
    PROVE  /\ Given(g, comps, sigs) \in Gifts
           /\ Given(g, comps, sigs).comps = g.comps \union comps
           /\ Given(g, comps, sigs).sigs = g.sigs \union sigs
BY DEF Given, Gifts

(* A call of another function leaves a canonical copy. *)
LEMMA StepInv ==
    ASSUME IInv, NEW h \in Holders, NEW c, NEW g \in Gifts, Step(h, c, g),
           Holds(c, g), Canonical(c)
    PROVE  IInv'
<1>1. inserting = {} /\ inserting' = {} /\ Put(h, c, g)
  BY DEF Step
<1>2. CallInv'
  BY <1>1 DEF CallInv
<1>3. \A x \in Holders : Whole(x)
  BY <1>1 DEF Whole
<1> QED BY <1>1, <1>2, <1>3, PutInv

LEMMA InsertPacketsInv ==
    ASSUME IInv, NEW h \in Holders, InsertPackets(h) PROVE IInv'
<1> DEFINE c == Reparsed(cert[h])
           l == LastOf(cert[h].comps)
<1>1. /\ inserting = {} /\ inserting' = {[holder |-> h, last |-> l]}
      /\ Put(h, c, given[h])
  BY DEF InsertPackets
<1>2. /\ cert[h] \in Certs /\ Tidy(cert[h]) /\ given[h] \in Gifts
      /\ cert[h].comps = given[h].comps /\ AllSigs(cert[h]) = given[h].sigs
  BY CopyFacts
<1>3. c \in Certs /\ Tidy(c) /\ c.comps = cert[h].comps /\ AllSigs(c) = AllSigs(cert[h])
  BY <1>2, ReparsedIs
<1>4. l \in {Primary} \union c.comps
  BY <1>2, <1>3, CertParts, LastOfIs
<1> HIDE DEF c, l
<1>5. Holds(c, given[h])
  BY <1>2, <1>3 DEF Holds
<1>6. cert'[h] = c
  BY <1>1 DEF Put, IInv
<1>7. CallInv'
  BY <1>1, <1>4, <1>6 DEF CallInv
<1>8. ~Whole(h)' /\ \A x \in Holders : Whole(x)
  BY <1>1 DEF Whole
<1> QED BY <1>1, <1>2, <1>5, <1>7, <1>8, PutInv

(* The call that is under way. *)
LEMMA CallFacts ==
    ASSUME IInv, NEW call \in inserting
    PROVE  /\ call.holder \in Holders /\ inserting = {call}
           /\ call.last \in {Primary} \union cert[call.holder].comps
           /\ call = [holder |-> call.holder, last |-> call.last]
<1>1. CallInv
  BY DEF IInv
<1> QED BY <1>1 DEF CallInv

LEMMA InsertSigInv ==
    ASSUME IInv, NEW call \in inserting, NEW s \in Sigs, InsertSig(call, s) PROVE IInv'
<1> DEFINE h == call.holder
           l == call.last
           c == WithSig(cert[h], l, s)
           none == {}
           one == {s}
           g == Given(given[h], none, one)
<1>1. h \in Holders /\ inserting = {call} /\ l \in {Primary} \union cert[h].comps
      /\ call = [holder |-> h, last |-> l]
  BY CallFacts
<1>2. Put(h, c, g) /\ inserting' = inserting
  BY DEF InsertSig
<1> HIDE DEF h, l
<1>3. /\ cert[h] \in Certs /\ Tidy(cert[h]) /\ given[h] \in Gifts
      /\ cert[h].comps = given[h].comps /\ AllSigs(cert[h]) = given[h].sigs
  BY <1>1, CopyFacts
<1>4. c \in Certs /\ Tidy(c) /\ c.comps = cert[h].comps /\ AllSigs(c) = AllSigs(cert[h]) \union {s}
  BY <1>1, <1>3, WithSigIs
<1>5. g \in Gifts /\ g.comps = given[h].comps /\ g.sigs = given[h].sigs \union {s}
  <2>1. none \in SUBSET Components /\ one \in SUBSET Sigs
    OBVIOUS
  <2> DEFINE old == given[h]
  <2>2. old \in Gifts /\ g = Given(old, none, one)
    BY <1>3
  <2> HIDE DEF none, one, old, g
  <2>3. /\ Given(old, none, one) \in Gifts
        /\ Given(old, none, one).comps = old.comps \union none
        /\ Given(old, none, one).sigs = old.sigs \union one
    BY <2>1, <2>2, GivenIs
  <2> QED BY <2>2, <2>3 DEF none, one, old
<1> HIDE DEF c, g
<1>6. Holds(c, g)
  BY <1>3, <1>4, <1>5 DEF Holds
<1>7. cert'[h] = c
  BY <1>1, <1>2 DEF Put, IInv
<1>8. CallInv'
  <2>1. call.holder = h /\ call.last = l
    BY DEF h, l
  <2> QED BY <1>1, <1>2, <1>4, <1>7, <2>1 DEF CallInv
<1>9. ~Whole(h)' /\ \A x \in Holders : Whole(x)' => Whole(x)
  BY <1>1, <1>2 DEF Whole, h
<1> QED BY <1>1, <1>2, <1>5, <1>6, <1>8, <1>9, PutInv

LEMMA InsertComponentInv ==
    ASSUME IInv, NEW call \in inserting, NEW k \in Components \union {Primary},
           NEW v \in Secrets, InsertComponent(call, k, v)
    PROVE  IInv'
<1> DEFINE h == call.holder
           c == WithComponent(cert[h], k, v)
           none == {}
           one == {k} \ {Primary}
           g == Given(given[h], one, none)
           l == IF k \notin cert[h].comps \union {Primary} THEN k ELSE call.last
<1>1. h \in Holders /\ inserting = {call} /\ call.last \in {Primary} \union cert[h].comps
  BY CallFacts
<1>2. Put(h, c, g) /\ inserting' = {[holder |-> h, last |-> l]}
  BY DEF InsertComponent
<1>3. /\ cert[h] \in Certs /\ Tidy(cert[h]) /\ given[h] \in Gifts
      /\ cert[h].comps = given[h].comps /\ AllSigs(cert[h]) = given[h].sigs
  <2> HIDE DEF h
  <2> QED BY <1>1, CopyFacts
<1>4. /\ c \in Certs /\ Tidy(c) /\ c.comps = cert[h].comps \union ({k} \ {Primary})
      /\ AllSigs(c) = AllSigs(cert[h])
  <2> HIDE DEF h
  <2> QED BY <1>3, WithComponentIs
<1>5. g \in Gifts /\ g.comps = given[h].comps \union ({k} \ {Primary}) /\ g.sigs = given[h].sigs
  <2>1. none \in SUBSET Sigs /\ one \in SUBSET Components
    OBVIOUS
  <2> DEFINE old == given[h]
  <2>2. old \in Gifts /\ g = Given(old, one, none)
    BY <1>3
  <2> HIDE DEF none, one, old, g, c, l, h
  <2>3. /\ Given(old, one, none) \in Gifts
        /\ Given(old, one, none).comps = old.comps \union one
        /\ Given(old, one, none).sigs = old.sigs \union none
    BY <2>1, <2>2 DEF Given, Gifts
  <2> QED BY <2>2, <2>3 DEF none, one, old
<1> HIDE DEF c, g
<1>6. Holds(c, g)
  BY <1>3, <1>4, <1>5 DEF Holds
<1>7. cert'[h] = c
  BY <1>1, <1>2 DEF Put, IInv
<1>8. l \in {Primary} \union c.comps
  BY <1>1, <1>4
<1> HIDE DEF l, h
<1>9. CallInv'
  BY <1>1, <1>2, <1>7, <1>8 DEF CallInv
<1>10. ~Whole(h)' /\ \A x \in Holders : Whole(x)' => (x # h /\ Whole(x))
  BY <1>1, <1>2 DEF Whole, h
<1> QED BY <1>1, <1>2, <1>5, <1>6, <1>9, <1>10, PutInv

LEMMA InsertEndInv ==
    ASSUME IInv, NEW call \in inserting, InsertEnd(call) PROVE IInv'
<1> DEFINE h == call.holder
           c == canonicalize(cert[h])
<1>1. h \in Holders /\ inserting = {call}
  BY CallFacts
<1>2. Put(h, c, given[h]) /\ inserting' = {}
  BY DEF InsertEnd
<1>3. \A x \in Holders \ {h} : Whole(x)
  BY <1>1 DEF Whole
<1> HIDE DEF h
<1>4. /\ cert[h] \in Certs /\ Tidy(cert[h]) /\ given[h] \in Gifts
      /\ cert[h].comps = given[h].comps /\ AllSigs(cert[h]) = given[h].sigs
  BY <1>1, CopyFacts
<1>5. /\ c \in Certs /\ Tidy(c) /\ c.comps = cert[h].comps
      /\ AllSigs(c) = AllSigs(cert[h]) /\ Canonical(c)
  BY <1>4, CanonicalizeIs
<1> HIDE DEF c
<1>6. Holds(c, given[h])
  BY <1>4, <1>5 DEF Holds
<1>7. CallInv'
  BY <1>2 DEF CallInv
<1> QED BY <1>1, <1>2, <1>3, <1>4, <1>5, <1>6, <1>7, PutInv

LEMMA StripInv ==
    ASSUME IInv, NEW h \in Holders, Strip(h) PROVE IInv'
<1> DEFINE c == strip_secret_key_material(cert[h])
<1>1. Step(h, c, given[h]) /\ inserting = {}
  BY DEF Strip, Step
<1>2. /\ cert[h] \in Certs /\ Tidy(cert[h]) /\ given[h] \in Gifts
      /\ cert[h].comps = given[h].comps /\ AllSigs(cert[h]) = given[h].sigs
      /\ Canonical(cert[h])
  BY <1>1, CopyFacts
<1>3. c \in Certs /\ c.comps = cert[h].comps /\ c.at = cert[h].at
  BY <1>2, StripIs
<1> HIDE DEF c
<1>4. Tidy(c) /\ AllSigs(c) = AllSigs(cert[h])
  BY <1>2, <1>3 DEF Tidy, AllSigs
<1>5. Canonical(c)
  BY <1>2, <1>3 DEF Canonical, Known, Parked, Found
<1>6. Holds(c, given[h])
  BY <1>2, <1>3, <1>4 DEF Holds
<1> QED BY <1>1, <1>2, <1>5, <1>6, StepInv

LEMMA RetainInv ==
    ASSUME IInv, NEW h \in Holders, Retain(h) PROVE IInv'
<1> DEFINE c == cert[h]
           gone(k) == {s \in c.at[k] : \A p \in Places \ {k} : s \notin c.at[p]}
<1>1. PICK k \in c.comps \ Unknowns :
        Step(h, retain(c, c.comps \ {k}),
             [comps |-> given[h].comps \ {k}, sigs |-> given[h].sigs \ gone(k)])
  BY DEF Retain
<1>2. inserting = {}
  BY <1>1 DEF Step
<1>3. /\ c \in Certs /\ Tidy(c) /\ given[h] \in Gifts
      /\ c.comps = given[h].comps /\ AllSigs(c) = given[h].sigs /\ Canonical(c)
  BY <1>2, CopyFacts
<1> DEFINE d == retain(c, c.comps \ {k})
           g == [comps |-> given[h].comps \ {k}, sigs |-> given[h].sigs \ gone(k)]
<1>4. d \in Certs /\ Tidy(d) /\ Canonical(d) /\ d.comps = c.comps \ {k}
      /\ AllSigs(d) = AllSigs(c) \ gone(k)
  <2> HIDE DEF c
  <2> QED BY <1>3, RetainIs
<1>5. g \in Gifts /\ g.comps = given[h].comps \ {k} /\ g.sigs = given[h].sigs \ gone(k)
  <2> HIDE DEF gone
  <2> QED BY <1>3 DEF Gifts
<1>6. Step(h, d, g)
  BY <1>1
<1> HIDE DEF d, g, gone, c
<1>7. Holds(d, g)
  BY <1>3, <1>4, <1>5 DEF Holds
<1> QED BY <1>4, <1>5, <1>6, <1>7, StepInv

LEMMA MergeInv ==
    ASSUME IInv, NEW h \in Holders, NEW other \in Holders,
           MergePublic(h, other) \/ MergePublicAndSecret(h, other)
    PROVE  IInv'
<1> DEFINE c == cert[h]
           o == cert[other]
           comps == given[other].comps \ Unknowns
           sigs == UNION {o.at[p] : p \in Places \ Unknowns}
           g == Given(given[h], comps, sigs)
           public == merge_public(c, o)
           both == merge_public_and_secret(c, o)
<1>1. (Step(h, public, g) \/ Step(h, both, g)) /\ inserting = {}
  BY DEF MergePublic, MergePublicAndSecret, Offered, Step
<1>2. /\ c \in Certs /\ Tidy(c) /\ given[h] \in Gifts
      /\ c.comps = given[h].comps /\ AllSigs(c) = given[h].sigs
  BY CopyFacts
<1>3. o \in Certs /\ Tidy(o) /\ o.comps = given[other].comps
      /\ given[other].comps \in SUBSET Components
  BY CopyFacts
<1>4. g \in Gifts /\ g.comps = given[h].comps \union comps /\ g.sigs = given[h].sigs \union sigs
  <2>1. comps \in SUBSET Components
    BY <1>3
  <2>2. sigs \in SUBSET Sigs
    BY <1>3, CertParts
  <2> DEFINE old == given[h]
  <2>3. old \in Gifts /\ g = Given(old, comps, sigs)
    BY <1>2
  <2> HIDE DEF comps, sigs, old, g
  <2>4. /\ Given(old, comps, sigs) \in Gifts
        /\ Given(old, comps, sigs).comps = old.comps \union comps
        /\ Given(old, comps, sigs).sigs = old.sigs \union sigs
    BY <2>1, <2>2, <2>3, GivenIs
  <2> QED BY <2>3, <2>4 DEF old
<1> HIDE DEF c, o, g
<1>5. /\ public \in Certs /\ Tidy(public) /\ Canonical(public)
      /\ public.comps = c.comps \union (o.comps \ Unknowns)
      /\ AllSigs(public) = AllSigs(c) \union sigs
  BY <1>2, <1>3, MergePublicIs
<1>6. /\ both \in Certs /\ Tidy(both) /\ Canonical(both)
      /\ both.comps = c.comps \union (o.comps \ Unknowns)
      /\ AllSigs(both) = AllSigs(c) \union sigs
  BY <1>2, <1>3, MergeIs
<1> HIDE DEF public, both, sigs
<1>7. Holds(public, g) /\ Holds(both, g)
  BY <1>2, <1>3, <1>4, <1>5, <1>6 DEF Holds
<1>8. CASE Step(h, public, g)
  BY <1>4, <1>5, <1>7, <1>8, StepInv
<1>9. CASE Step(h, both, g)
  BY <1>4, <1>6, <1>7, <1>9, StepInv
<1> QED BY <1>1, <1>8, <1>9

LEMMA NextInv == IInv /\ [Next]_vars => IInv'
<1> SUFFICES ASSUME IInv, [Next]_vars PROVE IInv'
  OBVIOUS
<1>1. ASSUME NEW h \in Holders, InsertPackets(h) PROVE IInv'
  BY <1>1, InsertPacketsInv
<1>2. ASSUME NEW h \in Holders, Strip(h) PROVE IInv'
  BY <1>2, StripInv
<1>3. ASSUME NEW h \in Holders, Retain(h) PROVE IInv'
  BY <1>3, RetainInv
<1>4. ASSUME NEW call \in inserting, NEW s \in Sigs, InsertSig(call, s) PROVE IInv'
  BY <1>4, InsertSigInv
<1>5. ASSUME NEW call \in inserting, NEW k \in Components \union {Primary},
             NEW v \in Secrets, InsertComponent(call, k, v)
      PROVE  IInv'
  BY <1>5, InsertComponentInv
<1>6. ASSUME NEW call \in inserting, InsertEnd(call) PROVE IInv'
  BY <1>6, InsertEndInv
<1>7. ASSUME NEW h \in Holders, NEW other \in Holders,
             MergePublic(h, other) \/ MergePublicAndSecret(h, other)
      PROVE  IInv'
  BY <1>7, MergeInv
<1>8. CASE UNCHANGED vars
  BY <1>8 DEF vars, IInv, CallInv, Whole, Holds, Canonical, Tidy, AllSigs, Known, Parked, Found
<1> QED BY <1>1, <1>2, <1>3, <1>4, <1>5, <1>6, <1>7, <1>8 DEF Next

LEMMA Invariance == Spec => []IInv
BY InitInv, NextInv, PTL DEF Spec

------------------------------------------------------------------------------
(* The properties. *)

LEMMA OrderIndependentHolds == IInv => OrderIndependent
<1> SUFFICES ASSUME IInv, NEW h \in Holders, Whole(h)
             PROVE  LET c == cert[h]  g == given[h]
                        kept == c.at[Bad] \union Parked(c)
                        homeless == {s \in g.sigs : \A p \in Known(c) : ~Fits(s, p)}
                    IN /\ c.comps = g.comps
                       /\ \A p \in Known(c) : \A s \in g.sigs :
                             /\ s \in c.at[p] => Fits(s, p)
                             /\ Fits(s, p) => s \in c.at[p] \/ (~Tried(s) /\ s \in kept)
                       /\ homeless \subseteq kept /\ \A s \in kept \ homeless : ~Tried(s)
                       /\ UNION {c.at[p] : p \in Places} = g.sigs
  BY DEF OrderIndependent
<1> DEFINE c == cert[h]
           g == given[h]
           kept == c.at[Bad] \union Parked(c)
           homeless == {s \in g.sigs : \A p \in Known(c) : ~Fits(s, p)}
<1>1. c \in Certs /\ Tidy(c) /\ c.comps = g.comps /\ AllSigs(c) = g.sigs /\ Canonical(c)
  BY DEF IInv, Holds
<1> HIDE DEF c, g
<1>2. \A p \in Places : c.at[p] \subseteq Sigs
  BY <1>1, CertParts
<1>3. /\ Known(c) \subseteq Places
      /\ \A p \in Places \ Known(c) : p = Bad \/ p \in Unknowns \/ p \in Components \ c.comps
  BY <1>1, KnownPlaces
<1>4. UNION {c.at[p] : p \in Places} = g.sigs
  BY <1>1, <1>2 DEF AllSigs
<1>5. kept \subseteq g.sigs
  <2>1. Bad \in Places /\ c.comps \intersect Unknowns \subseteq Places
    BY PlaceFacts
  <2> QED BY <1>4, <2>1 DEF Parked
(* A signature of the copy is on a known component or kept. *)
<1>6. ASSUME NEW s \in g.sigs PROVE s \in kept \/ \E q \in Known(c) : s \in c.at[q]
  <2>1. PICK q \in Places : s \in c.at[q]
    BY <1>4
  <2>2. q \notin Components \ c.comps
    BY <1>1, <2>1 DEF Tidy
  <2>3. CASE q \in Known(c)
    BY <2>1, <2>3
  <2>4. CASE q = Bad
    BY <2>1, <2>4
  <2>5. CASE q \in Unknowns
    <3>1. q \in c.comps \intersect Unknowns
      BY <2>2, <2>5, PlaceFacts
    <3> QED BY <2>1, <3>1 DEF Parked
  <2> QED BY <1>3, <2>2, <2>3, <2>4, <2>5
<1>7. ASSUME NEW p \in Known(c), NEW s \in g.sigs, s \in c.at[p] PROVE Fits(s, p)
  BY <1>1, <1>7 DEF Canonical
<1>8. ASSUME NEW s \in kept, s \notin homeless PROVE ~Tried(s)
  BY <1>1, <1>5, <1>8 DEF Canonical, Found
<1>9. ASSUME NEW p \in Known(c), NEW s \in g.sigs, Fits(s, p)
      PROVE  s \in c.at[p] \/ (~Tried(s) /\ s \in kept)
  <2>1. CASE s \in kept
    BY <1>8, <1>9, <2>1
  <2>2. CASE s \notin kept
    <3>1. PICK q \in Known(c) : s \in c.at[q]
      BY <1>6, <2>2
    <3>2. Fits(s, q)
      BY <1>7, <3>1
    <3>3. q = p
      BY <1>9, <3>2 DEF Fits
    <3> QED BY <3>1, <3>3
  <2> QED BY <2>1, <2>2
<1>10. homeless \subseteq kept
  BY <1>6, <1>7
<1>11. c.comps = g.comps
  BY <1>1
<1> HIDE DEF kept, homeless
<1>12. \A p \in Known(c) : \A s \in g.sigs :
          /\ s \in c.at[p] => Fits(s, p)
          /\ Fits(s, p) => s \in c.at[p] \/ (~Tried(s) /\ s \in kept)
  BY <1>7, <1>9
<1>13. \A s \in kept \ homeless : ~Tried(s)
  BY <1>8
<1> QED BY <1>4, <1>10, <1>11, <1>12, <1>13 DEF c, g, kept, homeless

(* In whatever order packets arrive and copies are merged, every component    *)
(* ends up with exactly the signatures over it, and none is lost:             *)
(* Cert::canonicalize, merge_public_and_secret, insert_packets.               *)
THEOREM OrderLeavesNoTrace == Spec => []OrderIndependent
BY Invariance, OrderIndependentHolds, PTL

(* canonicalize() looks at the components and the signatures only. *)
LEMMA CanonicalizeBlind ==
    ASSUME NEW a \in Certs, NEW b \in Certs, a.comps = b.comps, a.at = b.at
    PROVE  canonicalize(a).comps = canonicalize(b).comps /\ canonicalize(a).at = canonicalize(b).at
<1> DEFINE ca == canonicalize(a)
           cb == canonicalize(b)
           moved(x, p) == {s \in Loose(x) \union Parked(x) : Tried(s) /\ Fits(s, p)}
           bad(x) == {s \in Loose(x) : ~Found(x, s)}
           left(x, p) == {s \in x.at[p] : ~Found(x, s)}
<1>1. /\ ca \in Certs /\ ca.comps = a.comps
      /\ \A p \in Known(a) : ca.at[p] = InPlace(a, p) \union moved(a, p)
      /\ ca.at[Bad] = bad(a)
      /\ \A p \in Places \ (Known(a) \union {Bad}) : ca.at[p] = left(a, p)
  BY CanonicalizeAt
<1>2. /\ cb \in Certs /\ cb.comps = b.comps
      /\ \A p \in Known(b) : cb.at[p] = InPlace(b, p) \union moved(b, p)
      /\ cb.at[Bad] = bad(b)
      /\ \A p \in Places \ (Known(b) \union {Bad}) : cb.at[p] = left(b, p)
  BY CanonicalizeAt
<1>3. Known(a) = Known(b) /\ Loose(a) = Loose(b) /\ Parked(a) = Parked(b)
      /\ \A p : InPlace(a, p) = InPlace(b, p)
  BY DEF Known, Loose, Parked, InPlace
<1>4. \A s : Found(a, s) <=> Found(b, s)
  BY <1>3 DEF Found
<1>5. bad(a) = bad(b) /\ \A p \in Places : moved(a, p) = moved(b, p) /\ left(a, p) = left(b, p)
  BY <1>3, <1>4
<1> HIDE DEF ca, cb, moved, bad, left
<1>6. ASSUME NEW p \in Places PROVE ca.at[p] = cb.at[p]
  <2>1. CASE p \in Known(a)
    <3>1. ca.at[p] = InPlace(a, p) \union moved(a, p)
      BY <1>1, <2>1
    <3>2. cb.at[p] = InPlace(b, p) \union moved(b, p)
      BY <1>2, <1>3, <2>1
    <3> QED BY <1>3, <1>5, <3>1, <3>2
  <2>2. CASE p = Bad
    BY <1>1, <1>2, <1>5, <2>2
  <2>3. CASE p \notin Known(a) \union {Bad}
    <3>1. ca.at[p] = left(a, p)
      BY <1>1, <2>3
    <3>2. cb.at[p] = left(b, p)
      BY <1>2, <1>3, <2>3
    <3> QED BY <1>5, <3>1, <3>2
  <2> QED BY <2>1, <2>2, <2>3
<1>7. ca.at \in [Places -> SUBSET Sigs] /\ cb.at \in [Places -> SUBSET Sigs]
  BY <1>1, <1>2, CertParts
<1>8. ca.at = cb.at
  BY <1>6, <1>7
<1> QED BY <1>1, <1>2, <1>8 DEF ca, cb

LEMMA MergeItself ==
    ASSUME NEW c \in Certs, Tidy(c), Canonical(c)
    PROVE  merge_public_and_secret(c, c) = c
<1> DEFINE j == Joined(c, c)
<1>1. /\ j \in Certs /\ j.comps = c.comps
      /\ \A k \in Keys \union Components : j.secret[k] = c.secret[k]
      /\ \A p \in Places : j.at[p] = c.at[p]
  <2>1. /\ j \in Certs /\ j.comps = c.comps \union (c.comps \ Unknowns)
        /\ \A k \in Keys \union Components : j.secret[k] = PreferLater(c.secret[k], c.secret[k])
        /\ \A p \in Places : j.at[p] = c.at[p] \union (IF p \in Unknowns THEN {} ELSE c.at[p])
    BY JoinedIs
  <2> HIDE DEF j
  <2>2. \A x : PreferLater(x, x) = x
    BY DEF PreferLater
  <2> QED BY <2>1, <2>2
<1> HIDE DEF j
<1>2. j.secret = c.secret /\ j.at = c.at
  <2>1. /\ j.secret \in [Keys \union Components -> Secrets] /\ j.at \in [Places -> SUBSET Sigs]
        /\ c.secret \in [Keys \union Components -> Secrets] /\ c.at \in [Places -> SUBSET Sigs]
    BY <1>1, CertParts
  <2> QED BY <1>1, <2>1
<1>3. /\ j = [comps |-> j.comps, secret |-> j.secret, at |-> j.at]
      /\ c = [comps |-> c.comps, secret |-> c.secret, at |-> c.at]
  BY <1>1, CertParts
<1>4. j = c
  BY <1>1, <1>2, <1>3
<1>5. merge_public_and_secret(c, c) = canonicalize(j)
  BY MergeIs DEF j
<1> QED BY <1>4, <1>5, CanonicalizeAgain

LEMMA MergeEitherWay ==
    ASSUME NEW c \in Certs, NEW o \in Certs, Tidy(c), Tidy(o),
           (c.comps \union o.comps) \intersect Unknowns = {}
    PROVE  /\ merge_public(c, o).comps = merge_public(o, c).comps
           /\ merge_public(c, o).at = merge_public(o, c).at
<1> DEFINE cs == strip_secret_key_material(c)
           os == strip_secret_key_material(o)
<1>1. cs \in Certs /\ cs.comps = c.comps /\ cs.at = c.at
      /\ os \in Certs /\ os.comps = o.comps /\ os.at = o.at
  BY StripIs
<1>2. merge_public(c, o) = canonicalize(Joined(c, os)) /\ merge_public(o, c) = canonicalize(Joined(o, cs))
  BY MergePublicIs
<1> HIDE DEF cs, os
<1>3. Tidy(cs) /\ Tidy(os)
  BY <1>1 DEF Tidy
<1> DEFINE a == Joined(c, os)
           b == Joined(o, cs)
<1>4. /\ a \in Certs /\ a.comps = c.comps \union (os.comps \ Unknowns)
      /\ \A p \in Places : a.at[p] = c.at[p] \union (IF p \in Unknowns THEN {} ELSE os.at[p])
  BY <1>1, <1>3, JoinedIs
<1>5. /\ b \in Certs /\ b.comps = o.comps \union (cs.comps \ Unknowns)
      /\ \A p \in Places : b.at[p] = o.at[p] \union (IF p \in Unknowns THEN {} ELSE cs.at[p])
  BY <1>1, <1>3, JoinedIs
<1> HIDE DEF a, b
<1>6. a.comps = b.comps
  BY <1>1, <1>4, <1>5
<1>7. \A u \in Unknowns : c.at[u] = {} /\ o.at[u] = {}
  BY PlaceFacts DEF Tidy
<1>8. ASSUME NEW p \in Places PROVE a.at[p] = b.at[p]
  <2>1. CASE p \in Unknowns
    <3>1. a.at[p] = c.at[p]
      BY <1>4, <2>1
    <3>2. b.at[p] = o.at[p]
      BY <1>5, <2>1
    <3> QED BY <1>7, <2>1, <3>1, <3>2
  <2>2. CASE p \notin Unknowns
    <3>1. a.at[p] = c.at[p] \union o.at[p]
      BY <1>1, <1>4, <2>2
    <3>2. b.at[p] = o.at[p] \union c.at[p]
      BY <1>1, <1>5, <2>2
    <3> QED BY <3>1, <3>2
  <2> QED BY <2>1, <2>2
<1>9. a.at = b.at
  <2>1. a.at \in [Places -> SUBSET Sigs] /\ b.at \in [Places -> SUBSET Sigs]
    BY <1>4, <1>5, CertParts
  <2> QED BY <1>8, <2>1
<1>10. canonicalize(a).comps = canonicalize(b).comps /\ canonicalize(a).at = canonicalize(b).at
  BY <1>4, <1>5, <1>6, <1>9, CanonicalizeBlind
<1> QED BY <1>2, <1>10 DEF a, b

LEMMA MergeLawsHold == IInv => MergeLaws
<1> SUFFICES ASSUME IInv, NEW h \in Holders, NEW other \in Holders, Whole(h), Whole(other)
             PROVE  LET c == cert[h]  o == cert[other]
                        public == merge_public(c, o)
                        both == merge_public_and_secret(c, o)
                        back == merge_public(o, c)
                    IN /\ h = other => both = c
                       /\ public.secret = c.secret
                       /\ \A k \in Keys : c.secret[k] # NoSecret => both.secret[k] # NoSecret
                       /\ (c.comps \union o.comps) \intersect Unknowns = {} =>
                            public.comps = back.comps /\ public.at = back.at
  BY DEF MergeLaws
<1> DEFINE c == cert[h]
           o == cert[other]
           public == merge_public(c, o)
           both == merge_public_and_secret(c, o)
           back == merge_public(o, c)
<1>1. c \in Certs /\ Tidy(c) /\ Canonical(c) /\ o \in Certs /\ Tidy(o) /\ (h = other => c = o)
  BY DEF IInv, Holds
<1> HIDE DEF c, o
<1>2. h = other => both = c
  BY <1>1, MergeItself
<1>3. public.secret = c.secret
  BY <1>1, MergePublicIs
<1>4. \A k \in Keys : c.secret[k] # NoSecret => both.secret[k] # NoSecret
  <2>1. \A k \in Keys \union Components : Joined(c, o).secret[k] = PreferLater(c.secret[k], o.secret[k])
    BY <1>1, JoinedIs
  <2>2. both.secret = Joined(c, o).secret
    BY <1>1, MergeIs
  <2> HIDE DEF both
  <2> QED BY <2>1, <2>2 DEF PreferLater
<1>5. (c.comps \union o.comps) \intersect Unknowns = {} => public.comps = back.comps /\ public.at = back.at
  BY <1>1, MergeEitherWay
<1> HIDE DEF public, both, back
<1> QED BY <1>2, <1>3, <1>4, <1>5 DEF c, o, public, both, back

(* The laws of merging hold of all copies that can come about: merging is     *)
(* idempotent, leaves or keeps secrets, and commutes on what is public:       *)
(* Cert::merge_public, merge_public_and_secret.                               *)
THEOREM MergingIsLawful == Spec => []MergeLaws
BY Invariance, MergeLawsHold, PTL

==============================================================================
