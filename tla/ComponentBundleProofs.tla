----------------------- MODULE ComponentBundleProofs -----------------------
(***************************************************************************)
(* Proofs about module ComponentBundle, for any signatures, any number of  *)
(* them, and any times: binding_signature() finds the newest signature     *)
(* that may bind the component, wherever the binary search ends and        *)
(* whatever stands around it, and the revocation status follows from it.   *)
(*                                                                         *)
(* The argument: whatever is left of the start of the search was created   *)
(* after the time that is asked about, so it is not alive; the loop takes  *)
(* the first of the rest that has no fault, and as the vector is sorted    *)
(* this is the most recent one.                                            *)
(***************************************************************************)
EXTENDS ComponentBundle, FiniteSetTheorems, SequenceTheorems, TLAPS

(* A set of natural numbers that is not empty has a least element. *)
LEMMA LeastExists ==
  ASSUME NEW S, S \subseteq Nat, S # {}
  PROVE  \E j \in S : \A k \in S : j <= k
<1> DEFINE R == OpToRel(<, Nat)
<1>1. \A m, n \in Nat : <<m, n>> \in R <=> m < n
  BY DEF OpToRel
<1>2. IsWellFoundedOn(R, Nat)
  BY NatLessThanWellFounded
<1> HIDE DEF R
<1>3. PICK j \in S : \A k \in S : ~(<<k, j>> \in R)
  BY <1>2, WFMin
<1>4. ASSUME NEW k \in S PROVE j <= k
  <2>1. j \in Nat /\ k \in Nat
    BY <1>3, <1>4
  <2>2. ~(k < j)
    BY <1>1, <1>3, <1>4, <2>1
  <2> QED BY <2>1, <2>2
<1> QED BY <1>4

LEMMA FirstIsLeast ==
  ASSUME NEW S, S \subseteq Nat, S # {}
  PROVE  First(S) \in S /\ \A k \in S : First(S) <= k
BY LeastExists DEF First

(* What is known of a self signature. *)
LEMMA SelfSignatureFields ==
  ASSUME NEW s \in SelfSignatures
  PROVE  /\ s.ctime \in Int /\ s.ctime >= None /\ s.life \in Nat /\ s.mpi \in Nat
         /\ s.good \in BOOLEAN /\ s.policy \in BOOLEAN
         /\ s.back \in {"unneeded", "good", "dead", "rejected"}
BY SignatureAssumption DEF None

LEMMA RevocationFields ==
  ASSUME NEW r \in SelfRevocations
  PROVE  /\ r.ctime \in Int /\ r.ctime >= None /\ r.life \in Nat
         /\ r.good \in BOOLEAN /\ r.policy \in BOOLEAN
         /\ r.reason \in {"hard", "soft", "none"}
BY SignatureAssumption DEF None

(* The walk back ends at a match that has no match before it. *)
LEMMA WalkBackEnds ==
  ASSUME NEW sigs, Len(sigs) \in Nat, NEW t \in Nat,
         NEW i \in 1 .. Len(sigs), sigs[i].ctime = t
  PROVE  /\ WalkBack(sigs, i, t) \in 1 .. i
         /\ sigs[WalkBack(sigs, i, t)].ctime = t
         /\ \/ WalkBack(sigs, i, t) = 1
            \/ sigs[WalkBack(sigs, i, t) - 1].ctime # t
<1> DEFINE S == {k \in 1 .. i : \A j \in k .. i : sigs[j].ctime = t}
<1>1. i \in S /\ S \subseteq Nat
  OBVIOUS
<1>2. PICK k \in S : \A j \in S : k <= j
  <2> HIDE DEF S
  <2> QED BY <1>1, LeastExists
<1>3. k \in 1 .. i /\ \A j \in k .. i : sigs[j].ctime = t
  BY <1>2
<1>4. k = 1 \/ sigs[k - 1].ctime # t
  <2> SUFFICES ASSUME k # 1, sigs[k - 1].ctime = t PROVE FALSE
    OBVIOUS
  <2>1. k - 1 \in 1 .. i /\ \A j \in k - 1 .. i : j = k - 1 \/ j \in k .. i
    BY <1>3
  <2>2. k - 1 \in S
    BY <1>3, <2>1
  <2>3. k <= k - 1
    <3> HIDE DEF S
    <3> QED BY <1>2, <2>2
  <2> QED BY <1>3, <2>3
<1>5. \E x \in 1 .. i : /\ \A j \in x .. i : sigs[j].ctime = t
                        /\ x = 1 \/ sigs[x - 1].ctime # t
  BY <1>3, <1>4
<1> DEFINE w == WalkBack(sigs, i, t)
<1>6. w \in 1 .. i /\ (\A j \in w .. i : sigs[j].ctime = t)
      /\ (w = 1 \/ sigs[w - 1].ctime # t)
  BY <1>5 DEF WalkBack
<1> HIDE DEF w
<1>7. w \in w .. i
  BY <1>6
<1>8. w \in 1 .. i /\ sigs[w].ctime = t /\ (w = 1 \/ sigs[w - 1].ctime # t)
  BY <1>6, <1>7
<1> QED BY <1>8 DEF w

(* In a sorted vector the creation times do not rise. *)
LEMMA NotRising ==
  ASSUME NEW sigs \in Seq(SelfSignatures), InOrder(sigs),
         NEW i \in 1 .. Len(sigs), NEW j \in 1 .. Len(sigs), i <= j
  PROVE  sigs[j].ctime <= sigs[i].ctime
<1>1. sigs[i] \in SelfSignatures /\ sigs[j] \in SelfSignatures
  BY ElementOfSeq
<1>2. sigs[i].ctime \in Int /\ sigs[j].ctime \in Int
  BY <1>1, SelfSignatureFields
<1>3. CASE i = j
  BY <1>2, <1>3
<1>4. CASE i # j
  <2>1. i < j
    BY <1>4
  <2>2. ~SigCmp(sigs[j], sigs[i])
    BY <2>1 DEF InOrder
  <2> QED BY <1>2, <2>2 DEF SigCmp
<1> QED BY <1>3, <1>4

(* Wherever the search begins, all that is before was created after t. *)
LEMMA SkippedIsNewer ==
  ASSUME NEW sigs \in Seq(SelfSignatures), InOrder(sigs), NEW t \in Nat,
         NEW i \in SearchStart(sigs, t)
  PROVE  /\ i \in Nat \ {0}
         /\ \A j \in 1 .. Len(sigs) : j < i => sigs[j].ctime > t
<1> DEFINE matches == {k \in 1 .. Len(sigs) : sigs[k].ctime = t}
           newer == {k \in 1 .. Len(sigs) : sigs[k].ctime > t}
<1>1. Len(sigs) \in Nat
  OBVIOUS
<1>2. \A j \in 1 .. Len(sigs) : sigs[j].ctime \in Int
  BY ElementOfSeq, SelfSignatureFields
<1>3. \/ i = 1
      \/ matches = {} /\ i = Cardinality(newer) + 1
      \/ \E m \in matches : i = WalkBack(sigs, m, t)
  BY DEF SearchStart
<1>4. CASE i = 1
  BY <1>4
<1>5. CASE matches = {} /\ i = Cardinality(newer) + 1
  <2> DEFINE c == Cardinality(newer)
  <2>1. IsFiniteSet(newer)
    <3>1. IsFiniteSet(1 .. Len(sigs))
      BY <1>1, FS_Interval
    <3>2. newer \subseteq 1 .. Len(sigs)
      OBVIOUS
    <3> HIDE DEF newer
    <3> QED BY <3>1, <3>2, FS_Subset
  <2>2. c \in Nat
    BY <2>1, FS_CardinalityType
  <2>3. ASSUME NEW j \in 1 .. Len(sigs), j < i, ~(sigs[j].ctime > t)
        PROVE  FALSE
    <3>1. newer \subseteq 1 .. j - 1
      <4> SUFFICES ASSUME NEW k \in newer PROVE k \in 1 .. j - 1
        OBVIOUS
      <4>1. k \in 1 .. Len(sigs) /\ sigs[k].ctime > t
        OBVIOUS
      <4>2. CASE j <= k
        <5>1. sigs[k].ctime <= sigs[j].ctime
          BY <4>1, <4>2, NotRising
        <5> QED BY <1>2, <2>3, <4>1, <5>1
      <4> QED BY <4>1, <4>2
    <3>2. IsFiniteSet(1 .. j - 1) /\ Cardinality(1 .. j - 1) = j - 1
      BY FS_Interval
    <3>3. c <= j - 1
      BY <3>1, <3>2, FS_Subset
    <3> QED BY <1>5, <2>2, <2>3, <3>3
  <2> QED BY <1>5, <2>2, <2>3
<1>6. CASE \E m \in matches : i = WalkBack(sigs, m, t)
  <2>1. PICK m \in 1 .. Len(sigs) : sigs[m].ctime = t /\ i = WalkBack(sigs, m, t)
    BY <1>6
  <2>2. i \in 1 .. m /\ sigs[i].ctime = t /\ (i = 1 \/ sigs[i - 1].ctime # t)
    BY <1>1, <2>1, WalkBackEnds
  <2>3. ASSUME NEW j \in 1 .. Len(sigs), j < i
        PROVE  sigs[j].ctime > t
    <3>1. i - 1 \in 1 .. Len(sigs) /\ j <= i - 1 /\ i \in 1 .. Len(sigs) /\ i - 1 <= i
      BY <2>1, <2>2, <2>3
    <3>2. sigs[i - 1].ctime <= sigs[j].ctime
      BY <3>1, NotRising
    <3>3. sigs[i].ctime <= sigs[i - 1].ctime
      BY <3>1, NotRising
    <3>4. sigs[i - 1].ctime # t
      BY <2>2, <2>3
    <3> QED BY <1>2, <2>2, <3>1, <3>2, <3>3, <3>4
  <2> QED BY <2>2, <2>3
<1> QED BY <1>3, <1>4, <1>5, <1>6

(* The signatures in which the loop finds no fault are those that may bind *)
(* the component.                                                          *)
Binds(s, t) ==
  s.good /\ s.policy /\ Alive(s, t) /\ s.back \in {"unneeded", "good"}

LEMMA NoFault ==
  ASSUME NEW s \in SelfSignatures, NEW t \in Nat
  PROVE  Fault(s, t) = "none" <=> Binds(s, t)
<1>1. s.back \in {"unneeded", "good", "dead", "rejected"}
  BY SelfSignatureFields
<1> HIDE DEF Alive
<1> QED BY <1>1 DEF Fault, Binds

(* binding_signature() as a function of a sorted vector and a time. *)
LEMMA SearchIsExact ==
  ASSUME NEW sigs \in Seq(SelfSignatures), InOrder(sigs), NEW t \in Nat,
         NEW i \in SearchStart(sigs, t),
         NEW able, able = {s \in Elements(sigs) : Binds(s, t)}
  PROVE  LET found == Scan(sigs, i, t)
         IN  IF able = {} THEN found.sig = NoSignature /\ found.err # "none"
             ELSE /\ found.sig \in able
                  /\ \A s \in able :
                       \/ s.ctime < found.sig.ctime
                       \/ s.ctime = found.sig.ctime /\ s.mpi >= found.sig.mpi
<1> DEFINE right == {j \in i .. Len(sigs) : Fault(sigs[j], t) = "none"}
           wrong == {j \in i .. Len(sigs) : Fault(sigs[j], t) \notin {"none", "bad"}}
<1>1. Len(sigs) \in Nat /\ i \in Nat \ {0}
      /\ \A j \in 1 .. Len(sigs) : j < i => sigs[j].ctime > t
  BY SkippedIsNewer
<1>2. \A j \in 1 .. Len(sigs) : sigs[j] \in SelfSignatures
  BY ElementOfSeq
<1>3. \A j \in right : j \in 1 .. Len(sigs) /\ sigs[j] \in able
  <2> SUFFICES ASSUME NEW j \in right PROVE j \in 1 .. Len(sigs) /\ sigs[j] \in able
    OBVIOUS
  <2>1. j \in 1 .. Len(sigs) /\ Fault(sigs[j], t) = "none"
    BY <1>1
  <2>2. Binds(sigs[j], t)
    BY <1>2, <2>1, NoFault
  <2> QED BY <2>1, <2>2 DEF Elements
<1>4. \A s \in able : \E j \in right : s = sigs[j]
  <2> SUFFICES ASSUME NEW s \in able PROVE \E j \in right : s = sigs[j]
    OBVIOUS
  <2>1. PICK j \in 1 .. Len(sigs) : s = sigs[j]
    BY DEF Elements
  <2>2. Binds(sigs[j], t)
    BY <2>1
  <2>3. Fault(sigs[j], t) = "none"
    BY <1>2, <2>2, NoFault
  <2>4. sigs[j].ctime \in Int
    BY <1>2, SelfSignatureFields
  <2>5. ~(j < i)
    BY <1>1, <2>2, <2>4 DEF Binds, Alive
  <2>6. j \in right
    BY <1>1, <2>3, <2>5
  <2> QED BY <2>1, <2>6
<1>5. right \subseteq Nat /\ wrong \subseteq Nat
  BY <1>1
<1>6. CASE right # {}
  <2> DEFINE f == First(right)
  <2>1. f \in right /\ \A k \in right : f <= k
    <3> HIDE DEF right
    <3> QED BY <1>5, <1>6, FirstIsLeast
  <2>2. Scan(sigs, i, t).sig = sigs[f]
    BY <1>6 DEF Scan
  <2>3. sigs[f] \in able /\ f \in 1 .. Len(sigs)
    <3> HIDE DEF right, f
    <3> QED BY <1>3, <2>1
  <2>4. ASSUME NEW s \in able
        PROVE  \/ s.ctime < sigs[f].ctime
               \/ s.ctime = sigs[f].ctime /\ s.mpi >= sigs[f].mpi
    <3> HIDE DEF right, f
    <3>1. PICK j \in right : s = sigs[j]
      BY <1>4
    <3>2. f <= j /\ j \in 1 .. Len(sigs)
      BY <1>3, <2>1
    <3>3. /\ sigs[f].ctime \in Int /\ sigs[j].ctime \in Int
          /\ sigs[f].mpi \in Nat /\ sigs[j].mpi \in Nat
      BY <1>2, <2>3, <3>2, SelfSignatureFields
    <3>4. CASE f = j
      BY <3>1, <3>3, <3>4
    <3>5. CASE f # j
      <4>1. f < j
        BY <2>3, <3>2, <3>5
      <4>2. ~SigCmp(sigs[j], sigs[f])
        BY <2>3, <3>2, <4>1 DEF InOrder
      <4> QED BY <3>1, <3>3, <4>2 DEF SigCmp
    <3> QED BY <3>4, <3>5
  <2> HIDE DEF f, right
  <2> QED BY <2>2, <2>3, <2>4
<1>7. CASE right = {}
  <2>1. able = {}
    <3> HIDE DEF right
    <3> QED BY <1>4, <1>7
  <2>2. CASE wrong # {}
    <3> DEFINE f == First(wrong)
    <3>1. f \in wrong
      <4> HIDE DEF wrong
      <4> QED BY <1>5, <2>2, FirstIsLeast
    <3>2. Scan(sigs, i, t) = [sig |-> NoSignature, err |-> Fault(sigs[f], t)]
      BY <1>7, <2>2 DEF Scan
    <3>3. Fault(sigs[f], t) # "none"
      BY <3>1
    <3> HIDE DEF f, wrong, right
    <3> QED BY <2>1, <3>2, <3>3
  <2>3. CASE wrong = {}
    <3>1. Scan(sigs, i, t) = [sig |-> NoSignature, err |-> "NoBindingSignature"]
      BY <1>7, <2>3 DEF Scan
    <3> HIDE DEF wrong, right
    <3> QED BY <2>1, <3>1
  <2> QED BY <2>2, <2>3
<1> QED BY <1>6, <1>7

(* Sorting a vector of signatures leaves a vector of these signatures. *)
LEMMA CanonicalIsSorted ==
  ASSUME NEW T, NEW s \in Seq(T), NEW r \in Canonical(s)
  PROVE  r \in Seq(T) /\ Elements(r) = Elements(s) /\ InOrder(r)
<1>1. PICK n \in 0 .. Len(s) : r \in [1 .. n -> Elements(s)]
  BY DEF Canonical
<1>2. Elements(s) \subseteq T
  BY ElementOfSeq DEF Elements
<1>3. n \in Nat /\ r \in [1 .. n -> T]
  BY <1>1, <1>2
<1>4. r \in Seq(T)
  BY <1>3
<1> QED BY <1>4 DEF Canonical

(* What is invariant, besides: a question is only asked of a sorted bundle. *)
IInv ==
  /\ BindingIsNewest /\ HardIsFinal /\ SoftUntilRebound
  /\ Asked => sorted

LEMMA InitInv == Init => IInv
<1> SUFFICES ASSUME Init PROVE IInv
  OBVIOUS
<1>1. query.revoked = "none" /\ sorted = FALSE
  BY DEF Init, NoQuery
<1>2. /\ self_signatures \in Seq(SelfSignatures)
      /\ self_revocations \in Seq(SelfRevocations)
      /\ other_revocations \in Seq(OtherRevocations)
  BY EmptySeq DEF Init
<1>3. TypeOK
  BY <1>1, <1>2 DEF TypeOK
<1> QED BY <1>1, <1>3 DEF IInv, BindingIsNewest, HardIsFinal, SoftUntilRebound, Asked

(* Before the bundle is sorted nobody asks, and all but the types is void. *)
LEMMA Unasked ==
  ASSUME IInv, ~sorted, query' = query, TypeOK'
  PROVE  IInv'
<1>1. ~Asked /\ ~Asked'
  BY DEF IInv, Asked
<1> QED BY <1>1 DEF IInv, BindingIsNewest, HardIsFinal, SoftUntilRebound

LEMMA AddInv ==
  ASSUME IInv, Add
  PROVE  IInv'
<1>1. TypeOK
  BY DEF IInv, BindingIsNewest
<1>2. self_signatures' \in Seq(SelfSignatures)
  <2>1. self_signatures \in Seq(SelfSignatures)
    BY <1>1 DEF TypeOK
  <2>2. \/ self_signatures' = self_signatures
        \/ \E s \in SelfSignatures : self_signatures' = Append(self_signatures, s)
    BY DEF Add
  <2> QED BY <2>1, <2>2, AppendProperties
<1>3. self_revocations' \in Seq(SelfRevocations)
  <2>1. self_revocations \in Seq(SelfRevocations)
    BY <1>1 DEF TypeOK
  <2>2. \/ self_revocations' = self_revocations
        \/ \E s \in SelfRevocations : self_revocations' = Append(self_revocations, s)
    BY DEF Add
  <2> QED BY <2>1, <2>2, AppendProperties
<1>4. other_revocations' \in Seq(OtherRevocations)
  <2>1. other_revocations \in Seq(OtherRevocations)
    BY <1>1 DEF TypeOK
  <2>2. \/ other_revocations' = other_revocations
        \/ \E s \in OtherRevocations : other_revocations' = Append(other_revocations, s)
    BY DEF Add
  <2> QED BY <2>1, <2>2, AppendProperties
<1>5. ~sorted /\ UNCHANGED <<sorted, query>>
  BY DEF Add
<1>6. TypeOK'
  BY <1>1, <1>2, <1>3, <1>4, <1>5 DEF TypeOK
<1> QED BY <1>5, <1>6, Unasked

LEMMA SortInv ==
  ASSUME IInv, SortAndDedup
  PROVE  IInv'
<1>1. TypeOK
  BY DEF IInv, BindingIsNewest
<1>2. self_signatures' \in Seq(SelfSignatures) /\ InOrder(self_signatures')
  BY <1>1, CanonicalIsSorted DEF SortAndDedup, TypeOK
<1>3. self_revocations' \in Seq(SelfRevocations)
  BY <1>1, CanonicalIsSorted DEF SortAndDedup, TypeOK
<1>4. other_revocations' \in Seq(OtherRevocations)
  BY <1>1, CanonicalIsSorted DEF SortAndDedup, TypeOK
<1>5. TypeOK'
  BY <1>1, <1>2, <1>3, <1>4 DEF SortAndDedup, TypeOK
<1> QED BY <1>5, Unasked DEF SortAndDedup

(* What a question leaves behind: the outcome of some search, and the      *)
(* revocation status that belongs to it.                                   *)
LEMMA QueryAnswer ==
  ASSUME NEW t, NEW final, Query(t, final)
  PROVE  \E i \in SearchStart(self_signatures, t) :
           LET found == Scan(self_signatures, i, t)
               status == Status(final, found.sig, t)
           IN  /\ query'.t = t /\ query'.final = final
               /\ query'.binding = found.sig /\ query'.err = found.err
               /\ query'.revoked = status.status
BY DEF Query

(* The status is Revoked exactly if a verified self revocation counts. *)
LEMMA StatusRevoked ==
  ASSUME NEW final, NEW sig, NEW t
  PROVE  /\ Status(final, sig, t).status \in {"Revoked", "CouldBe", "NotAsFarAsWeKnow"}
         /\ Status(final, sig, t).status = "Revoked" <=>
              \E r \in Elements(self_revocations) : r.good /\ Counts(r, final, sig, t)
<1> DEFINE own == {r \in {x \in Elements(self_revocations) : x.good} : Counts(r, final, sig, t)}
<1>1. own # {} <=> \E r \in Elements(self_revocations) : r.good /\ Counts(r, final, sig, t)
  OBVIOUS
<1>2. /\ Status(final, sig, t).status \in {"Revoked", "CouldBe", "NotAsFarAsWeKnow"}
      /\ Status(final, sig, t).status = "Revoked" <=> own # {}
  BY DEF Status
<1> QED BY <1>1, <1>2

LEMMA QueryInv ==
  ASSUME IInv, NEW t \in Times, NEW final \in BOOLEAN, Query(t, final)
  PROVE  IInv'
<1>1. TypeOK /\ t \in Nat /\ sorted /\ sorted'
  BY SignatureAssumption DEF IInv, BindingIsNewest, Query
<1>2. /\ self_signatures \in Seq(SelfSignatures) /\ InOrder(self_signatures)
      /\ self_revocations \in Seq(SelfRevocations)
  BY <1>1 DEF TypeOK
<1>3. UNCHANGED <<self_signatures, self_revocations, other_revocations, sorted>>
  BY DEF Query
<1>4. PICK i \in SearchStart(self_signatures, t) :
        LET found == Scan(self_signatures, i, t)
            status == Status(final, found.sig, t)
        IN  /\ query'.t = t /\ query'.final = final
            /\ query'.binding = found.sig /\ query'.err = found.err
            /\ query'.revoked = status.status
  BY QueryAnswer
<1> DEFINE able == {s \in Elements(self_signatures) : Binds(s, t)}
           sig == Scan(self_signatures, i, t).sig
           counts(r) == Counts(r, final, sig, t)
<1>5. Acceptable' = able
  BY <1>3, <1>4 DEF Acceptable, Own, Binds
<1>6. /\ query'.t = t /\ query'.final = final /\ query'.binding = sig
      /\ query'.revoked = Status(final, sig, t).status
      /\ query'.err = Scan(self_signatures, i, t).err
  BY <1>4
<1>7. IF able = {} THEN sig = NoSignature /\ query'.err # "none"
      ELSE /\ sig \in able
           /\ \A s \in able : \/ s.ctime < sig.ctime
                              \/ s.ctime = sig.ctime /\ s.mpi >= sig.mpi
  <2>1. able = {s \in Elements(self_signatures) : Binds(s, t)}
    OBVIOUS
  <2> HIDE DEF able
  <2>2. LET found == Scan(self_signatures, i, t)
        IN  IF able = {} THEN found.sig = NoSignature /\ found.err # "none"
            ELSE /\ found.sig \in able
                 /\ \A s \in able :
                      \/ s.ctime < found.sig.ctime
                      \/ s.ctime = found.sig.ctime /\ s.mpi >= found.sig.mpi
    BY <1>1, <1>2, <2>1, SearchIsExact
  <2> QED BY <1>6, <2>2
<1>8. /\ query'.revoked \in {"Revoked", "CouldBe", "NotAsFarAsWeKnow"}
      /\ query'.revoked = "Revoked" <=>
           \E r \in Elements(self_revocations) : r.good /\ counts(r)
  BY <1>6, StatusRevoked
<1>9. TypeOK'
  BY <1>1, <1>3, <1>8 DEF TypeOK
<1> HIDE DEF sig, able
<1>10. BindingIsNewest'
  BY <1>5, <1>6, <1>7, <1>9 DEF BindingIsNewest
<1>11. \A r \in Elements(self_revocations) : r \in SelfRevocations
  BY <1>2, ElementOfSeq DEF Elements
<1>12. Revocations' = {r \in Elements(self_revocations) : r.good /\ r.policy}
  BY <1>3 DEF Revocations
<1>13. HardIsFinal'
  <2> SUFFICES ASSUME final, NEW r \in Revocations', r.reason # "soft"
               PROVE  query'.revoked = "Revoked"
    BY <1>6 DEF HardIsFinal
  <2>1. r \in Elements(self_revocations) /\ r.good /\ r.policy
    BY <1>12
  <2>2. counts(r)
    BY <2>1 DEF Counts
  <2> QED BY <1>8, <2>1, <2>2
<1>14. SoftUntilRebound'
  <2> SUFFICES ASSUME final => \A r \in Revocations' : r.reason = "soft"
               PROVE  query'.revoked = "Revoked" <=>
                        \E r \in Revocations' :
                          Alive(r, t) /\ \A s \in able : s.ctime <= r.ctime
    BY <1>5, <1>6 DEF SoftUntilRebound
  <2>1. ASSUME NEW s \in able
        PROVE  s.ctime \in Nat
    <3>1. s \in SelfSignatures /\ Alive(s, t)
      BY <1>2, <2>1, ElementOfSeq DEF able, Elements, Binds
    <3>2. s.ctime \in Int /\ s.ctime >= None
      BY <3>1, SelfSignatureFields
    <3> QED BY <3>1, <3>2 DEF Alive, None
  <2>2. ASSUME NEW r \in Revocations'
        PROVE  counts(r) <=> Alive(r, t) /\ \A s \in able : s.ctime <= r.ctime
    <3>1. r \in SelfRevocations /\ r.policy /\ ~(final /\ r.reason # "soft")
      BY <1>11, <1>12, <2>2
    <3>2. CASE ~Alive(r, t)
      <4> HIDE DEF Alive
      <4> QED BY <3>1, <3>2 DEF Counts
    <3>3. CASE Alive(r, t)
      <4>1. r.ctime \in Int /\ r.ctime >= None /\ r.ctime # None
        BY <3>1, <3>3, RevocationFields DEF Alive
      <4>2. r.ctime \in Nat
        BY <4>1 DEF None
      <4>3. CASE able = {}
        <5>1. sig.ctime = None
          BY <1>7, <4>3 DEF NoSignature
        <5>2. counts(r)
          BY <3>1, <3>3, <4>1, <4>2, <5>1 DEF Counts
        <5> QED BY <3>3, <4>3, <5>2
      <4>4. CASE able # {}
        <5>1. sig \in able
          BY <1>7, <4>4
        <5>2. sig.ctime \in Nat /\ sig.ctime # None
          BY <2>1, <5>1 DEF None
        <5>3. counts(r) <=> sig.ctime <= r.ctime
          BY <3>1, <3>3, <4>1, <5>2 DEF Counts
        <5>4. \A s \in able : s.ctime <= sig.ctime
          BY <1>7, <2>1, <4>4, <5>2
        <5>5. sig.ctime <= r.ctime => \A s \in able : s.ctime <= r.ctime
          BY <2>1, <4>2, <5>2, <5>4
        <5> QED BY <3>3, <5>1, <5>3, <5>5
      <4> QED BY <4>3, <4>4
    <3> QED BY <3>2, <3>3
  <2>3. ASSUME NEW r \in Elements(self_revocations), r.good, counts(r)
        PROVE  r \in Revocations'
    BY <1>12, <2>3 DEF Counts
  <2>4. \A r \in Revocations' : r \in Elements(self_revocations) /\ r.good
    BY <1>12
  <2> HIDE DEF counts
  <2> QED BY <1>8, <2>2, <2>3, <2>4
<1> QED BY <1>1, <1>10, <1>13, <1>14 DEF IInv

LEMMA StutterInv ==
  ASSUME IInv, UNCHANGED vars
  PROVE  IInv'
<1>1. UNCHANGED <<self_signatures, self_revocations, sorted, query>> /\ TypeOK'
  BY DEF vars, IInv, BindingIsNewest, TypeOK
<1> QED BY <1>1 DEF IInv, BindingIsNewest, HardIsFinal, SoftUntilRebound, Asked,
                    Acceptable, Own, Revocations

LEMMA StepInv == IInv /\ [Next]_vars => IInv'
<1> SUFFICES ASSUME IInv, [Next]_vars PROVE IInv'
  OBVIOUS
<1>1. CASE Add BY <1>1, AddInv
<1>2. CASE SortAndDedup BY <1>2, SortInv
<1>3. ASSUME NEW t \in Times, NEW final \in BOOLEAN, Query(t, final) PROVE IInv'
  BY <1>3, QueryInv
<1>4. CASE UNCHANGED vars BY <1>4, StutterInv
<1> QED BY <1>1, <1>2, <1>3, <1>4 DEF Next

LEMMA Invariance == Spec => []IInv
BY InitInv, StepInv, PTL DEF Spec

(* Whatever signatures a bundle has, in whatever order they came: the      *)
(* signature that binding_signature() returns is the newest that may bind  *)
(* the component at that time, and it fails only if there is none.         *)
THEOREM NewestBinds == Spec => []BindingIsNewest
<1>1. IInv => BindingIsNewest BY DEF IInv
<1> QED BY <1>1, Invariance, PTL

(* A hard revocation of a key is never outlived, whatever else the bundle  *)
(* holds and whenever one asks.                                            *)
THEOREM HardRevocations == Spec => []HardIsFinal
<1>1. IInv => HardIsFinal BY DEF IInv
<1> QED BY <1>1, Invariance, PTL

(* A soft revocation revokes a component while it is alive and no newer    *)
(* signature binds the component, and nothing else revokes it.             *)
THEOREM SoftRevocations == Spec => []SoftUntilRebound
<1>1. IInv => SoftUntilRebound BY DEF IInv
<1> QED BY <1>1, Invariance, PTL
=============================================================================
