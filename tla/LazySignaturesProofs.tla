------------------------ MODULE LazySignaturesProofs ------------------------
(***************************************************************************)
(* Proofs about LazySignatures for every set of signatures, vectors and    *)
(* threads, every length, and every order to sort by.                      *)
(***************************************************************************)
EXTENDS LazySignatures, SequenceTheorems, FiniteSetTheorems, WellFoundedInduction, TLAPS

StateNames == {"Unverified", "Good", "Bad"}

(* A thread that is in a call has borrowed a vector. *)
Busy(t) == thr[t].call \in {"verify_sig", "iter_verified", "iter_bad"}

(* A thread that has released the lock to verify a signature still has the *)
(* vector borrowed, and the signature is there.                            *)
ThreadInv ==
  \A t \in Threads :
    /\ Busy(t) <=> thr[t].vec # {}
    /\ thr[t].pc = "verify" => thr[t].vec # {}
    /\ \A v \in Vectors :
         thr[t].vec = {v} /\ thr[t].pc = "verify" => thr[t].i < Len(sigs[v])

(* What the iterators have given out so far is what they are meant to. *)
GotInv ==
  \A t \in Threads : \A k \in 1 .. Len(thr[t].got) :
    /\ thr[t].call = "iter_verified" => Verify(thr[t].got[k])
    /\ thr[t].call = "iter_bad" => ~Verify(thr[t].got[k])

LazyInv == TypeOK /\ ThreadInv /\ StatesTrue /\ GotInv

LEMMA UnverifiedSeq ==
  ASSUME NEW n \in Nat
  PROVE  /\ AllUnverified(n) \in Seq(StateNames)
         /\ Len(AllUnverified(n)) = n
         /\ \A i \in 1 .. n : AllUnverified(n)[i] = "Unverified"
BY IsASeq DEF AllUnverified, StateNames

LEMMA LenOfDomain ==
  ASSUME NEW D, NEW s \in Seq(D), NEW n \in Nat, DOMAIN s = 1 .. n
  PROVE  Len(s) = n
<1>1. Len(s) \in Nat /\ DOMAIN s = 1 .. Len(s)
  BY LenProperties
<1> QED BY <1>1

LEMMA VerdictIsState == \A s : Verdict(s) \in {"Good", "Bad"}
BY DEF Verdict

(* The vector that a busy thread has borrowed. *)
LEMMA VectorOfBusy ==
  ASSUME TypeOK, ThreadInv, NEW t \in Threads, Busy(t)
  PROVE  VectorOf(t) \in Vectors /\ thr[t].vec = {VectorOf(t)}
<1>1. thr[t].vec \in {{}} \cup {{v} : v \in Vectors}
  BY DEF TypeOK
<1>2. thr[t].vec # {}
  BY DEF ThreadInv
<1>3. PICK v \in Vectors : thr[t].vec = {v}
  BY <1>1, <1>2
<1> QED BY <1>3 DEF VectorOf

-----------------------------------------------------------------------------
(* The operations that change vectors do not touch the threads, and they   *)
(* only change vectors that no thread has borrowed.                        *)
LEMMA ExclusiveStep ==
  ASSUME LazyInv, UNCHANGED thr,
         sigs' \in [Vectors -> Seq(Signatures)],
         states' \in [Vectors -> Seq(StateNames)],
         given' \in [Vectors -> SUBSET Signatures],
         \A v \in Vectors : Len(states'[v]) = Len(sigs'[v]),
         \A v \in Vectors : sigs'[v] = sigs[v] \/ Exclusive(v),
         \A v \in Vectors : \A i \in 1 .. Len(sigs'[v]) :
           states'[v][i] # "Unverified" => states'[v][i] = Verdict(sigs'[v][i])
  PROVE  LazyInv'
<1>1. TypeOK'
  BY DEF LazyInv, TypeOK, StateNames
<1>2. ThreadInv'
  <2> SUFFICES ASSUME NEW t \in Threads
               PROVE  /\ Busy(t)' <=> thr'[t].vec # {}
                      /\ thr'[t].pc = "verify" => thr'[t].vec # {}
                      /\ \A v \in Vectors :
                           thr'[t].vec = {v} /\ thr'[t].pc = "verify"
                             => thr'[t].i < Len(sigs'[v])
    BY DEF ThreadInv
  <2>1. /\ Busy(t)' <=> thr'[t].vec # {}
        /\ thr'[t].pc = "verify" => thr'[t].vec # {}
    BY DEF LazyInv, ThreadInv, Busy
  <2>2. ASSUME NEW v \in Vectors, thr'[t].vec = {v}, thr'[t].pc = "verify"
        PROVE  thr'[t].i < Len(sigs'[v])
    <3>1. ~Exclusive(v)
      BY <2>2 DEF Exclusive
    <3>2. sigs'[v] = sigs[v]
      BY <3>1
    <3> QED BY <2>2, <3>2 DEF LazyInv, ThreadInv
  <2> QED BY <2>1, <2>2
<1>3. StatesTrue'
  BY DEF StatesTrue
<1>4. GotInv'
  BY DEF LazyInv, GotInv
<1> QED BY <1>1, <1>2, <1>3, <1>4 DEF LazyInv

LEMMA PushStep ==
  ASSUME LazyInv, NEW v \in Vectors, NEW s \in Signatures, Push(v, s)
  PROVE  LazyInv'
<1>1. /\ sigs \in [Vectors -> Seq(Signatures)]
      /\ states \in [Vectors -> Seq(StateNames)]
      /\ given \in [Vectors -> SUBSET Signatures]
      /\ \A w \in Vectors : Len(states[w]) = Len(sigs[w])
  BY DEF LazyInv, TypeOK, StateNames
<1>2. /\ sigs' = [sigs EXCEPT ![v] = Append(sigs[v], s)]
      /\ states' = [states EXCEPT ![v] = Append(states[v], "Unverified")]
      /\ given' = [given EXCEPT ![v] = given[v] \cup {s}]
      /\ Exclusive(v) /\ UNCHANGED thr
  BY DEF Push
<1>3. /\ Append(sigs[v], s) \in Seq(Signatures)
      /\ Len(Append(sigs[v], s)) = Len(sigs[v]) + 1
      /\ \A i \in 1 .. Len(sigs[v]) : Append(sigs[v], s)[i] = sigs[v][i]
  BY <1>1, AppendProperties
<1>4. /\ Append(states[v], "Unverified") \in Seq(StateNames)
      /\ Len(Append(states[v], "Unverified")) = Len(states[v]) + 1
      /\ \A i \in 1 .. Len(states[v]) : Append(states[v], "Unverified")[i] = states[v][i]
      /\ Append(states[v], "Unverified")[Len(states[v]) + 1] = "Unverified"
  BY <1>1, AppendProperties DEF StateNames
<1>5. sigs' \in [Vectors -> Seq(Signatures)]
  BY <1>1, <1>2, <1>3
<1>6. states' \in [Vectors -> Seq(StateNames)]
  BY <1>1, <1>2, <1>4
<1>7. given' \in [Vectors -> SUBSET Signatures]
  BY <1>1, <1>2
<1>8. \A w \in Vectors : Len(states'[w]) = Len(sigs'[w])
  BY <1>1, <1>2, <1>3, <1>4
<1>9. \A w \in Vectors : sigs'[w] = sigs[w] \/ Exclusive(w)
  BY <1>1, <1>2
<1>10. ASSUME NEW w \in Vectors, NEW i \in 1 .. Len(sigs'[w]),
              states'[w][i] # "Unverified"
       PROVE  states'[w][i] = Verdict(sigs'[w][i])
  <2>1. CASE w # v
    <3>1. sigs'[w] = sigs[w] /\ states'[w] = states[w]
      BY <1>1, <1>2, <2>1
    <3> QED BY <1>10, <3>1 DEF LazyInv, StatesTrue
  <2>2. CASE w = v
    <3>1. /\ sigs'[w] = Append(sigs[v], s)
          /\ states'[w] = Append(states[v], "Unverified")
      BY <1>1, <1>2, <2>2
    <3>2. Len(sigs[v]) \in Nat /\ Len(states[v]) = Len(sigs[v])
      BY <1>1, LenProperties
    <3>3. i \in 1 .. Len(sigs[v])
      BY <1>3, <1>4, <1>10, <3>1, <3>2
    <3>4. sigs'[w][i] = sigs[v][i] /\ states'[w][i] = states[v][i]
      BY <1>3, <1>4, <3>1, <3>2, <3>3
    <3> QED BY <1>10, <3>3, <3>4 DEF LazyInv, StatesTrue
  <2> QED BY <2>1, <2>2
<1> QED
  <2> HIDE DEF Verdict
  <2> QED BY <1>2, <1>5, <1>6, <1>7, <1>8, <1>9, <1>10, ExclusiveStep

LEMMA TakeAllStep ==
  ASSUME LazyInv, NEW v \in Vectors, TakeAll(v)
  PROVE  LazyInv'
<1>1. /\ sigs \in [Vectors -> Seq(Signatures)]
      /\ states \in [Vectors -> Seq(StateNames)]
      /\ given \in [Vectors -> SUBSET Signatures]
      /\ \A w \in Vectors : Len(states[w]) = Len(sigs[w])
  BY DEF LazyInv, TypeOK, StateNames
<1>2. /\ sigs' = [sigs EXCEPT ![v] = <<>>]
      /\ states' = [states EXCEPT ![v] = <<>>]
      /\ given' = [given EXCEPT ![v] = {}]
      /\ Exclusive(v) /\ UNCHANGED thr
  BY DEF TakeAll
<1>3. sigs' \in [Vectors -> Seq(Signatures)] /\ states' \in [Vectors -> Seq(StateNames)]
  BY <1>1, <1>2
<1>4. given' \in [Vectors -> SUBSET Signatures]
  BY <1>1, <1>2
<1>5. \A w \in Vectors : Len(states'[w]) = Len(sigs'[w])
  BY <1>1, <1>2
<1>6. \A w \in Vectors : sigs'[w] = sigs[w] \/ Exclusive(w)
  BY <1>1, <1>2
<1>7. \A w \in Vectors : \A i \in 1 .. Len(sigs'[w]) :
        states'[w][i] # "Unverified" => states'[w][i] = Verdict(sigs'[w][i])
  <2> SUFFICES ASSUME NEW w \in Vectors, NEW i \in 1 .. Len(sigs'[w]),
                      states'[w][i] # "Unverified"
               PROVE  states'[w][i] = Verdict(sigs'[w][i])
    OBVIOUS
  <2>1. w # v
    BY <1>1, <1>2
  <2>2. sigs'[w] = sigs[w] /\ states'[w] = states[w]
    BY <1>1, <1>2, <2>1
  <2> QED BY <2>2 DEF LazyInv, StatesTrue
<1> QED BY <1>2, <1>3, <1>4, <1>5, <1>6, <1>7, ExclusiveStep

LEMMA AppendAllStep ==
  ASSUME LazyInv, NEW v \in Vectors, NEW other \in Vectors, AppendAll(v, other)
  PROVE  LazyInv'
<1> DEFINE S == sigs[v] \o sigs[other]
           T == states[v] \o states[other]
<1>1. /\ sigs \in [Vectors -> Seq(Signatures)]
      /\ states \in [Vectors -> Seq(StateNames)]
      /\ given \in [Vectors -> SUBSET Signatures]
      /\ \A w \in Vectors : Len(states[w]) = Len(sigs[w])
  BY DEF LazyInv, TypeOK, StateNames
<1>2. /\ sigs' = [sigs EXCEPT ![v] = S, ![other] = <<>>]
      /\ states' = [states EXCEPT ![v] = T, ![other] = <<>>]
      /\ given' = [given EXCEPT ![v] = given[v] \cup given[other], ![other] = {}]
      /\ v # other /\ Exclusive(v) /\ Exclusive(other) /\ UNCHANGED thr
  BY DEF AppendAll
<1>3. /\ S \in Seq(Signatures)
      /\ Len(S) = Len(sigs[v]) + Len(sigs[other])
      /\ \A i \in 1 .. Len(S) : S[i] = IF i <= Len(sigs[v]) THEN sigs[v][i]
                                       ELSE sigs[other][i - Len(sigs[v])]
  BY <1>1, ConcatProperties
<1>4. /\ T \in Seq(StateNames)
      /\ Len(T) = Len(states[v]) + Len(states[other])
      /\ \A i \in 1 .. Len(T) : T[i] = IF i <= Len(states[v]) THEN states[v][i]
                                       ELSE states[other][i - Len(states[v])]
  BY <1>1, ConcatProperties
<1> HIDE DEF S, T
<1>5. \A w \in Vectors : Len(sigs[w]) \in Nat
  BY <1>1, LenProperties
<1>6. ASSUME NEW w \in Vectors
      PROVE  /\ w # v /\ w # other => sigs'[w] = sigs[w] /\ states'[w] = states[w]
             /\ w = v => sigs'[w] = S /\ states'[w] = T
             /\ w = other => sigs'[w] = <<>> /\ states'[w] = <<>>
  BY <1>1, <1>2
<1>7. sigs' \in [Vectors -> Seq(Signatures)]
  <2>1. \A w \in Vectors : sigs'[w] \in Seq(Signatures)
    BY <1>1, <1>3, <1>6, EmptySeq
  <2>2. sigs' = [w \in Vectors |-> sigs'[w]]
    BY <1>1, <1>2
  <2> QED BY <2>1, <2>2
<1>8. states' \in [Vectors -> Seq(StateNames)]
  <2>1. \A w \in Vectors : states'[w] \in Seq(StateNames)
    BY <1>1, <1>4, <1>6, EmptySeq
  <2>2. states' = [w \in Vectors |-> states'[w]]
    BY <1>1, <1>2
  <2> QED BY <2>1, <2>2
<1>9. given' \in [Vectors -> SUBSET Signatures]
  BY <1>1, <1>2
<1>10. \A w \in Vectors : Len(states'[w]) = Len(sigs'[w])
  BY <1>1, <1>3, <1>4, <1>6
<1>11. \A w \in Vectors : sigs'[w] = sigs[w] \/ Exclusive(w)
  BY <1>2, <1>6
<1>13. \A w \in Vectors : \A j \in 1 .. Len(sigs[w]) :
         states[w][j] # "Unverified" => states[w][j] = Verdict(sigs[w][j])
  BY DEF LazyInv, StatesTrue
<1>12. \A w \in Vectors : \A i \in 1 .. Len(sigs'[w]) :
         states'[w][i] # "Unverified" => states'[w][i] = Verdict(sigs'[w][i])
  <2> SUFFICES ASSUME NEW w \in Vectors, NEW i \in 1 .. Len(sigs'[w]),
                      states'[w][i] # "Unverified"
               PROVE  states'[w][i] = Verdict(sigs'[w][i])
    OBVIOUS
  <2>1. CASE w # v /\ w # other
    BY <1>6, <2>1 DEF LazyInv, StatesTrue
  <2>2. CASE w = other
    <3>1. Len(sigs'[w]) = 0
      BY <1>6, <2>2
    <3> QED BY <3>1
  <2>3. CASE w = v
    <3>1. i \in 1 .. Len(S) /\ Len(T) = Len(S)
      BY <1>1, <1>3, <1>4, <1>6, <2>3
    <3>2. CASE i <= Len(sigs[v])
      <4>1. i \in 1 .. Len(sigs[v])
        BY <1>5, <3>1, <3>2
      <4>2. S[i] = sigs[v][i] /\ T[i] = states[v][i]
        BY <1>1, <1>3, <1>4, <3>1, <3>2
      <4>3. sigs'[w] = S /\ states'[w] = T
        BY <1>6, <2>3
      <4> QED BY <1>13, <4>1, <4>2, <4>3
    <3>3. CASE ~(i <= Len(sigs[v]))
      <4>1. i - Len(sigs[v]) \in 1 .. Len(sigs[other])
        <5>1. i \in 1 .. Len(sigs[v]) + Len(sigs[other])
          BY <1>3, <3>1
        <5>2. Len(sigs[v]) \in Nat /\ Len(sigs[other]) \in Nat
          BY <1>5
        <5>3. \A m, n, k \in Nat : k \in 1 .. m + n /\ ~(k <= m) => k - m \in 1 .. n
          OBVIOUS
        <5>4. i \in Nat
          BY <5>1, <5>2
        <5> QED BY <3>3, <5>1, <5>2, <5>3, <5>4
      <4>2. /\ S[i] = sigs[other][i - Len(sigs[v])]
            /\ T[i] = states[other][i - Len(sigs[v])]
        BY <1>1, <1>3, <1>4, <3>1, <3>3
      <4>3. sigs'[w] = S /\ states'[w] = T
        BY <1>6, <2>3
      <4> QED BY <1>13, <4>1, <4>2, <4>3
    <3> QED BY <3>2, <3>3
  <2> QED BY <2>1, <2>2, <2>3
<1> QED BY <1>2, <1>7, <1>8, <1>9, <1>10, <1>11, <1>12, ExclusiveStep

(* A vector that nobody has borrowed gets new signatures, with a state for *)
(* each that is reset or is its verdict.                                   *)
LEMMA ReplaceStep ==
  ASSUME LazyInv, NEW v \in Vectors, Exclusive(v),
         NEW S \in Seq(Signatures), NEW T \in Seq(StateNames), Len(T) = Len(S),
         \A i \in 1 .. Len(S) : T[i] # "Unverified" => T[i] = Verdict(S[i]),
         sigs' = [sigs EXCEPT ![v] = S], states' = [states EXCEPT ![v] = T],
         UNCHANGED thr, given' \in [Vectors -> SUBSET Signatures]
  PROVE  LazyInv'
<1>1. /\ sigs \in [Vectors -> Seq(Signatures)]
      /\ states \in [Vectors -> Seq(StateNames)]
      /\ \A w \in Vectors : Len(states[w]) = Len(sigs[w])
  BY DEF LazyInv, TypeOK, StateNames
<1>2. ASSUME NEW w \in Vectors
      PROVE  /\ w # v => sigs'[w] = sigs[w] /\ states'[w] = states[w]
             /\ w = v => sigs'[w] = S /\ states'[w] = T
  BY <1>1
<1>3. sigs' \in [Vectors -> Seq(Signatures)] /\ states' \in [Vectors -> Seq(StateNames)]
  BY <1>1
<1>4. \A w \in Vectors : Len(states'[w]) = Len(sigs'[w])
  BY <1>1, <1>2
<1>5. \A w \in Vectors : sigs'[w] = sigs[w] \/ Exclusive(w)
  BY <1>2
<1>6. \A w \in Vectors : \A i \in 1 .. Len(sigs'[w]) :
        states'[w][i] # "Unverified" => states'[w][i] = Verdict(sigs'[w][i])
  <2> SUFFICES ASSUME NEW w \in Vectors, NEW i \in 1 .. Len(sigs'[w]),
                      states'[w][i] # "Unverified"
               PROVE  states'[w][i] = Verdict(sigs'[w][i])
    OBVIOUS
  <2>1. CASE w = v
    BY <1>2, <2>1
  <2>2. CASE w # v
    BY <1>2, <2>2 DEF LazyInv, StatesTrue
  <2> QED BY <2>1, <2>2
<1> QED BY <1>3, <1>4, <1>5, <1>6, ExclusiveStep

LEMMA SortByStep ==
  ASSUME LazyInv, NEW v \in Vectors, NEW rank \in Orders, SortBy(v, rank)
  PROVE  LazyInv'
<1>1. /\ sigs[v] \in Seq(Signatures) /\ Len(sigs[v]) \in Nat
      /\ Len(states[v]) = Len(sigs[v])
      /\ given \in [Vectors -> SUBSET Signatures]
  BY LenProperties DEF LazyInv, TypeOK
<1>2. PICK p \in [1 .. Len(sigs[v]) -> 1 .. Len(sigs[v])] :
        sigs' = [sigs EXCEPT ![v] = [i \in 1 .. Len(sigs[v]) |-> sigs[v][p[i]]]]
  BY DEF SortBy
<1> DEFINE S == [i \in 1 .. Len(sigs[v]) |-> sigs[v][p[i]]]
<1>3. S \in Seq(Signatures) /\ Len(S) = Len(sigs[v])
  <2>1. \A i \in 1 .. Len(sigs[v]) : sigs[v][p[i]] \in Signatures
    BY <1>1, ElementOfSeq
  <2>2. S \in Seq(Signatures)
    BY <1>1, <2>1, IsASeq
  <2>3. DOMAIN S = 1 .. Len(sigs[v])
    OBVIOUS
  <2> HIDE DEF S
  <2> QED BY <1>1, <2>2, <2>3, LenOfDomain
<1> DEFINE T == AllUnverified(Len(sigs[v]))
<1>4. T \in Seq(StateNames) /\ Len(T) = Len(S) /\ \A i \in 1 .. Len(S) : T[i] = "Unverified"
  BY <1>1, <1>3, UnverifiedSeq
<1>5. states' = [states EXCEPT ![v] = T] /\ Exclusive(v) /\ UNCHANGED <<thr, given>>
  BY <1>1 DEF SortBy
<1>6. sigs' = [sigs EXCEPT ![v] = S]
  BY <1>2
<1> HIDE DEF S, T
<1> QED BY <1>1, <1>3, <1>4, <1>5, <1>6, ReplaceStep

LEMMA DedupByStep ==
  ASSUME LazyInv, NEW v \in Vectors, DedupBy(v)
  PROVE  LazyInv'
<1>1. /\ sigs[v] \in Seq(Signatures) /\ Len(sigs[v]) \in Nat
      /\ Len(states[v]) = Len(sigs[v])
      /\ given \in [Vectors -> SUBSET Signatures]
  BY LenProperties DEF LazyInv, TypeOK
<1>2. PICK n \in 0 .. Len(sigs[v]) : \E merged \in [1 .. n -> Signatures] :
        /\ sigs' = [sigs EXCEPT ![v] = merged]
        /\ states' = [states EXCEPT ![v] =
             AllUnverified(IF Len(states[v]) < n THEN Len(states[v]) ELSE n)]
  BY DEF DedupBy
<1>3. PICK S \in [1 .. n -> Signatures] :
        /\ sigs' = [sigs EXCEPT ![v] = S]
        /\ states' = [states EXCEPT ![v] =
             AllUnverified(IF Len(states[v]) < n THEN Len(states[v]) ELSE n)]
  BY <1>2
<1> DEFINE T == AllUnverified(n)
<1>4. S \in Seq(Signatures) /\ Len(S) = n
  <2>1. n \in Nat
    BY <1>1
  <2>2. S \in Seq(Signatures)
    BY <2>1, SeqDef
  <2> QED BY <2>1, <2>2, LenOfDomain
<1>5. T \in Seq(StateNames) /\ Len(T) = Len(S) /\ \A i \in 1 .. Len(S) : T[i] = "Unverified"
  BY <1>1, <1>4, UnverifiedSeq
<1>6. states' = [states EXCEPT ![v] = T]
  <2>1. (IF Len(states[v]) < n THEN Len(states[v]) ELSE n) = n
    BY <1>1
  <2> QED BY <1>3, <2>1
<1>7. sigs' = [sigs EXCEPT ![v] = S] /\ Exclusive(v) /\ UNCHANGED <<thr, given>>
  BY <1>3 DEF DedupBy
<1> HIDE DEF T
<1> QED BY <1>1, <1>4, <1>5, <1>6, <1>7, ReplaceStep

LEMMA CloneFromStep ==
  ASSUME LazyInv, NEW v \in Vectors, NEW other \in Vectors, CloneFrom(v, other)
  PROVE  LazyInv'
<1>1. /\ sigs[v] \in Seq(Signatures) /\ Len(sigs[v]) \in Nat
      /\ states[v] \in Seq(StateNames)
      /\ Len(states[v]) = Len(sigs[v])
      /\ given \in [Vectors -> SUBSET Signatures]
  BY LenProperties DEF LazyInv, TypeOK, StateNames
<1>2. /\ Exclusive(other) /\ UNCHANGED thr
      /\ sigs' = [sigs EXCEPT ![other] = sigs[v]]
      /\ given' = [given EXCEPT ![other] = given[v]]
  BY DEF CloneFrom
<1>3. given' \in [Vectors -> SUBSET Signatures]
  BY <1>1, <1>2
<1>4. CASE states' = [states EXCEPT ![other] = states[v]]
  <2>1. \A i \in 1 .. Len(sigs[v]) :
          states[v][i] # "Unverified" => states[v][i] = Verdict(sigs[v][i])
    BY DEF LazyInv, StatesTrue
  <2> QED BY <1>1, <1>2, <1>3, <1>4, <2>1, ReplaceStep
<1>5. CASE states' = [states EXCEPT ![other] = AllUnverified(Len(sigs[v]))]
  <2>1. /\ AllUnverified(Len(sigs[v])) \in Seq(StateNames)
        /\ Len(AllUnverified(Len(sigs[v]))) = Len(sigs[v])
        /\ \A i \in 1 .. Len(sigs[v]) : AllUnverified(Len(sigs[v]))[i] = "Unverified"
    BY <1>1, UnverifiedSeq
  <2> QED BY <1>1, <1>2, <1>3, <1>5, <2>1, ReplaceStep
<1> QED BY <1>4, <1>5 DEF CloneFrom

-----------------------------------------------------------------------------
(* The steps of a thread. *)

ThreadRecord ==
  [call : {"idle", "verify_sig", "iter_verified", "iter_bad", "error", "panic"},
   vec : {{}} \cup {{v} : v \in Vectors}, i : Nat,
   pc : {"look", "verify"}, got : Seq(Signatures)]

(* What the record of one thread has to satisfy. *)
RecordOK(c) ==
  /\ c \in ThreadRecord
  /\ c.call \in {"verify_sig", "iter_verified", "iter_bad"} <=> c.vec # {}
  /\ c.pc = "verify" => c.vec # {}
  /\ \A v \in Vectors : c.vec = {v} /\ c.pc = "verify" => c.i < Len(sigs[v])
  /\ \A k \in 1 .. Len(c.got) : /\ c.call = "iter_verified" => Verify(c.got[k])
                                /\ c.call = "iter_bad" => ~Verify(c.got[k])

LEMMA RecordOfInv ==
  ASSUME LazyInv, NEW t \in Threads
  PROVE  RecordOK(thr[t])
BY DEF LazyInv, TypeOK, ThreadInv, GotInv, Busy, RecordOK, ThreadRecord

LEMMA IdleOK == LazyInv => RecordOK(Idle)
<1> SUFFICES ASSUME LazyInv PROVE RecordOK(Idle)
  OBVIOUS
<1>1. Idle \in ThreadRecord
  BY EmptySeq DEF Idle, ThreadRecord
<1>2. Len(Idle.got) = 0 /\ Idle.vec = {} /\ Idle.pc = "look" /\ Idle.call = "idle"
  BY EmptySeq DEF Idle
<1> QED BY <1>1, <1>2 DEF RecordOK

(* One thread moves to a record that is allowed; the signatures stay. *)
LEMMA ThreadStep ==
  ASSUME LazyInv, NEW t \in Threads, NEW c, RecordOK(c),
         thr' = [thr EXCEPT ![t] = c], UNCHANGED <<sigs, given>>,
         states' \in [Vectors -> Seq(StateNames)],
         \A v \in Vectors : Len(states'[v]) = Len(sigs[v]),
         StatesTrue'
  PROVE  LazyInv'
<1>1. ASSUME NEW u \in Threads
      PROVE  RecordOK(thr'[u])
  <2>1. thr'[u] = IF u = t THEN c ELSE thr[u]
    BY DEF LazyInv, TypeOK
  <2> QED BY <2>1, RecordOfInv
<1>2. thr' \in [Threads -> ThreadRecord]
  <2>1. \A u \in Threads : thr'[u] \in ThreadRecord
    BY <1>1 DEF RecordOK
  <2>2. thr' = [u \in Threads |-> thr'[u]]
    BY DEF LazyInv, TypeOK
  <2> QED BY <2>1, <2>2
<1>3. TypeOK'
  BY <1>2 DEF LazyInv, TypeOK, ThreadRecord, StateNames
<1>4. ThreadInv'
  BY <1>1 DEF ThreadInv, Busy, RecordOK
<1>5. GotInv'
  BY <1>1 DEF GotInv, RecordOK
<1> QED BY <1>3, <1>4, <1>5 DEF LazyInv

LEMMA AdvanceRecord ==
  ASSUME NEW c \in ThreadRecord, NEW g \in Seq(Signatures)
  PROVE  LET d == [c EXCEPT !.i = c.i + 1, !.pc = "look", !.got = g]
         IN  /\ d \in ThreadRecord /\ d.vec = c.vec /\ d.call = c.call
             /\ d.pc = "look" /\ d.got = g
<1> DEFINE d == [c EXCEPT !.i = c.i + 1, !.pc = "look", !.got = g]
           Calls == {"idle", "verify_sig", "iter_verified", "iter_bad", "error", "panic"}
           Vecs == {{}} \cup {{v} : v \in Vectors}
           Pcs == {"look", "verify"}
<1>1. c \in [call : Calls, vec : Vecs, i : Nat, pc : Pcs, got : Seq(Signatures)]
  BY DEF ThreadRecord
<1>2. "look" \in Pcs
  OBVIOUS
<1> HIDE DEF Calls, Vecs, Pcs
<1>2a. c.i \in Nat
  BY <1>1
<1>2b. c.i + 1 \in Nat
  BY <1>2a
<1>3. ASSUME NEW n \in Nat, NEW p \in Pcs
      PROVE  LET e == [c EXCEPT !.i = n, !.pc = p, !.got = g]
             IN  /\ e \in [call : Calls, vec : Vecs, i : Nat, pc : Pcs,
                            got : Seq(Signatures)]
                 /\ e.call = c.call /\ e.vec = c.vec /\ e.pc = p /\ e.got = g
  BY <1>1
<1>4. /\ d \in [call : Calls, vec : Vecs, i : Nat, pc : Pcs, got : Seq(Signatures)]
      /\ d.call = c.call /\ d.vec = c.vec /\ d.pc = "look" /\ d.got = g
  BY <1>2, <1>2b, <1>3
<1>5. d \in ThreadRecord
  BY <1>4 DEF Calls, Vecs, Pcs, ThreadRecord
<1> QED BY <1>4, <1>5

(* A thread that has its answer goes on to a record that is allowed. *)
LEMMA AnsweredOK ==
  ASSUME LazyInv, NEW t \in Threads, Busy(t),
         thr[t].i < Len(sigs[VectorOf(t)]),
         NEW state, state = Verdict(sigs[VectorOf(t)][thr[t].i + 1])
  PROVE  RecordOK(Answered(t, state))
<1> DEFINE c == thr[t]
           v == VectorOf(t)
           s == sigs[v][c.i + 1]
<1>1. /\ c \in ThreadRecord /\ v \in Vectors /\ c.vec = {v}
      /\ RecordOK(c)
  BY VectorOfBusy, RecordOfInv DEF LazyInv, RecordOK
<1>2. CASE c.call = "verify_sig"
  BY <1>2, IdleOK DEF Answered
<1>3. CASE c.call # "verify_sig"
  <2> DEFINE wanted == \/ c.call = "iter_verified" /\ state = "Good"
                       \/ c.call = "iter_bad" /\ state = "Bad"
             got == IF wanted THEN Append(c.got, s) ELSE c.got
             d == [c EXCEPT !.i = @ + 1, !.pc = "look", !.got = got]
  <2>1. Answered(t, state) = d
    BY <1>3 DEF Answered
  <2>2. s \in Signatures
    <3>1. sigs[v] \in Seq(Signatures) /\ Len(sigs[v]) \in Nat
      BY <1>1, LenProperties DEF LazyInv, TypeOK
    <3>2. c.i + 1 \in 1 .. Len(sigs[v])
      <4>1. c.i \in Nat /\ c.i < Len(sigs[v])
        BY <1>1 DEF ThreadRecord
      <4> QED BY <3>1, <4>1
    <3> QED BY <3>1, <3>2, ElementOfSeq
  <2>3. c.got \in Seq(Signatures) /\ c.i \in Nat
    BY <1>1 DEF ThreadRecord
  <2>4. got \in Seq(Signatures)
    BY <2>2, <2>3, AppendProperties
  <2>5. d \in ThreadRecord /\ d.vec = c.vec /\ d.call = c.call /\ d.pc = "look" /\ d.got = got
    <3> HIDE DEF got
    <3>1. d = [c EXCEPT !.i = c.i + 1, !.pc = "look", !.got = got]
      OBVIOUS
    <3> HIDE DEF c, d
    <3> QED BY <1>1, <2>3, <2>4, <3>1, AdvanceRecord
  <2>6. ASSUME NEW k \in 1 .. Len(got)
        PROVE  /\ c.call = "iter_verified" => Verify(got[k])
               /\ c.call = "iter_bad" => ~Verify(got[k])
    <3>1. CASE ~wanted
      BY <1>1, <3>1 DEF RecordOK
    <3>2. CASE wanted
      <4>1. /\ Len(got) = Len(c.got) + 1 /\ Len(c.got) \in Nat
            /\ \A j \in 1 .. Len(c.got) : got[j] = c.got[j]
            /\ got[Len(c.got) + 1] = s
        BY <2>2, <2>3, <3>2, AppendProperties, LenProperties
      <4>2. (state = "Good" <=> Verify(s)) /\ (state = "Bad" <=> ~Verify(s))
        BY DEF Verdict
      <4>3. CASE k \in 1 .. Len(c.got)
        BY <1>1, <4>1, <4>3 DEF RecordOK
      <4>4. CASE k = Len(c.got) + 1
        BY <3>2, <4>1, <4>2, <4>4
      <4>5. k \in 1 .. Len(c.got) \/ k = Len(c.got) + 1
        <5> HIDE DEF got
        <5> QED BY <4>1
      <4> QED BY <4>3, <4>4, <4>5
    <3> QED BY <3>1, <3>2
  <2> HIDE DEF d, got
  <2>7. RecordOK(d)
    BY <1>1, <2>5, <2>6 DEF RecordOK
  <2> QED BY <2>1, <2>7
<1> QED BY <1>2, <1>3

(* The states are left alone. *)
LEMMA StatesStay ==
  ASSUME LazyInv, UNCHANGED <<sigs, states>>
  PROVE  /\ states' \in [Vectors -> Seq(StateNames)]
         /\ \A v \in Vectors : Len(states'[v]) = Len(sigs[v])
         /\ StatesTrue'
BY DEF LazyInv, TypeOK, StateNames, StatesTrue

LEMMA CallStep ==
  ASSUME LazyInv, NEW t \in Threads, NEW v \in Vectors, NEW i \in 0 .. 2 ^ Width - 1,
         NEW call \in {"verify_sig", "iter_verified", "iter_bad"}, Call(t, v, call, i)
  PROVE  LazyInv'
<1> DEFINE c == [call |-> call, vec |-> {v}, i |-> i, pc |-> "look", got |-> <<>>]
<1>1. c \in ThreadRecord
  <2>1. i \in Nat
    BY SetAssumption
  <2> QED BY <2>1, EmptySeq DEF ThreadRecord
<1>2. Len(c.got) = 0
  BY EmptySeq
<1>3. RecordOK(c)
  BY <1>1, <1>2 DEF RecordOK
<1>4. thr' = [thr EXCEPT ![t] = c] /\ UNCHANGED <<sigs, states, given>>
  BY DEF Call
<1> HIDE DEF c
<1> QED BY <1>3, <1>4, StatesStay, ThreadStep

LEMMA LookStep ==
  ASSUME LazyInv, NEW t \in Threads, Look(t)
  PROVE  LazyInv'
<1> DEFINE c == thr[t]
           v == VectorOf(t)
           state == states[v][c.i + 1]
<1>1. Busy(t) /\ c.pc = "look" /\ c.i < Len(sigs[v]) /\ UNCHANGED <<sigs, states, given>>
  BY DEF Look, Busy
<1>2. v \in Vectors /\ c.vec = {v} /\ RecordOK(c)
  BY <1>1, VectorOfBusy, RecordOfInv DEF LazyInv
<1>3. CASE state = "Unverified"
  <2> DEFINE d == [c EXCEPT !.pc = "verify"]
  <2>1. thr' = [thr EXCEPT ![t] = d]
    BY <1>3 DEF Look
  <2>2. c \in ThreadRecord
    BY <1>2 DEF RecordOK
  <2>3. /\ d \in ThreadRecord /\ d.vec = c.vec /\ d.call = c.call
        /\ d.i = c.i /\ d.got = c.got
    BY <2>2 DEF ThreadRecord
  <2> HIDE DEF d
  <2>4. \A w \in Vectors : d.vec = {w} => d.i < Len(sigs[w])
    BY <1>1, <1>2, <2>3
  <2>5. RecordOK(d)
    BY <1>2, <2>3, <2>4 DEF RecordOK
  <2> QED BY <1>1, <2>1, <2>5, StatesStay, ThreadStep
<1>4. CASE state # "Unverified"
  <2>1. thr' = [thr EXCEPT ![t] = Answered(t, state)]
    BY <1>4 DEF Look
  <2>2. c.i + 1 \in 1 .. Len(sigs[v])
    <3>1. c.i \in Nat /\ Len(sigs[v]) \in Nat
      BY <1>2, LenProperties DEF RecordOK, ThreadRecord, LazyInv, TypeOK
    <3> QED BY <1>1, <3>1
  <2>3. state = Verdict(sigs[v][c.i + 1])
    BY <1>2, <1>4, <2>2 DEF LazyInv, StatesTrue
  <2>4. RecordOK(Answered(t, state))
    BY <1>1, <2>3, AnsweredOK
  <2> QED BY <1>1, <2>1, <2>4, StatesStay, ThreadStep
<1> QED BY <1>3, <1>4

LEMMA RememberStep ==
  ASSUME LazyInv, NEW t \in Threads, Remember(t)
  PROVE  LazyInv'
<1> DEFINE c == thr[t]
           v == VectorOf(t)
           s == sigs[v][c.i + 1]
<1>1. c.pc = "verify" /\ UNCHANGED <<sigs, given>>
  BY DEF Remember
<1>2. Busy(t)
  BY <1>1 DEF LazyInv, ThreadInv
<1>3. v \in Vectors /\ c.vec = {v} /\ RecordOK(c)
  BY <1>2, VectorOfBusy, RecordOfInv DEF LazyInv
<1>4. c.i < Len(sigs[v]) /\ c.i \in Nat
  BY <1>1, <1>3 DEF RecordOK, ThreadRecord
<1>5. RecordOK(Answered(t, Verdict(s)))
  BY <1>2, <1>4, AnsweredOK
<1>6. thr' = [thr EXCEPT ![t] = Answered(t, Verdict(s))]
  BY DEF Remember
<1>7. /\ states \in [Vectors -> Seq(StateNames)]
      /\ \A w \in Vectors : Len(states[w]) = Len(sigs[w])
      /\ Len(sigs[v]) \in Nat
  BY <1>3, LenProperties DEF LazyInv, TypeOK, StateNames
<1>8. c.i + 1 \in 1 .. Len(states[v])
  BY <1>3, <1>4, <1>7
<1> DEFINE T == [states[v] EXCEPT ![c.i + 1] = Verdict(s)]
<1>9. states' = [states EXCEPT ![v] = T]
  BY DEF Remember
<1>10. /\ T \in Seq(StateNames) /\ Len(T) = Len(states[v])
       /\ \A j \in 1 .. Len(states[v]) :
            T[j] = IF j = c.i + 1 THEN Verdict(s) ELSE states[v][j]
  BY <1>3, <1>7, <1>8, ExceptSeq, VerdictIsState DEF StateNames
<1> HIDE DEF T
<1>11. ASSUME NEW w \in Vectors
       PROVE  states'[w] = IF w = v THEN T ELSE states[w]
  BY <1>7, <1>9
<1>12. states' \in [Vectors -> Seq(StateNames)]
  BY <1>7, <1>9, <1>10
<1>13. \A w \in Vectors : Len(states'[w]) = Len(sigs[w])
  BY <1>3, <1>7, <1>10, <1>11
<1>14. StatesTrue'
  <2> SUFFICES ASSUME NEW w \in Vectors, NEW j \in 1 .. Len(sigs'[w]),
                      states'[w][j] # "Unverified"
               PROVE  states'[w][j] = Verdict(sigs'[w][j])
    BY DEF StatesTrue
  <2>1. j \in 1 .. Len(sigs[w]) /\ sigs'[w] = sigs[w]
    BY <1>1
  <2>2. CASE w = v /\ j = c.i + 1
    BY <1>7, <1>10, <1>11, <2>1, <2>2
  <2>3. CASE w = v /\ j # c.i + 1
    <3>1. states'[w][j] = states[w][j]
      BY <1>7, <1>10, <1>11, <2>1, <2>3
    <3> QED BY <2>1, <3>1 DEF LazyInv, StatesTrue
  <2>4. CASE w # v
    BY <1>11, <2>1, <2>4 DEF LazyInv, StatesTrue
  <2> QED BY <2>2, <2>3, <2>4
<1> QED BY <1>1, <1>5, <1>6, <1>12, <1>13, <1>14, ThreadStep

LEMMA EndStep ==
  ASSUME LazyInv, NEW t \in Threads, IterEnd(t) \/ LookOutside(t)
  PROVE  LazyInv'
<1>1. CASE IterEnd(t)
  <2>1. thr' = [thr EXCEPT ![t] = Idle] /\ UNCHANGED <<sigs, states, given>>
    BY <1>1 DEF IterEnd
  <2> QED BY <2>1, IdleOK, StatesStay, ThreadStep
<1>2. CASE LookOutside(t)
  <2>1. PICK call \in {"error", "panic"} :
          thr' = [thr EXCEPT ![t] = [Idle EXCEPT !.call = call]]
    BY <1>2 DEF LookOutside
  <2> DEFINE d == [Idle EXCEPT !.call = call]
  <2>2. d \in ThreadRecord /\ d.vec = {} /\ d.pc = "look" /\ d.call = call /\ Len(d.got) = 0
    BY EmptySeq DEF Idle, ThreadRecord
  <2>3. UNCHANGED <<sigs, states, given>>
    BY <1>2 DEF LookOutside
  <2>4. thr' = [thr EXCEPT ![t] = d]
    BY <2>1
  <2> HIDE DEF d
  <2>5. RecordOK(d)
    BY <2>2 DEF RecordOK
  <2> QED BY <2>3, <2>4, <2>5, StatesStay, ThreadStep
<1> QED BY <1>1, <1>2

-----------------------------------------------------------------------------
LEMMA LazyInit == Init => LazyInv
<1> SUFFICES ASSUME Init PROVE LazyInv
  OBVIOUS
<1>1. \A v \in Vectors : sigs[v] = <<>> /\ states[v] = <<>>
  BY DEF Init
<1>2. Idle \in ThreadRecord /\ Len(Idle.got) = 0 /\ Idle.vec = {}
      /\ Idle.pc = "look" /\ Idle.call = "idle"
  BY EmptySeq DEF Idle, ThreadRecord
<1>3. thr = [t \in Threads |-> Idle]
  BY DEF Init
<1>4. thr \in [Threads -> ThreadRecord] /\ \A t \in Threads : thr[t] = Idle
  BY <1>2, <1>3
<1>5. TypeOK
  BY <1>1, <1>4, EmptySeq DEF Init, TypeOK, ThreadRecord
<1>6. ThreadInv /\ GotInv
  BY <1>2, <1>4 DEF ThreadInv, GotInv, Busy
<1>7. StatesTrue
  BY <1>1, EmptySeq DEF StatesTrue
<1> QED BY <1>5, <1>6, <1>7 DEF LazyInv

LEMMA OfferedAreSignatures == \A s \in Offered : s \in Signatures
BY SetAssumption

LEMMA LazyNext == LazyInv /\ [Next]_vars => LazyInv'
<1> SUFFICES ASSUME LazyInv, [Next]_vars PROVE LazyInv'
  OBVIOUS
<1>1. CASE Mutate
  BY <1>1, PushStep, TakeAllStep, AppendAllStep, CloneFromStep, SortByStep, DedupByStep,
     OfferedAreSignatures DEF Mutate
<1>2. CASE \E t \in Threads, v \in Vectors, i \in 0 .. 2 ^ Width - 1,
             call \in {"verify_sig", "iter_verified", "iter_bad"} : Call(t, v, call, i)
  BY <1>2, CallStep
<1>3. CASE \E t \in Threads : Step(t)
  BY <1>3, LookStep, RememberStep, EndStep DEF Step
<1>4. CASE UNCHANGED vars
  BY <1>4 DEF vars, LazyInv, TypeOK, ThreadInv, StatesTrue, GotInv, Busy
<1> QED BY <1>1, <1>2, <1>3, <1>4 DEF Next

(* A state that is remembered is the verdict on the signature it is next   *)
(* to, for any number of vectors, threads and signatures.                  *)
THEOREM LazySound == Spec => [](TypeOK /\ StatesTrue)
<1>1. LazyInv => TypeOK /\ StatesTrue
  BY DEF LazyInv
<1> QED BY <1>1, LazyInit, LazyNext, PTL DEF Spec

(* There is a state next to every signature, whatever is added, moved,     *)
(* merged, cloned or remembered late.                                      *)
THEOREM StatesBeside == Spec => []TypeOK
<1>1. LazyInv => TypeOK
  BY DEF LazyInv
<1> QED BY <1>1, LazyInit, LazyNext, PTL DEF Spec

(* iter_verified() only gives out signatures that verify, and iter_bad()   *)
(* only those that do not.                                                 *)
THEOREM OnlyVerifiedGivenOut == Spec => []GotInv
<1>1. LazyInv => GotInv
  BY DEF LazyInv
<1> QED BY <1>1, LazyInit, LazyNext, PTL DEF Spec

-----------------------------------------------------------------------------
(* No signature is lost. *)

(* A vector S has something for every signature of F, with what it embeds  *)
(* if what all of G embed in its equals fits into one area.                *)
Has(S, F, G) ==
  \A s \in F : \E i \in 1 .. Len(S) :
    /\ S[i].h = s.h
    /\ Embedded(G, s.h) \in Fitting => s.emb \subseteq S[i].emb

(* Its signatures embed only what their equals in G embed: a merge does    *)
(* not get more than fits if all that was put into the vector fits.        *)
Within(S, G) == \A i \in 1 .. Len(S) : S[i].emb \subseteq Embedded(G, S[i].h)

Holds(S, G) == Has(S, G, G) /\ Within(S, G)

(* The invariant: each vector is that for what was put into it. *)
Kept == \A v \in Vectors : Holds(sigs[v], given[v])

LEMMA KeptLosesNothing == Kept => NothingLost
BY DEF Kept, Holds, Has, NothingLost

LEMMA EmbeddedGrows ==
  ASSUME NEW G, NEW H, G \subseteq H, NEW h
  PROVE  /\ Embedded(G, h) \subseteq Embedded(H, h)
         /\ Embedded(H, h) \in Fitting => Embedded(G, h) \in Fitting
<1>1. Embedded(G, h) \subseteq Embedded(H, h)
  BY DEF Embedded
<1> QED BY <1>1, SetAssumption

(* Something in S is kept in T if every element of S has one in T that has *)
(* the same hashed part and embeds as much.                                *)
LEMMA HasMore ==
  ASSUME NEW S, NEW T, NEW F, NEW G, NEW H, G \subseteq H, Has(S, F, G),
         \A i \in 1 .. Len(S) : \E j \in 1 .. Len(T) :
           T[j].h = S[i].h /\ S[i].emb \subseteq T[j].emb
  PROVE  Has(T, F, H)
<1> SUFFICES ASSUME NEW s \in F
             PROVE  \E j \in 1 .. Len(T) :
                      /\ T[j].h = s.h
                      /\ Embedded(H, s.h) \in Fitting => s.emb \subseteq T[j].emb
  BY DEF Has
<1>1. PICK i \in 1 .. Len(S) :
        S[i].h = s.h /\ (Embedded(G, s.h) \in Fitting => s.emb \subseteq S[i].emb)
  BY DEF Has
<1>2. PICK j \in 1 .. Len(T) : T[j].h = S[i].h /\ S[i].emb \subseteq T[j].emb
  OBVIOUS
<1>3. Embedded(H, s.h) \in Fitting => Embedded(G, s.h) \in Fitting
  BY EmbeddedGrows
<1> QED BY <1>1, <1>2, <1>3

(* If nothing but elements of S is in T, it stays within what was given. *)
LEMMA WithinLess ==
  ASSUME NEW S, NEW T, NEW G, NEW H, G \subseteq H, Within(S, G),
         \A j \in 1 .. Len(T) : \E i \in 1 .. Len(S) : T[j] = S[i]
  PROVE  Within(T, H)
<1> SUFFICES ASSUME NEW j \in 1 .. Len(T)
             PROVE  T[j].emb \subseteq Embedded(H, T[j].h)
  BY DEF Within
<1>1. PICK i \in 1 .. Len(S) : T[j] = S[i]
  OBVIOUS
<1>2. S[i].emb \subseteq Embedded(G, S[i].h)
  BY DEF Within
<1>3. Embedded(G, S[i].h) \subseteq Embedded(H, S[i].h)
  BY EmbeddedGrows
<1> QED BY <1>1, <1>2, <1>3

(* A stable sort moves every element somewhere. *)
LEMMA SortIsOnto ==
  ASSUME NEW s, Len(s) \in Nat, NEW rank,
         \A i \in 1 .. Len(s) : rank[s[i].h] \in Nat,
         NEW p \in [1 .. Len(s) -> 1 .. Len(s)], Sorts(p, s, rank)
  PROVE  \A i \in 1 .. Len(s) : \E j \in 1 .. Len(s) : p[j] = i
<1> DEFINE D == 1 .. Len(s)
<1>1. ASSUME NEW i \in D, NEW j \in D, i < j
      PROVE  p[i] # p[j]
  <2>1. p[i] \in D /\ p[j] \in D
    OBVIOUS
  <2>2. rank[s[p[i]].h] \in Nat /\ p[i] \in Nat
    BY <2>1
  <2>3. \/ rank[s[p[i]].h] < rank[s[p[j]].h]
        \/ rank[s[p[i]].h] = rank[s[p[j]].h] /\ p[i] < p[j]
    BY <1>1 DEF Sorts
  <2> QED BY <2>2, <2>3
<1>2. ASSUME NEW i \in D, NEW j \in D, p[i] = p[j]
      PROVE  i = j
  <2>1. i < j \/ j < i \/ i = j
    OBVIOUS
  <2> QED BY <1>1, <1>2, <2>1
<1>3. p \in Injection(D, D)
  BY <1>2 DEF Injection, IsInjective
<1>4. IsFiniteSet(D)
  BY FS_Interval
<1>5. p \in Surjection(D, D)
  BY <1>3, <1>4, FS_Injection
<1> QED BY <1>5 DEF Surjection

LEMMA LeastOf ==
  ASSUME NEW B, B \subseteq Nat, B # {}
  PROVE  \E k \in B : \A y \in B : ~(y < k)
<1> DEFINE R == OpToRel(<, Nat)
<1>1. \A m, n \in Nat : <<m, n>> \in R <=> m < n
  BY DEF OpToRel
<1>2. IsWellFoundedOn(R, Nat)
  BY NatLessThanWellFounded
<1> HIDE DEF R
<1>3. PICK x : x \in B
  OBVIOUS
<1>4. PICK k \in B : \A y \in B : ~(<<y, k>> \in R)
  BY <1>2, <1>3, WFMin
<1> QED BY <1>1, <1>4

(* Every element is in a run of equals that begins somewhere. *)
LEMMA RunOfElement ==
  ASSUME NEW s, Len(s) \in Nat, NEW i \in 1 .. Len(s)
  PROVE  \E k \in RunStarts(s) : i \in Run(s, k)
<1> DEFINE Same == {k \in 1 .. i : \A j \in k .. i : s[j].h = s[i].h}
<1>1. i \in Same
  OBVIOUS
<1>2. Same \subseteq Nat
  OBVIOUS
<1>5. PICK k \in Same : \A y \in Same : ~(y < k)
  <2> HIDE DEF Same
  <2> QED BY <1>1, <1>2, LeastOf
<1>6. k \in 1 .. Len(s) /\ k <= i /\ \A j \in k .. i : s[j].h = s[i].h
  OBVIOUS
<1>7. s[k].h = s[i].h
  BY <1>6
<1>8. k = 1 \/ s[k].h # s[k - 1].h
  <2> SUFFICES ASSUME k # 1, s[k].h = s[k - 1].h PROVE FALSE
    OBVIOUS
  <2>1. k - 1 \in 1 .. i
    BY <1>6
  <2>2. \A j \in k - 1 .. i : j = k - 1 \/ j \in k .. i
    BY <1>6
  <2>3. k - 1 \in Same
    BY <1>6, <1>7, <2>1, <2>2
  <2>4. k - 1 < k
    BY <1>6
  <2> HIDE DEF Same
  <2> QED BY <1>5, <2>3, <2>4
<1>9. k \in RunStarts(s)
  BY <1>6, <1>8 DEF RunStarts
<1>10. i \in Run(s, k)
  BY <1>6, <1>7 DEF Run
<1> QED BY <1>9, <1>10

(* A run has no holes. *)
LEMMA RunBefore ==
  ASSUME NEW s, Len(s) \in Nat, NEW i \in 1 .. Len(s), NEW j \in Run(s, i)
  PROVE  /\ j \in i .. Len(s) /\ s[j].h = s[i].h
         /\ \A k \in i .. j : k \in Run(s, i)
<1>1. j \in i .. Len(s) /\ \A k \in i .. j : s[k].h = s[i].h
  BY DEF Run
<1>2. j \in i .. j
  BY <1>1
<1>3. \A k \in i .. j : k \in i .. Len(s) /\ \A l \in i .. k : l \in i .. j
  BY <1>1
<1> QED BY <1>1, <1>2, <1>3 DEF Run

(* The signatures that a run is merged through embed nothing that is not   *)
(* in one of the run.                                                      *)
LEMMA MergedWithin ==
  ASSUME NEW s, Len(s) \in Nat, NEW i \in 1 .. Len(s), NEW U,
         \A j \in Run(s, i) : s[j].emb \subseteq U,
         NEW acc \in [Run(s, i) -> Fitting], acc[i] = s[i].emb,
         \A j \in Run(s, i) : j # i => Collected(acc[j], acc[j - 1] \cup s[j].emb)
  PROVE  \A j \in Run(s, i) : acc[j] \subseteq U
<1> DEFINE B == {j \in Run(s, i) : ~(acc[j] \subseteq U)}
<1>1. SUFFICES ASSUME B # {} PROVE FALSE
  OBVIOUS
<1>2. B \subseteq Nat
  BY RunBefore
<1>3. PICK k \in B : \A y \in B : ~(y < k)
  <2> HIDE DEF B
  <2> QED BY <1>1, <1>2, LeastOf
<1>4. k \in Run(s, i) /\ ~(acc[k] \subseteq U)
  OBVIOUS
<1>5. k \in i .. Len(s) /\ \A l \in i .. k : l \in Run(s, i)
  BY <1>4, RunBefore
<1>6. k # i
  BY <1>4
<1>7. k - 1 \in i .. k /\ k - 1 < k
  BY <1>5, <1>6
<1>8. acc[k - 1] \subseteq U
  BY <1>3, <1>5, <1>7
<1>9. acc[k] \subseteq acc[k - 1] \cup s[k].emb
  BY <1>4, <1>6 DEF Collected
<1> QED BY <1>4, <1>8, <1>9

(* If all that is embedded in a run fits into one area, merging it loses   *)
(* nothing.                                                                *)
LEMMA MergedKeeps ==
  ASSUME NEW s, Len(s) \in Nat, NEW i \in 1 .. Len(s), NEW U \in Fitting,
         \A j \in Run(s, i) : s[j].emb \subseteq U,
         NEW acc \in [Run(s, i) -> Fitting], acc[i] = s[i].emb,
         \A j \in Run(s, i) : j # i => Collected(acc[j], acc[j - 1] \cup s[j].emb)
  PROVE  \A j \in Run(s, i) : \A m \in i .. j : s[m].emb \subseteq acc[j]
<1> DEFINE B == {j \in Run(s, i) : \E m \in i .. j : ~(s[m].emb \subseteq acc[j])}
<1>1. SUFFICES ASSUME B # {} PROVE FALSE
  OBVIOUS
<1>2. B \subseteq Nat
  BY RunBefore
<1>3. PICK k \in B : \A y \in B : ~(y < k)
  <2> HIDE DEF B
  <2> QED BY <1>1, <1>2, LeastOf
<1>4. k \in Run(s, i)
  OBVIOUS
<1>4a. PICK m \in i .. k : ~(s[m].emb \subseteq acc[k])
  OBVIOUS
<1>5. k \in i .. Len(s) /\ \A l \in i .. k : l \in Run(s, i)
  BY <1>4, RunBefore
<1>6. k # i
  <2> SUFFICES ASSUME k = i PROVE FALSE
    OBVIOUS
  <2>1. m = i
    BY <1>5
  <2> QED BY <1>4a, <2>1
<1>7. k - 1 \in i .. k /\ k - 1 < k /\ (m \in i .. k - 1 \/ m = k)
  BY <1>4a, <1>5, <1>6
<1>8. \A l \in i .. k - 1 : s[l].emb \subseteq acc[k - 1]
  BY <1>3, <1>5, <1>7
<1> DEFINE both == acc[k - 1] \cup s[k].emb
<1>9. Collected(acc[k], both)
  BY <1>4, <1>6
<1>10. both \subseteq U
  <2>1. acc[k - 1] \subseteq U
    BY <1>5, <1>7, MergedWithin
  <2> QED BY <1>4, <2>1
<1> HIDE DEF both
<1>11. \A b \in both \ acc[k] : acc[k] \cup {b} \in Fitting
  <2>1. acc[k] \subseteq U
    BY <1>9, <1>10 DEF Collected
  <2>2. SUBSET U \subseteq Fitting
    BY SetAssumption
  <2> QED BY <1>10, <2>1, <2>2
<1>12. both \subseteq acc[k]
  BY <1>9, <1>11 DEF Collected
<1> USE DEF both
<1>13. s[m].emb \subseteq both
  BY <1>7, <1>8
<1> QED BY <1>4a, <1>12, <1>13

(* What Merged() makes of a run. *)
LEMMA MergedRun ==
  ASSUME NEW s, Len(s) \in Nat, NEW i \in 1 .. Len(s), NEW U,
         \A j \in Run(s, i) : s[j].emb \subseteq U,
         NEW sig, Merged(s, i, sig)
  PROVE  /\ sig.h = s[i].h /\ sig.emb \subseteq U
         /\ U \in Fitting => \A m \in Run(s, i) : s[m].emb \subseteq sig.emb
<1>1. PICK acc \in [Run(s, i) -> Fitting] :
        /\ acc[i] = s[i].emb
        /\ \A j \in Run(s, i) : j # i => Collected(acc[j], acc[j - 1] \cup s[j].emb)
        /\ \E j \in Run(s, i) : j + 1 \notin Run(s, i) /\ sig.emb = acc[j]
  BY DEF Merged
<1>2. PICK j \in Run(s, i) : j + 1 \notin Run(s, i) /\ sig.emb = acc[j]
  BY <1>1
<1>3. sig.emb \subseteq U
  BY <1>1, <1>2, MergedWithin
<1>4. ASSUME U \in Fitting, NEW m \in Run(s, i)
      PROVE  s[m].emb \subseteq sig.emb
  <2>1. j \in i .. Len(s) /\ m \in i .. Len(s) /\ \A k \in i .. m : k \in Run(s, i)
    BY RunBefore
  <2>2. ~(j + 1 \in i .. m)
    BY <1>2, <2>1
  <2>3. m \in i .. j
    BY <2>1, <2>2
  <2>4. \A l \in Run(s, i) : \A k \in i .. l : s[k].emb \subseteq acc[l]
    BY <1>1, <1>4, MergedKeeps
  <2> QED BY <1>2, <2>3, <2>4
<1>5. sig.h = s[i].h
  BY DEF Merged
<1> QED BY <1>3, <1>4, <1>5

LEMMA SortLosesNothing ==
  ASSUME LazyInv, Kept, NEW v \in Vectors, NEW rank \in Orders, SortBy(v, rank)
  PROVE  Kept'
<1>1. /\ sigs \in [Vectors -> Seq(Signatures)]
      /\ sigs[v] \in Seq(Signatures) /\ Len(sigs[v]) \in Nat
  BY LenProperties DEF LazyInv, TypeOK
<1>2. PICK p \in [1 .. Len(sigs[v]) -> 1 .. Len(sigs[v])] :
        /\ Sorts(p, sigs[v], rank)
        /\ sigs' = [sigs EXCEPT ![v] = [i \in 1 .. Len(sigs[v]) |-> sigs[v][p[i]]]]
  BY DEF SortBy
<1> DEFINE S == [i \in 1 .. Len(sigs[v]) |-> sigs[v][p[i]]]
<1>3. \A i \in 1 .. Len(sigs[v]) : sigs[v][i] \in Signatures
  BY <1>1, ElementOfSeq
<1>4. Len(S) = Len(sigs[v])
  <2>1. S \in Seq(Signatures)
    BY <1>1, <1>3, IsASeq
  <2>2. DOMAIN S = 1 .. Len(sigs[v])
    OBVIOUS
  <2> HIDE DEF S
  <2> QED BY <1>1, <2>1, <2>2, LenOfDomain
<1>5. \A i \in 1 .. Len(sigs[v]) : rank[sigs[v][i].h] \in Nat
  <2>1. \A i \in 1 .. Len(sigs[v]) : sigs[v][i].h \in Hashed
    BY <1>3 DEF Signatures
  <2>2. rank \in [Hashed -> Nat]
    BY SetAssumption
  <2> QED BY <2>1, <2>2
<1>6. \A i \in 1 .. Len(sigs[v]) : \E j \in 1 .. Len(sigs[v]) : p[j] = i
  BY <1>1, <1>2, <1>5, SortIsOnto
<1>7. \A i \in 1 .. Len(sigs[v]) : \E j \in 1 .. Len(S) :
        S[j].h = sigs[v][i].h /\ sigs[v][i].emb \subseteq S[j].emb
  <2> SUFFICES ASSUME NEW i \in 1 .. Len(sigs[v])
               PROVE  \E j \in 1 .. Len(S) :
                        S[j].h = sigs[v][i].h /\ sigs[v][i].emb \subseteq S[j].emb
    OBVIOUS
  <2>1. PICK j \in 1 .. Len(sigs[v]) : p[j] = i
    BY <1>6
  <2>2. S[j] = sigs[v][i]
    BY <2>1
  <2> HIDE DEF S
  <2> QED BY <1>4, <2>2
<1>7a. \A j \in 1 .. Len(S) : \E i \in 1 .. Len(sigs[v]) : S[j] = sigs[v][i]
  <2> SUFFICES ASSUME NEW j \in 1 .. Len(sigs[v])
               PROVE  \E i \in 1 .. Len(sigs[v]) : S[j] = sigs[v][i]
    BY <1>4
  <2>1. p[j] \in 1 .. Len(sigs[v]) /\ S[j] = sigs[v][p[j]]
    OBVIOUS
  <2> QED BY <2>1
<1>8. sigs' = [sigs EXCEPT ![v] = S] /\ UNCHANGED given
  BY <1>2 DEF SortBy
<1> HIDE DEF S
<1>9. ASSUME NEW w \in Vectors
      PROVE  Holds(sigs'[w], given'[w])
  <2>1. Holds(sigs[w], given[w])
    BY DEF Kept
  <2>2. CASE w # v
    BY <1>1, <1>8, <2>1, <2>2
  <2>3. CASE w = v
    <3>1. Has(S, given[v], given[v])
      BY <1>7, <2>1, <2>3, HasMore DEF Holds
    <3>2. Within(S, given[v])
      <4>1. Within(sigs[v], given[v]) /\ given[v] \subseteq given[v]
        BY <2>1, <2>3 DEF Holds
      <4> QED BY <1>7a, <4>1, WithinLess
    <3>3. sigs'[w] = S /\ given'[w] = given[v]
      BY <1>1, <1>8, <2>3
    <3> QED BY <3>1, <3>2, <3>3 DEF Holds
  <2> QED BY <2>2, <2>3
<1> QED BY <1>9 DEF Kept

LEMMA DedupLosesNothing ==
  ASSUME LazyInv, Kept, NEW v \in Vectors, DedupBy(v)
  PROVE  Kept'
<1> DEFINE s == sigs[v]
           G == given[v]
<1>1. sigs \in [Vectors -> Seq(Signatures)] /\ Len(s) \in Nat
  BY LenProperties DEF LazyInv, TypeOK
<1>2. PICK n \in 0 .. Len(s) : \E f \in [1 .. n -> 1 .. Len(s)] :
        /\ Enumerates(f, n, RunStarts(s))
        /\ \E merged \in [1 .. n -> Signatures] :
             /\ \A k \in 1 .. n : Merged(s, f[k], merged[k])
             /\ sigs' = [sigs EXCEPT ![v] = merged]
  BY DEF DedupBy
<1>3. PICK f \in [1 .. n -> 1 .. Len(s)] :
        /\ Enumerates(f, n, RunStarts(s))
        /\ \E merged \in [1 .. n -> Signatures] :
             /\ \A k \in 1 .. n : Merged(s, f[k], merged[k])
             /\ sigs' = [sigs EXCEPT ![v] = merged]
  BY <1>2
<1>4. PICK S \in [1 .. n -> Signatures] :
        /\ \A k \in 1 .. n : Merged(s, f[k], S[k])
        /\ sigs' = [sigs EXCEPT ![v] = S]
  BY <1>3
<1>5. Len(S) = n
  <2>1. n \in Nat
    BY <1>1
  <2>2. S \in Seq(Signatures)
    BY <2>1, SeqDef
  <2> QED BY <2>1, <2>2, LenOfDomain
<1>6. Has(s, G, G) /\ Within(s, G)
  BY DEF Kept, Holds
<1>7. UNCHANGED given
  BY DEF DedupBy
<1> HIDE DEF s, G
<1>8. ASSUME NEW k \in 1 .. n
      PROVE  /\ S[k].h = s[f[k]].h /\ S[k].emb \subseteq Embedded(G, s[f[k]].h)
             /\ Embedded(G, s[f[k]].h) \in Fitting =>
                  \A m \in Run(s, f[k]) : s[m].emb \subseteq S[k].emb
  <2>1. f[k] \in 1 .. Len(s) /\ Merged(s, f[k], S[k])
    BY <1>4
  <2> DEFINE U == Embedded(G, s[f[k]].h)
             i == f[k]
             sig == S[k]
  <2>2. \A m \in Run(s, f[k]) : s[m].emb \subseteq U
    <3> SUFFICES ASSUME NEW m \in Run(s, f[k])
                 PROVE  s[m].emb \subseteq Embedded(G, s[f[k]].h)
      OBVIOUS
    <3>1. m \in f[k] .. Len(s) /\ s[m].h = s[f[k]].h
      BY <1>1, <2>1, RunBefore
    <3>2. m \in 1 .. Len(s)
      BY <1>1, <2>1, <3>1
    <3> QED BY <1>6, <3>1, <3>2 DEF Within
  <2> HIDE DEF U, i, sig
  <2>3. /\ sig.h = s[i].h /\ sig.emb \subseteq U
        /\ U \in Fitting => \A m \in Run(s, i) : s[m].emb \subseteq sig.emb
    <3>1. i \in 1 .. Len(s) /\ Merged(s, i, sig)
      BY <2>1 DEF i, sig
    <3>2. \A m \in Run(s, i) : s[m].emb \subseteq U
      BY <2>2 DEF i
    <3> QED BY <1>1, <3>1, <3>2, MergedRun
  <2> QED BY <2>3 DEF U, i, sig
<1>9. Within(S, G)
  BY <1>5, <1>8 DEF Within
<1>10. Has(S, G, G)
  <2> SUFFICES ASSUME NEW x \in G
               PROVE  \E j \in 1 .. Len(S) :
                        /\ S[j].h = x.h
                        /\ Embedded(G, x.h) \in Fitting => x.emb \subseteq S[j].emb
    BY DEF Has
  <2>1. PICK i \in 1 .. Len(s) :
          s[i].h = x.h /\ (Embedded(G, x.h) \in Fitting => x.emb \subseteq s[i].emb)
    BY <1>6 DEF Has
  <2>2. PICK k \in RunStarts(s) : i \in Run(s, k)
    BY <1>1, RunOfElement
  <2>3. PICK j \in 1 .. n : f[j] = k
    BY <1>3 DEF Enumerates
  <2>4. s[k].h = x.h
    <3>1. k \in 1 .. Len(s)
      BY DEF RunStarts
    <3> QED BY <1>1, <2>1, <2>2, <3>1, RunBefore
  <2>5. S[j].h = x.h /\ (Embedded(G, x.h) \in Fitting => s[i].emb \subseteq S[j].emb)
    BY <1>8, <2>2, <2>3, <2>4
  <2> QED BY <1>5, <2>1, <2>5
<1>11. ASSUME NEW w \in Vectors
       PROVE  Holds(sigs'[w], given'[w])
  <2>1. CASE w # v
    <3>1. sigs'[w] = sigs[w] /\ given'[w] = given[w]
      BY <1>1, <1>4, <1>7, <2>1
    <3> QED BY <3>1 DEF Kept
  <2>2. CASE w = v
    <3>1. sigs'[w] = S /\ given'[w] = G
      BY <1>1, <1>4, <1>7, <2>2 DEF G
    <3> QED BY <1>9, <1>10, <3>1 DEF Holds
  <2> QED BY <2>1, <2>2
<1> QED BY <1>11 DEF Kept

LEMMA PushLosesNothing ==
  ASSUME LazyInv, Kept, NEW v \in Vectors, NEW s \in Signatures, Push(v, s)
  PROVE  Kept'
<1>1. /\ sigs \in [Vectors -> Seq(Signatures)] /\ given \in [Vectors -> SUBSET Signatures]
      /\ sigs[v] \in Seq(Signatures) /\ Len(sigs[v]) \in Nat
  BY LenProperties DEF LazyInv, TypeOK
<1> DEFINE S == Append(sigs[v], s)
<1>2. /\ Len(S) = Len(sigs[v]) + 1 /\ S[Len(sigs[v]) + 1] = s
      /\ \A i \in 1 .. Len(sigs[v]) : S[i] = sigs[v][i]
  BY <1>1, AppendProperties
<1>3. sigs' = [sigs EXCEPT ![v] = S] /\ given' = [given EXCEPT ![v] = given[v] \cup {s}]
  BY DEF Push
<1> HIDE DEF S
<1>4. \A i \in 1 .. Len(sigs[v]) : i \in 1 .. Len(S)
  BY <1>1, <1>2
<1>5. Len(sigs[v]) + 1 \in 1 .. Len(S)
  BY <1>1, <1>2
<1>6. Holds(S, given[v] \cup {s})
  <2> DEFINE G == given[v]
             H == given[v] \cup {s}
  <2>1. Has(sigs[v], G, G) /\ Within(sigs[v], G) /\ G \subseteq H
    BY DEF Kept, Holds
  <2> HIDE DEF G
  <2>2. Has(S, G, H)
    BY <1>2, <1>4, <2>1, HasMore
  <2>3. Has(S, H, H)
    BY <1>2, <1>5, <2>2 DEF Has, G
  <2>4. Within(S, H)
    <3> SUFFICES ASSUME NEW j \in 1 .. Len(S)
                 PROVE  S[j].emb \subseteq Embedded(H, S[j].h)
      BY DEF Within
    <3>1. j \in 1 .. Len(sigs[v]) \/ j = Len(sigs[v]) + 1
      BY <1>1, <1>2
    <3>2. CASE j \in 1 .. Len(sigs[v])
      <4>1. S[j].emb \subseteq Embedded(G, S[j].h)
        BY <1>2, <2>1, <3>2 DEF Within
      <4>2. Embedded(G, S[j].h) \subseteq Embedded(H, S[j].h)
        BY <2>1, EmbeddedGrows
      <4> QED BY <4>1, <4>2
    <3>3. CASE j = Len(sigs[v]) + 1
      <4>1. S[j] = s /\ s \in H
        BY <1>2, <3>3
      <4> QED BY <4>1 DEF Embedded
    <3> QED BY <3>1, <3>2, <3>3
  <2> QED BY <2>3, <2>4 DEF Holds
<1>7. ASSUME NEW w \in Vectors
      PROVE  Holds(sigs'[w], given'[w])
  <2>1. CASE w # v
    BY <1>1, <1>3, <2>1 DEF Kept
  <2>2. CASE w = v
    BY <1>1, <1>3, <1>6, <2>2
  <2> QED BY <2>1, <2>2
<1> QED BY <1>7 DEF Kept

LEMMA AppendLosesNothing ==
  ASSUME LazyInv, Kept, NEW v \in Vectors, NEW other \in Vectors,
         AppendAll(v, other)
  PROVE  Kept'
<1>1. /\ sigs \in [Vectors -> Seq(Signatures)] /\ given \in [Vectors -> SUBSET Signatures]
      /\ sigs[v] \in Seq(Signatures) /\ Len(sigs[v]) \in Nat
      /\ sigs[other] \in Seq(Signatures) /\ Len(sigs[other]) \in Nat
  BY LenProperties DEF LazyInv, TypeOK
<1> DEFINE S == sigs[v] \o sigs[other]
           m == Len(sigs[v])
           n == Len(sigs[other])
<1>2. /\ Len(S) = m + n
      /\ \A i \in 1 .. Len(S) : S[i] = IF i <= m THEN sigs[v][i] ELSE sigs[other][i - m]
  BY <1>1, ConcatProperties
<1>3. /\ sigs' = [sigs EXCEPT ![v] = S, ![other] = <<>>] /\ v # other
      /\ given' = [given EXCEPT ![v] = given[v] \cup given[other], ![other] = {}]
  BY DEF AppendAll
<1> HIDE DEF S
<1>4. m \in Nat /\ n \in Nat
  BY <1>1
<1> HIDE DEF m, n
<1>5. \A i \in 1 .. m : i \in 1 .. Len(S) /\ S[i] = sigs[v][i]
  <2>1. \A i \in 1 .. m : i \in 1 .. m + n /\ i <= m
    BY <1>4
  <2> QED BY <1>2, <2>1
<1>6. \A i \in 1 .. n : m + i \in 1 .. Len(S) /\ S[m + i] = sigs[other][i]
  <2>1. \A i \in 1 .. n : m + i \in 1 .. m + n /\ ~(m + i <= m) /\ (m + i) - m = i
    BY <1>4
  <2> QED BY <1>2, <2>1
<1> DEFINE H == given[v] \cup given[other]
<1>7. Has(S, given[v], H)
  <2>1. Has(sigs[v], given[v], given[v]) /\ given[v] \subseteq H
    BY DEF Kept, Holds
  <2> HIDE DEF H
  <2> QED BY <1>5, <2>1, HasMore DEF m
<1>8. Has(S, given[other], H)
  <2>1. \A i \in 1 .. Len(sigs[other]) : \E j \in 1 .. Len(S) :
          S[j].h = sigs[other][i].h /\ sigs[other][i].emb \subseteq S[j].emb
    <3> SUFFICES ASSUME NEW i \in 1 .. Len(sigs[other])
                 PROVE  \E j \in 1 .. Len(S) :
                          S[j].h = sigs[other][i].h /\ sigs[other][i].emb \subseteq S[j].emb
      OBVIOUS
    <3>1. m + i \in 1 .. Len(S) /\ S[m + i] = sigs[other][i]
      BY <1>6 DEF n
    <3> QED BY <3>1
  <2>2. Has(sigs[other], given[other], given[other]) /\ given[other] \subseteq H
    BY DEF Kept, Holds
  <2> HIDE DEF H
  <2> QED BY <2>1, <2>2, HasMore
<1>8a. Within(S, H)
  <2> SUFFICES ASSUME NEW j \in 1 .. Len(S)
               PROVE  S[j].emb \subseteq Embedded(H, S[j].h)
    BY DEF Within
  <2>1. /\ Within(sigs[v], given[v]) /\ given[v] \subseteq H
        /\ Within(sigs[other], given[other]) /\ given[other] \subseteq H
    BY DEF Kept, Holds
  <2> HIDE DEF H
  <2>2. j \in 1 .. m \/ (j - m \in 1 .. n /\ ~(j <= m))
    BY <1>2, <1>4
  <2>3. CASE j \in 1 .. m
    <3>1. S[j] = sigs[v][j] /\ S[j].emb \subseteq Embedded(given[v], S[j].h)
      BY <1>5, <2>1, <2>3 DEF Within, m
    <3>2. Embedded(given[v], S[j].h) \subseteq Embedded(H, S[j].h)
      BY <2>1, EmbeddedGrows
    <3> QED BY <3>1, <3>2
  <2>4. CASE j - m \in 1 .. n /\ ~(j <= m)
    <3>1. S[j] = sigs[other][j - m] /\ S[j].emb \subseteq Embedded(given[other], S[j].h)
      BY <1>2, <2>1, <2>4 DEF Within, n
    <3>2. Embedded(given[other], S[j].h) \subseteq Embedded(H, S[j].h)
      BY <2>1, EmbeddedGrows
    <3> QED BY <3>1, <3>2
  <2> QED BY <2>2, <2>3, <2>4
<1>9. ASSUME NEW w \in Vectors
      PROVE  Holds(sigs'[w], given'[w])
  <2>1. CASE w # v /\ w # other
    BY <1>1, <1>3, <2>1 DEF Kept
  <2>2. CASE w = v
    <3>1. sigs'[w] = S /\ given'[w] = H
      BY <1>1, <1>3, <2>2
    <3>2. Has(S, H, H)
      BY <1>7, <1>8 DEF Has
    <3> HIDE DEF H
    <3> QED BY <1>8a, <3>1, <3>2 DEF Holds
  <2>3. CASE w = other
    <3>1. sigs'[w] = <<>> /\ given'[w] = {}
      BY <1>1, <1>3, <2>3
    <3> QED BY <3>1 DEF Holds, Has, Within
  <2> QED BY <2>1, <2>2, <2>3
<1> QED BY <1>9 DEF Kept

(* The other operations: a vector is emptied or copied, or nothing changes *)
(* in the vectors.                                                         *)
LEMMA OthersLoseNothing ==
  ASSUME LazyInv, Kept,
         \/ \E v \in Vectors : TakeAll(v)
         \/ \E v, other \in Vectors : CloneFrom(v, other)
         \/ UNCHANGED <<sigs, given>>
  PROVE  Kept'
<1>1. sigs \in [Vectors -> Seq(Signatures)] /\ given \in [Vectors -> SUBSET Signatures]
  BY DEF LazyInv, TypeOK
<1>2. ASSUME NEW w \in Vectors
      PROVE  Holds(sigs'[w], given'[w])
  <2>1. ASSUME NEW v \in Vectors, TakeAll(v)
        PROVE  Holds(sigs'[w], given'[w])
    <3>1. CASE w = v
      <4>1. sigs'[w] = <<>> /\ given'[w] = {}
        BY <1>1, <2>1, <3>1 DEF TakeAll
      <4> QED BY <4>1 DEF Holds, Has, Within
    <3>2. CASE w # v
      <4>1. sigs'[w] = sigs[w] /\ given'[w] = given[w]
        BY <1>1, <2>1, <3>2 DEF TakeAll
      <4> QED BY <4>1 DEF Kept
    <3> QED BY <3>1, <3>2
  <2>2. ASSUME NEW v \in Vectors, NEW other \in Vectors, CloneFrom(v, other)
        PROVE  Holds(sigs'[w], given'[w])
    <3>1. \/ sigs'[w] = sigs[w] /\ given'[w] = given[w]
          \/ sigs'[w] = sigs[v] /\ given'[w] = given[v]
      BY <1>1, <2>2 DEF CloneFrom
    <3> QED BY <3>1 DEF Kept
  <2>3. CASE UNCHANGED <<sigs, given>>
    BY <2>3 DEF Kept
  <2> QED BY <2>1, <2>2, <2>3
<1> QED BY <1>2 DEF Kept

LEMMA KeptNext == LazyInv /\ Kept /\ [Next]_vars => Kept'
<1> SUFFICES ASSUME LazyInv, Kept, [Next]_vars PROVE Kept'
  OBVIOUS
<1>1. CASE Mutate
  BY <1>1, SortLosesNothing, DedupLosesNothing, PushLosesNothing, AppendLosesNothing,
     OthersLoseNothing, OfferedAreSignatures DEF Mutate
<1>2. CASE \E t \in Threads, v \in Vectors, i \in 0 .. 2 ^ Width - 1,
             call \in {"verify_sig", "iter_verified", "iter_bad"} : Call(t, v, call, i)
  <2>1. UNCHANGED <<sigs, given>>
    BY <1>2 DEF Call
  <2> QED BY <2>1, OthersLoseNothing
<1>3. CASE \E t \in Threads : Step(t)
  <2>1. UNCHANGED <<sigs, given>>
    BY <1>3 DEF Step, Look, Remember, IterEnd, LookOutside
  <2> QED BY <2>1, OthersLoseNothing
<1>4. CASE UNCHANGED vars
  BY <1>4, OthersLoseNothing DEF vars
<1> QED BY <1>1, <1>2, <1>3, <1>4 DEF Next

(* sort_by(), dedup_by(), append() and clone() lose no signature, and no   *)
(* embedded primary key binding signature either unless what is embedded   *)
(* in the equals of its signature is more than fits into one area.         *)
THEOREM SignaturesKept == Spec => []NothingLost
<1>1. Init => Kept
  BY DEF Init, Kept, Holds, Has, Within
<1> QED BY <1>1, LazyInit, LazyNext, KeptNext, KeptLosesNothing, PTL DEF Spec

-----------------------------------------------------------------------------
(* An iterator that has looked at one more signature, and has given it out *)
(* if that was what it was to look for.                                    *)
LEMMA GivenMore ==
  ASSUME NEW got \in Seq(Signatures), NEW s, NEW i \in Nat, NEW good,
         NEW x \in Signatures, x = s[i + 1], GivenOut(got, s, i, good),
         NEW more, more = IF Verify(x) <=> good THEN Append(got, x) ELSE got
  PROVE  GivenOut(more, s, i + 1, good)
<1> DEFINE n == Len(got)
           want(j) == Wanted(s, j, good)
<1>1. n \in Nat
  BY LenProperties
<1>2. PICK f \in [1 .. n -> 1 .. i] :
        /\ {f[k] : k \in 1 .. n} = want(i)
        /\ \A k, l \in 1 .. n : k < l => f[k] < f[l]
        /\ \A k \in 1 .. n : got[k] = s[f[k]]
  BY DEF GivenOut, Enumerates
<1>3. 1 .. i + 1 = (1 .. i) \cup {i + 1}
  OBVIOUS
<1>4. CASE ~(Verify(x) <=> good)
  <2>1. want(i + 1) = want(i)
    BY <1>3, <1>4 DEF Wanted
  <2>2. f \in [1 .. n -> 1 .. i + 1] /\ more = got
    BY <1>3, <1>4
  <2> HIDE DEF want
  <2>3. Enumerates(f, n, want(i + 1))
    BY <1>2, <2>1 DEF Enumerates
  <2> QED BY <1>2, <2>2, <2>3 DEF GivenOut, want
<1>5. CASE Verify(x) <=> good
  <2> DEFINE g == [k \in 1 .. n + 1 |-> IF k = n + 1 THEN i + 1 ELSE f[k]]
  <2>1. more = Append(got, x)
    BY <1>5
  <2>2. /\ Len(more) = n + 1 /\ \A k \in 1 .. n : more[k] = got[k]
        /\ more[n + 1] = x
    BY <1>1, <2>1, AppendProperties
  <2>3. \A k \in 1 .. n + 1 : k \in 1 .. n \/ k = n + 1
    BY <1>1
  <2>4. /\ \A k \in 1 .. n : g[k] = f[k] /\ k # n + 1
        /\ g[n + 1] = i + 1
        /\ g \in [1 .. n + 1 -> 1 .. i + 1]
    BY <1>1, <1>2, <1>3
  <2>5. want(i + 1) = want(i) \cup {i + 1}
    BY <1>3, <1>5 DEF Wanted
  <2> HIDE DEF g, want
  <2>6. {g[k] : k \in 1 .. n + 1} = want(i + 1)
    <3>1. {g[k] : k \in 1 .. n + 1} = {f[k] : k \in 1 .. n} \cup {i + 1}
      <4>1. n + 1 \in 1 .. n + 1 /\ \A k \in 1 .. n : k \in 1 .. n + 1
        BY <1>1
      <4> QED BY <2>3, <2>4, <4>1
    <3> QED BY <1>2, <2>5, <3>1
  <2>7. \A k, l \in 1 .. n + 1 : k < l => g[k] < g[l]
    <3> SUFFICES ASSUME NEW k \in 1 .. n + 1, NEW l \in 1 .. n + 1, k < l
                 PROVE  g[k] < g[l]
      OBVIOUS
    <3>1. k \in 1 .. n /\ f[k] \in 1 .. i
      BY <1>1, <1>2
    <3>2. CASE l \in 1 .. n
      BY <1>2, <2>4, <3>1, <3>2
    <3>3. CASE l = n + 1
      BY <2>4, <3>1, <3>3
    <3> QED BY <2>3, <3>2, <3>3
  <2>8. \A k \in 1 .. n + 1 : more[k] = s[g[k]]
    BY <1>2, <2>2, <2>3, <2>4
  <2>9. Enumerates(g, n + 1, want(i + 1))
    BY <2>6, <2>7 DEF Enumerates
  <2> QED BY <2>2, <2>4, <2>8, <2>9 DEF GivenOut, want
<1> QED BY <1>4, <1>5

(* What thread t has given out is right. *)
Handed(t) ==
  thr[t].call \in {"iter_verified", "iter_bad"} =>
    GivenOut(thr[t].got, sigs[VectorOf(t)], thr[t].i, thr[t].call = "iter_verified")

(* A thread whose record stays is not affected as long as the vector that  *)
(* it has borrowed stays.                                                  *)
LEMMA HandedStays ==
  ASSUME LazyInv, NEW t \in Threads, Handed(t), thr'[t] = thr[t],
         \A v \in Vectors : sigs'[v] = sigs[v] \/ Exclusive(v)
  PROVE  Handed(t)'
<1> SUFFICES ASSUME thr[t].call \in {"iter_verified", "iter_bad"}
             PROVE  Handed(t)'
  BY DEF Handed
<1>1. Busy(t)
  BY DEF Busy
<1>2. VectorOf(t) \in Vectors /\ thr[t].vec = {VectorOf(t)}
  BY <1>1, VectorOfBusy DEF LazyInv
<1>3. VectorOf(t)' = VectorOf(t)
  BY DEF VectorOf
<1>4. sigs'[VectorOf(t)] = sigs[VectorOf(t)]
  BY <1>2 DEF Exclusive
<1>5. GivenOut(thr[t].got, sigs[VectorOf(t)], thr[t].i, thr[t].call = "iter_verified")
  BY DEF Handed
<1> QED BY <1>3, <1>4, <1>5 DEF Handed, GivenOut, Wanted, Verify, Enumerates

(* The operations that change vectors leave the borrowed ones alone. *)
LEMMA MutateExclusive ==
  ASSUME LazyInv, Mutate
  PROVE  UNCHANGED thr /\ \A v \in Vectors : sigs'[v] = sigs[v] \/ Exclusive(v)
<1>1. sigs \in [Vectors -> Seq(Signatures)]
  BY DEF LazyInv, TypeOK
<1>2. ASSUME NEW v \in Vectors, NEW s \in Signatures, Push(v, s)
      PROVE  UNCHANGED thr /\ \A w \in Vectors : sigs'[w] = sigs[w] \/ Exclusive(w)
  BY <1>1, <1>2 DEF Push
<1>3. ASSUME NEW v \in Vectors, TakeAll(v)
      PROVE  UNCHANGED thr /\ \A w \in Vectors : sigs'[w] = sigs[w] \/ Exclusive(w)
  BY <1>1, <1>3 DEF TakeAll
<1>4. ASSUME NEW v \in Vectors, NEW other \in Vectors, AppendAll(v, other)
      PROVE  UNCHANGED thr /\ \A w \in Vectors : sigs'[w] = sigs[w] \/ Exclusive(w)
  BY <1>1, <1>4 DEF AppendAll
<1>5. ASSUME NEW v \in Vectors, NEW other \in Vectors, CloneFrom(v, other)
      PROVE  UNCHANGED thr /\ \A w \in Vectors : sigs'[w] = sigs[w] \/ Exclusive(w)
  BY <1>1, <1>5 DEF CloneFrom
<1>6. ASSUME NEW v \in Vectors, NEW rank \in Orders, SortBy(v, rank)
      PROVE  UNCHANGED thr /\ \A w \in Vectors : sigs'[w] = sigs[w] \/ Exclusive(w)
  BY <1>1, <1>6 DEF SortBy
<1>7. ASSUME NEW v \in Vectors, DedupBy(v)
      PROVE  UNCHANGED thr /\ \A w \in Vectors : sigs'[w] = sigs[w] \/ Exclusive(w)
  BY <1>1, <1>7 DEF DedupBy
<1> QED BY <1>2, <1>3, <1>4, <1>5, <1>6, <1>7, OfferedAreSignatures DEF Mutate

(* A thread that has its answer has given out what it should. *)
LEMMA HandedAnswer ==
  ASSUME LazyInv, NEW t \in Threads, Handed(t), Busy(t),
         thr[t].i < Len(sigs[VectorOf(t)]), UNCHANGED sigs,
         NEW state, state = Verdict(sigs[VectorOf(t)][thr[t].i + 1]),
         thr'[t] = Answered(t, state)
  PROVE  Handed(t)'
<1> DEFINE c == thr[t]
           v == VectorOf(t)
           s == sigs[v]
           x == s[c.i + 1]
           good == c.call = "iter_verified"
<1>1. /\ c \in ThreadRecord /\ v \in Vectors /\ c.vec = {v}
  BY VectorOfBusy, RecordOfInv DEF LazyInv, RecordOK
<1>2. c.got \in Seq(Signatures) /\ c.i \in Nat
  BY <1>1 DEF ThreadRecord
<1>3. x \in Signatures
  <2>1. s \in Seq(Signatures) /\ Len(s) \in Nat
    BY <1>1, LenProperties DEF LazyInv, TypeOK
  <2>2. c.i + 1 \in 1 .. Len(s)
    BY <1>2, <2>1
  <2> QED BY <2>1, <2>2, ElementOfSeq
<1>4. CASE c.call = "verify_sig"
  <2>1. thr'[t].call = "idle"
    BY <1>4 DEF Answered, Idle
  <2> QED BY <2>1 DEF Handed
<1>5. CASE c.call \in {"iter_verified", "iter_bad"}
  <2> DEFINE wanted == \/ c.call = "iter_verified" /\ state = "Good"
                       \/ c.call = "iter_bad" /\ state = "Bad"
             more == IF wanted THEN Append(c.got, x) ELSE c.got
             d == [c EXCEPT !.i = c.i + 1, !.pc = "look", !.got = more]
  <2>1. thr'[t] = d
    BY <1>5 DEF Answered
  <2>2. wanted <=> (Verify(x) <=> good)
    BY <1>5 DEF Verdict
  <2>3. more = IF Verify(x) <=> good THEN Append(c.got, x) ELSE c.got
    BY <2>2
  <2>4. more \in Seq(Signatures)
    BY <1>2, <1>3, AppendProperties
  <2> HIDE DEF more, wanted
  <2>5. d.vec = c.vec /\ d.call = c.call /\ d.got = more /\ d.i = c.i + 1
    BY <1>1, <2>4 DEF ThreadRecord
  <2> HIDE DEF d
  <2>6. GivenOut(c.got, s, c.i, good)
    BY <1>5 DEF Handed
  <2>7. GivenOut(more, s, c.i + 1, good)
    <3> HIDE DEF s, x, good, c
    <3>1. x = s[c.i + 1]
      BY DEF x
    <3> QED BY <1>2, <1>3, <2>3, <2>6, <3>1, GivenMore
  <2>8. VectorOf(t)' = v
    BY <2>1, <2>5 DEF VectorOf
  <2>9. /\ thr'[t].got = more /\ thr'[t].i = c.i + 1 /\ sigs'[VectorOf(t)'] = s
        /\ (thr'[t].call = "iter_verified") = good
    BY <2>1, <2>5, <2>8
  <2> HIDE DEF s, good
  <2>10. GivenOut(thr'[t].got, sigs'[VectorOf(t)'], thr'[t].i,
                  thr'[t].call = "iter_verified")
    BY <2>7, <2>9
  <2> QED BY <2>10 DEF Handed
<1> QED BY <1>4, <1>5 DEF Busy

(* A step that changes thread t only. *)
LEMMA HandedOthers ==
  ASSUME LazyInv, HandedOut, NEW t \in Threads, NEW c, thr' = [thr EXCEPT ![t] = c],
         UNCHANGED sigs, Handed(t)'
  PROVE  HandedOut'
<1>1. ASSUME NEW u \in Threads, u # t PROVE Handed(u)'
  <2>1. thr'[u] = thr[u]
    BY <1>1 DEF LazyInv, TypeOK
  <2>2. Handed(u)
    BY DEF HandedOut, Handed
  <2> QED BY <2>1, <2>2, HandedStays
<1> QED BY <1>1 DEF HandedOut, Handed

(* Every step keeps what the iterators have given out right. *)
LEMMA HandedNext == LazyInv /\ HandedOut /\ [Next]_vars => HandedOut'
<1> SUFFICES ASSUME LazyInv, HandedOut, [Next]_vars PROVE HandedOut'
  OBVIOUS
<1>0. \A t \in Threads : Handed(t)
  BY DEF HandedOut, Handed
<1>1. CASE Mutate
  <2>1. \A t \in Threads : Handed(t)'
    BY <1>0, <1>1, MutateExclusive, HandedStays
  <2> QED BY <2>1 DEF HandedOut, Handed
<1>2. ASSUME NEW t \in Threads, NEW v \in Vectors, NEW i \in 0 .. 2 ^ Width - 1,
             NEW call \in {"verify_sig", "iter_verified", "iter_bad"}, Call(t, v, call, i)
      PROVE  HandedOut'
  <2> DEFINE c == [call |-> call, vec |-> {v}, i |-> i, pc |-> "look", got |-> <<>>]
  <2>1. thr' = [thr EXCEPT ![t] = c] /\ UNCHANGED sigs
    BY <1>2 DEF Call
  <2>2. thr'[t] = c
    BY <2>1 DEF LazyInv, TypeOK
  <2>3. call # "verify_sig" => i = 0
    BY <1>2 DEF Call
  <2>4. \A s, good : GivenOut(<<>>, s, 0, good)
    <3> SUFFICES ASSUME NEW s, NEW good PROVE GivenOut(<<>>, s, 0, good)
      OBVIOUS
    <3> DEFINE f == [k \in 1 .. 0 |-> 0]
    <3>1. Len(<<>>) = 0 /\ 1 .. 0 = {}
      BY EmptySeq
    <3>2. f \in [1 .. 0 -> 1 .. 0] /\ Enumerates(f, 0, Wanted(s, 0, good))
      BY <3>1 DEF Enumerates, Wanted
    <3> HIDE DEF f
    <3> QED BY <3>1, <3>2 DEF GivenOut
  <2>5. thr'[t].got = <<>> /\ thr'[t].i = i /\ thr'[t].call = call
    BY <2>2
  <2> HIDE DEF c
  <2>6. Handed(t)'
    BY <2>3, <2>4, <2>5 DEF Handed
  <2> QED BY <2>1, <2>6, HandedOthers
<1>3. ASSUME NEW t \in Threads, Look(t) PROVE HandedOut'
  <2> DEFINE c == thr[t]
             v == VectorOf(t)
             state == states[v][c.i + 1]
  <2>1. Busy(t) /\ c.i < Len(sigs[v]) /\ UNCHANGED sigs
    BY <1>3 DEF Look, Busy
  <2>2. v \in Vectors /\ c.vec = {v} /\ c \in ThreadRecord
    BY <2>1, VectorOfBusy, RecordOfInv DEF LazyInv, RecordOK
  <2>3. CASE state = "Unverified"
    <3> DEFINE d == [c EXCEPT !.pc = "verify"]
    <3>1. thr' = [thr EXCEPT ![t] = d]
      BY <1>3, <2>3 DEF Look
    <3>2. thr'[t] = d
      BY <3>1 DEF LazyInv, TypeOK
    <3>3. d.vec = c.vec /\ d.call = c.call /\ d.got = c.got /\ d.i = c.i
      BY <2>2 DEF ThreadRecord
    <3> HIDE DEF d
    <3>4. VectorOf(t)' = v
      BY <3>2, <3>3 DEF VectorOf
    <3>5. Handed(t)'
      BY <1>0, <2>1, <3>2, <3>3, <3>4 DEF Handed
    <3> QED BY <2>1, <3>1, <3>5, HandedOthers
  <2>4. CASE state # "Unverified"
    <3>1. thr' = [thr EXCEPT ![t] = Answered(t, state)]
      BY <1>3, <2>4 DEF Look
    <3>2. c.i + 1 \in 1 .. Len(sigs[v])
      <4>1. c.i \in Nat /\ Len(sigs[v]) \in Nat
        BY <2>2, LenProperties DEF ThreadRecord, LazyInv, TypeOK
      <4> QED BY <2>1, <4>1
    <3>3. state = Verdict(sigs[v][c.i + 1])
      BY <2>2, <2>4, <3>2 DEF LazyInv, StatesTrue
    <3>4. thr'[t] = Answered(t, state)
      BY <3>1 DEF LazyInv, TypeOK
    <3>5. Handed(t)'
      BY <1>0, <2>1, <3>3, <3>4, HandedAnswer
    <3> QED BY <2>1, <3>1, <3>5, HandedOthers
  <2> QED BY <2>3, <2>4
<1>4. ASSUME NEW t \in Threads, Remember(t) PROVE HandedOut'
  <2> DEFINE c == thr[t]
             v == VectorOf(t)
             state == Verdict(sigs[v][c.i + 1])
  <2>1. c.pc = "verify" /\ UNCHANGED sigs /\ thr' = [thr EXCEPT ![t] = Answered(t, state)]
    BY <1>4 DEF Remember
  <2>2. Busy(t)
    BY <2>1 DEF LazyInv, ThreadInv
  <2>3. v \in Vectors /\ c.vec = {v}
    BY <2>2, VectorOfBusy DEF LazyInv
  <2>4. c.i < Len(sigs[v])
    BY <2>1, <2>3 DEF LazyInv, ThreadInv
  <2>5. thr'[t] = Answered(t, state)
    BY <2>1 DEF LazyInv, TypeOK
  <2>6. Handed(t)'
    BY <1>0, <2>1, <2>2, <2>4, <2>5, HandedAnswer
  <2> QED BY <2>1, <2>6, HandedOthers
<1>5. ASSUME NEW t \in Threads, IterEnd(t) \/ LookOutside(t) PROVE HandedOut'
  <2>1. PICK call \in {"idle", "error", "panic"} :
          thr' = [thr EXCEPT ![t] = [Idle EXCEPT !.call = call]]
    <3>1. Idle = [Idle EXCEPT !.call = "idle"]
      BY DEF Idle
    <3>2. CASE IterEnd(t)
      BY <3>1, <3>2 DEF IterEnd
    <3>3. CASE LookOutside(t)
      BY <3>3 DEF LookOutside
    <3> QED BY <1>5, <3>2, <3>3
  <2>2. thr'[t].call = call /\ UNCHANGED sigs
    BY <1>5, <2>1 DEF IterEnd, LookOutside, LazyInv, TypeOK, Idle
  <2>3. Handed(t)'
    BY <2>2 DEF Handed
  <2> QED BY <2>1, <2>2, <2>3, HandedOthers
<1>6. CASE UNCHANGED vars
  <2>1. \A t \in Threads : Handed(t)'
    BY <1>0, <1>6, HandedStays DEF vars
  <2> QED BY <2>1 DEF HandedOut, Handed
<1> QED BY <1>1, <1>2, <1>3, <1>4, <1>5, <1>6 DEF Next, Step

(* iter_verified() gives out exactly the signatures that verify, each once *)
(* and in their order, and iter_bad() the others, although the lock is     *)
(* released between the signatures and other threads verify, remember and  *)
(* clone meanwhile.                                                        *)
THEOREM IteratorsExact == Spec => []HandedOut
<1>1. Init => HandedOut
  BY DEF Init, HandedOut, Idle
<1> QED BY <1>1, LazyInit, LazyNext, HandedNext, PTL DEF Spec

=============================================================================
