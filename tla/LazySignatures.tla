--------------------------- MODULE LazySignatures ---------------------------
(***************************************************************************)
(* LazySignatures: a vector of signatures next to a vector of verification *)
(* states, behind a lock, so that threads that share a certificate can     *)
(* verify a signature when they first need it and remember the result.     *)
(*                                                                         *)
(* A signature is its hashed part and the set of primary key binding       *)
(* signatures that are embedded in its unhashed area: two signatures with  *)
(* the same hashed part are equal to dedup_by(), which merges what is      *)
(* embedded as far as it fits into one area.  Operations that take &mut self exclude all others on the     *)
(* same vector, as the borrow checker has it; those that take &self        *)
(* interleave.                                                             *)
(***************************************************************************)
EXTENDS Integers, Sequences, FiniteSets

CONSTANTS
  Hashed,      \* the hashed parts of signatures
  Backsigs,    \* the primary key binding signatures, and whatever else is
               \* embedded in unhashed areas
  Fitting,     \* the sets of them that fit into one area of 64 KiB
  Offered,     \* the signatures that push() is called with
  GoodHashed,  \* the hashed parts that the primary key verifies
  Signing,     \* the hashed parts whose key flags say: for signing
  GoodBacksigs,\* the binding signatures that the subkey verifies
  Subkey,      \* whether the component is a subkey that can sign
  Orders,      \* the orders that sort_by() is called with, as ranks
  Vectors,     \* the vectors
  Threads,
  MaxLen,      \* bound: the length of a vector, and how many different
               \* signatures are put into it
  Width,       \* the width of usize
  OutOfBounds  \* whether verify_sig() is called with every index

Signatures == [h : Hashed, emb : Fitting]

ASSUME SetAssumption ==
  /\ GoodHashed \subseteq Hashed /\ Signing \subseteq Hashed
  /\ GoodBacksigs \subseteq Backsigs
  /\ Fitting \subseteq SUBSET Backsigs /\ {} \in Fitting
  /\ \A S \in Fitting : SUBSET S \subseteq Fitting
  /\ Offered \subseteq Signatures
  /\ Orders \subseteq [Hashed -> Nat]
  /\ Subkey \in BOOLEAN /\ OutOfBounds \in BOOLEAN
  /\ MaxLen \in Nat /\ Width \in Nat

VARIABLES
  sigs,    \* the signatures of each vector
  states,  \* their states
  thr      \* what each thread does: the call, the vector, the index (from
           \* zero), whether the result is still to be remembered, and what
           \* the iterator has given out

(* History variable: what has been put into each vector. *)
VARIABLE given

vars == <<sigs, states, thr, given>>

Idle == [call |-> "idle", vec |-> {}, i |-> 0, pc |-> "look", got |-> <<>>]

Init ==
  /\ sigs = [v \in Vectors |-> <<>>]
  /\ states = [v \in Vectors |-> <<>>]
  /\ thr = [t \in Threads |-> Idle]
  /\ given = [v \in Vectors |-> {}]

(* What verify_signature() says, and for the binding of a subkey that can  *)
(* sign, verify_primary_key_binding() of what is embedded.                 *)
Verify(s) ==
  /\ s.h \in GoodHashed
  /\ Subkey /\ s.h \in Signing => \E b \in s.emb : b \in GoodBacksigs

Verdict(s) == IF Verify(s) THEN "Good" ELSE "Bad"

AllUnverified(n) == [i \in 1 .. n |-> "Unverified"]

(* &mut: nobody else uses the vector. *)
Exclusive(v) == \A t \in Threads : thr[t].vec # {v}

-----------------------------------------------------------------------------
(* Operations that need the vector for themselves. *)

Push(v, s) ==
  /\ Exclusive(v)
  /\ Len(sigs[v]) < MaxLen /\ Cardinality(given[v] \cup {s}) <= MaxLen
  /\ sigs' = [sigs EXCEPT ![v] = Append(@, s)]
  /\ states' = [states EXCEPT ![v] = Append(@, "Unverified")]
  /\ given' = [given EXCEPT ![v] = @ \cup {s}]
  /\ UNCHANGED thr

TakeAll(v) ==
  /\ Exclusive(v)
  /\ sigs' = [sigs EXCEPT ![v] = <<>>]
  /\ states' = [states EXCEPT ![v] = <<>>]
  /\ given' = [given EXCEPT ![v] = {}]
  /\ UNCHANGED thr

(* append(): the other vector is left empty. *)
AppendAll(v, other) ==
  /\ v # other /\ Exclusive(v) /\ Exclusive(other)
  /\ Len(sigs[v]) + Len(sigs[other]) <= MaxLen
  /\ Cardinality(given[v] \cup given[other]) <= MaxLen
  /\ sigs' = [sigs EXCEPT ![v] = @ \o sigs[other], ![other] = <<>>]
  /\ states' = [states EXCEPT ![v] = @ \o states[other], ![other] = <<>>]
  /\ given' = [given EXCEPT ![v] = @ \cup given[other], ![other] = {}]
  /\ UNCHANGED thr

(* p puts the sequence s into the order, and keeps the order of equals. *)
Sorts(p, s, rank) ==
  \A i, j \in 1 .. Len(s) : i < j =>
    \/ rank[s[p[i]].h] < rank[s[p[j]].h]
    \/ rank[s[p[i]].h] = rank[s[p[j]].h] /\ p[i] < p[j]

(* Mutant of SortBy: the states stay where they are. *)
SortByKeepsStates(v, rank) ==
  /\ Exclusive(v)
  /\ \E p \in [1 .. Len(sigs[v]) -> 1 .. Len(sigs[v])] :
       /\ Sorts(p, sigs[v], rank)
       /\ sigs' = [sigs EXCEPT ![v] = [i \in 1 .. Len(@) |-> @[p[i]]]]
  /\ UNCHANGED <<states, thr, given>>

(* sort_by(): the signatures move, so that all states are reset. *)
SortBy(v, rank) ==
  /\ Exclusive(v)
  /\ \E p \in [1 .. Len(sigs[v]) -> 1 .. Len(sigs[v])] :
       /\ Sorts(p, sigs[v], rank)
       /\ sigs' = [sigs EXCEPT ![v] = [i \in 1 .. Len(@) |-> @[p[i]]]]
  /\ states' = [states EXCEPT ![v] = AllUnverified(Len(@))]
  /\ UNCHANGED <<thr, given>>

(* The indices at which a run of equal signatures begins. *)
RunStarts(s) == {i \in 1 .. Len(s) : i = 1 \/ s[i].h # s[i - 1].h}

Enumerates(f, n, S) ==
  /\ {f[k] : k \in 1 .. n} = S
  /\ \A k, l \in 1 .. n : k < l => f[k] < f[l]

(* The run that begins at i. *)
Run(s, i) == {j \in i .. Len(s) : \A k \in i .. j : s[k].h = s[i].h}

(* merge_internal(): what both embed is considered one by one, in an order *)
(* that depends on what is authenticated, and what does not fit is left    *)
(* out.                                                                    *)
Collected(kept, both) ==
  /\ kept \subseteq both /\ kept \in Fitting
  /\ \A b \in both \ kept : kept \cup {b} \notin Fitting

(* Mutant of Merged: the first of the equals is kept as it is. *)
MergedFirst(s, i, sig) == sig = s[i]

(* sig_merge(): the others of the run that begins at i are merged, one     *)
(* after the other, into the first one, which becomes sig.                 *)
Merged(s, i, sig) ==
  /\ sig.h = s[i].h
  /\ \E acc \in [Run(s, i) -> Fitting] :
       /\ acc[i] = s[i].emb
       /\ \A j \in Run(s, i) : j # i => Collected(acc[j], acc[j - 1] \cup s[j].emb)
       /\ \E j \in Run(s, i) : j + 1 \notin Run(s, i) /\ sig.emb = acc[j]

(* dedup_by() with sig_merge(): the states are truncated and reset. *)
DedupBy(v) ==
  LET s == sigs[v]
  IN  /\ Exclusive(v)
      /\ \E n \in 0 .. Len(s) :
           /\ \E f \in [1 .. n -> 1 .. Len(s)] :
                /\ Enumerates(f, n, RunStarts(s))
                /\ \E merged \in [1 .. n -> Signatures] :
                     /\ \A k \in 1 .. n : Merged(s, f[k], merged[k])
                     /\ sigs' = [sigs EXCEPT ![v] = merged]
           /\ states' = [states EXCEPT ![v] =
                           AllUnverified(IF Len(@) < n THEN Len(@) ELSE n)]
      /\ UNCHANGED <<thr, given>>

-----------------------------------------------------------------------------
(* Operations that share the vector. *)

(* Mutant of CloneFrom: the clone of a locked vector has no states. *)
CloneFromEmpty(v, other) ==
  /\ v # other /\ Exclusive(other)
  /\ sigs' = [sigs EXCEPT ![other] = sigs[v]]
  /\ given' = [given EXCEPT ![other] = given[v]]
  /\ \/ states' = [states EXCEPT ![other] = states[v]]
     \/ ~Exclusive(v) /\ states' = [states EXCEPT ![other] = <<>>]
  /\ UNCHANGED thr

(* clone(): if another thread holds the lock of the states, which it can   *)
(* while it is in a call, the states of the clone are reset.               *)
CloneFrom(v, other) ==
  /\ v # other /\ Exclusive(other)
  /\ sigs' = [sigs EXCEPT ![other] = sigs[v]]
  /\ given' = [given EXCEPT ![other] = given[v]]
  /\ \/ states' = [states EXCEPT ![other] = states[v]]
     \/ /\ ~Exclusive(v)
        /\ states' = [states EXCEPT ![other] = AllUnverified(Len(sigs[v]))]
  /\ UNCHANGED thr

(* A thread calls iter_verified(), iter_bad(), or verify_sig() with an     *)
(* index.                                                                  *)
Call(t, v, call, i) ==
  /\ thr[t].call \in {"idle", "error"}
  /\ IF call = "verify_sig" THEN OutOfBounds \/ i < Len(sigs[v]) ELSE i = 0
  /\ thr' = [thr EXCEPT ![t] =
               [call |-> call, vec |-> {v}, i |-> i, pc |-> "look", got |-> <<>>]]
  /\ UNCHANGED <<sigs, states, given>>

VectorOf(t) == CHOOSE v \in Vectors : thr[t].vec = {v}

(* What the call does with a state: iter_verified() and iter_bad() give    *)
(* out the signature if it is good or bad and go on, verify_sig() returns. *)
Answered(t, state) ==
  LET c == thr[t]
      wanted == \/ c.call = "iter_verified" /\ state = "Good"
                \/ c.call = "iter_bad" /\ state = "Bad"
      got == IF wanted THEN Append(c.got, sigs[VectorOf(t)][c.i + 1]) ELSE c.got
  IN  IF c.call = "verify_sig"
      THEN Idle
      ELSE [c EXCEPT !.i = @ + 1, !.pc = "look", !.got = got]

(* The check of verify_sig() at its beginning: ! is the bitwise not.       *)
Rejected(i, v) == (2 ^ Width - 1 - i) < Len(sigs[v])

(* Mutant of Look: what is not verified yet is given out. *)
LookTrusts(t) ==
  LET c == thr[t]
      v == VectorOf(t)
  IN  /\ c.call \in {"verify_sig", "iter_verified", "iter_bad"} /\ c.pc = "look"
      /\ c.i < Len(sigs[v]) /\ ~Rejected(c.i, v)
      /\ thr' = [thr EXCEPT ![t] =
                   Answered(t, IF states[v][c.i + 1] = "Unverified" THEN "Good"
                               ELSE states[v][c.i + 1])]
      /\ UNCHANGED <<sigs, states, given>>

(* verify_sig(), up to the unlock: a state that is known is the answer.    *)
Look(t) ==
  LET c == thr[t]
      v == VectorOf(t)
  IN  /\ c.call \in {"verify_sig", "iter_verified", "iter_bad"} /\ c.pc = "look"
      /\ c.i < Len(sigs[v]) /\ ~Rejected(c.i, v)
      /\ thr' = [thr EXCEPT ![t] =
                   IF states[v][c.i + 1] = "Unverified"
                   THEN [c EXCEPT !.pc = "verify"]
                   ELSE Answered(t, states[v][c.i + 1])]
      /\ UNCHANGED <<sigs, states, given>>

(* The rest of verify_sig(): the signature is verified without the lock,   *)
(* and then the result is remembered, whatever is there by then.           *)
Remember(t) ==
  LET c == thr[t]
      v == VectorOf(t)
      state == Verdict(sigs[v][c.i + 1])
  IN  /\ c.pc = "verify"
      /\ states' = [states EXCEPT ![v][c.i + 1] = state]
      /\ thr' = [thr EXCEPT ![t] = Answered(t, state)]
      /\ UNCHANGED <<sigs, given>>

(* The iterator is at the end. *)
IterEnd(t) ==
  /\ thr[t].call \in {"iter_verified", "iter_bad"} /\ thr[t].pc = "look"
  /\ thr[t].i = Len(sigs[VectorOf(t)])
  /\ thr' = [thr EXCEPT ![t] = Idle]
  /\ UNCHANGED <<sigs, states, given>>

(* verify_sig() with an index that is not in the vector: an error if the   *)
(* check says so, and otherwise there is no state and unreachable!()       *)
(* panics.                                                                 *)
LookOutside(t) ==
  LET c == thr[t]
      v == VectorOf(t)
  IN  /\ c.call = "verify_sig" /\ c.pc = "look"
      /\ c.i >= Len(sigs[v]) \/ Rejected(c.i, v)
      /\ thr' = [thr EXCEPT ![t] =
                   [Idle EXCEPT !.call = IF Rejected(c.i, v) THEN "error" ELSE "panic"]]
      /\ UNCHANGED <<sigs, states, given>>

-----------------------------------------------------------------------------
Mutate ==
  \/ \E v \in Vectors, s \in Offered : Push(v, s)
  \/ \E v \in Vectors : TakeAll(v)
  \/ \E v, other \in Vectors : AppendAll(v, other) \/ CloneFrom(v, other)
  \/ \E v \in Vectors, rank \in Orders : SortBy(v, rank)
  \/ \E v \in Vectors : DedupBy(v)

Step(t) == Look(t) \/ Remember(t) \/ IterEnd(t) \/ LookOutside(t)

Next ==
  \/ Mutate
  \/ \E t \in Threads, v \in Vectors, i \in 0 .. 2 ^ Width - 1,
        call \in {"verify_sig", "iter_verified", "iter_bad"} : Call(t, v, call, i)
  \/ \E t \in Threads : Step(t)

Spec == Init /\ [][Next]_vars

-----------------------------------------------------------------------------
(* The types of the variables, and the invariant of the code: there are as *)
(* many states as signatures.                                              *)
TypeOK ==
  /\ sigs \in [Vectors -> Seq(Signatures)]
  /\ states \in [Vectors -> Seq({"Unverified", "Good", "Bad"})]
  /\ \A v \in Vectors : Len(states[v]) = Len(sigs[v])
  /\ thr \in [Threads -> [call : {"idle", "verify_sig", "iter_verified", "iter_bad",
                                 "error", "panic"},
                         vec : {{}} \cup {{v} : v \in Vectors}, i : Nat,
                         pc : {"look", "verify"}, got : Seq(Signatures)]]
  /\ given \in [Vectors -> SUBSET Signatures]

(* A state that verify_sig() remembers is that of the signature it is next *)
(* to: no sort, deduplication, append or clone, and no thread that         *)
(* remembers a result late, moves a verdict to another signature or keeps  *)
(* it for one that has changed.                                            *)
StatesTrue ==
  \A v \in Vectors : \A i \in 1 .. Len(sigs[v]) :
    states[v][i] # "Unverified" => states[v][i] = Verdict(sigs[v][i])

(* got is what an iterator over s has to give out up to index i: the       *)
(* signatures that verify, or else those that do not, each one once and in *)
(* the order of s.                                                         *)
Wanted(s, i, good) == {k \in 1 .. i : Verify(s[k]) <=> good}
GivenOut(got, s, i, good) ==
  \E f \in [1 .. Len(got) -> 1 .. i] :
    /\ Enumerates(f, Len(got), Wanted(s, i, good))
    /\ \A k \in 1 .. Len(got) : got[k] = s[f[k]]

(* What iter_verified() has given out so far is exactly the signatures     *)
(* that verify, in their order, and what iter_bad() has given out is the   *)
(* others, whatever other threads do meanwhile.                            *)
HandedOut ==
  \A t \in Threads : thr[t].call \in {"iter_verified", "iter_bad"} =>
    GivenOut(thr[t].got, sigs[VectorOf(t)], thr[t].i, thr[t].call = "iter_verified")

(* What the signatures of G with the hashed part h embed. *)
Embedded(G, h) == UNION {s.emb : s \in {x \in G : x.h = h}}

(* No signature that was put into a vector is lost by sort_by() and        *)
(* dedup_by(), and as long as what was embedded in the signatures that are *)
(* equal to it fits into one area, neither is a primary key binding        *)
(* signature that it embeds, however often the vector is sorted, appended  *)
(* to and merged.                                                          *)
NothingLost ==
  \A v \in Vectors : \A s \in given[v] :
    \E i \in 1 .. Len(sigs[v]) :
      /\ sigs[v][i].h = s.h
      /\ Embedded(given[v], s.h) \in Fitting => s.emb \subseteq sigs[v][i].emb

=============================================================================
