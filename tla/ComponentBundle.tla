-------------------------- MODULE ComponentBundle --------------------------
(***************************************************************************)
(* ComponentBundle: a component of a certificate with its self signatures  *)
(* and revocations, put in order by sort_and_dedup(), and the two          *)
(* questions that are asked of it: which signature binds the component at  *)
(* a time, and whether it is revoked at that time.                         *)
(*                                                                         *)
(* A signature is a record of what these questions depend on: when it was  *)
(* created (None if it does not say), for how long it is valid (zero: for  *)
(* ever), its MPIs as a number, whether it verifies, and whether the       *)
(* policy accepts it.  A self signature also says what is the matter with  *)
(* its primary key binding signatures, a revocation what its reason is.    *)
(* The verification states are those of module LazySignatures, where a     *)
(* remembered state is always the verdict.                                 *)
(***************************************************************************)
EXTENDS Integers, Sequences, FiniteSets

CONSTANTS
  SelfSignatures, SelfRevocations, OtherRevocations,  \* what can be added
  MaxSignatures,    \* bound: how many of them are added
  Times             \* the times that are asked about

None == -1

ASSUME SignatureAssumption ==
  /\ \A s \in SelfSignatures \cup SelfRevocations \cup OtherRevocations :
       /\ s.ctime \in Nat \cup {None} /\ s.life \in Nat /\ s.mpi \in Nat
       /\ s.good \in BOOLEAN /\ s.policy \in BOOLEAN
  /\ \A s \in SelfSignatures : s.back \in {"unneeded", "good", "dead", "rejected"}
  /\ \A s \in SelfRevocations \cup OtherRevocations :
       s.reason \in {"hard", "soft", "none"}
  /\ Times \subseteq Nat /\ MaxSignatures \in Nat

VARIABLES
  self_signatures, self_revocations, other_revocations,
  sorted,   \* whether sort_and_dedup() has run
  query     \* the last question, and the answers

vars == <<self_signatures, self_revocations, other_revocations, sorted, query>>

NoSignature == [ctime |-> None]
NoQuery == [t |-> 0, final |-> FALSE, binding |-> NoSignature, err |-> "none",
            revoked |-> "none", revs |-> {}]

Init ==
  /\ self_signatures = <<>> /\ self_revocations = <<>> /\ other_revocations = <<>>
  /\ sorted = FALSE /\ query = NoQuery

(* split_sigs() of the certificate parser, and merging, put signatures in  *)
(* any order, and some twice, into the bundle.                             *)
Add ==
  /\ ~sorted
  /\ Len(self_signatures) + Len(self_revocations) + Len(other_revocations)
       < MaxSignatures
  /\ \/ /\ \E s \in SelfSignatures : self_signatures' = Append(self_signatures, s)
        /\ UNCHANGED <<self_revocations, other_revocations>>
     \/ /\ \E s \in SelfRevocations : self_revocations' = Append(self_revocations, s)
        /\ UNCHANGED <<self_signatures, other_revocations>>
     \/ /\ \E s \in OtherRevocations : other_revocations' = Append(other_revocations, s)
        /\ UNCHANGED <<self_signatures, self_revocations>>
  /\ UNCHANGED <<sorted, query>>

(* sig_cmp(): the most recent signature comes first, then the MPIs decide; *)
(* a signature without a creation time comes last.                         *)
SigCmp(a, b) ==
  a.ctime > b.ctime \/ (a.ctime = b.ctime /\ a.mpi < b.mpi)

Elements(s) == {s[i] : i \in 1 .. Len(s)}

(* No element is there twice, and none is before one that sig_cmp() puts   *)
(* before it.                                                              *)
InOrder(s) ==
  \A i, j \in 1 .. Len(s) : i < j => s[i] # s[j] /\ ~SigCmp(s[j], s[i])

(* What sorting by normalized_cmp(), removing equals, and sorting by       *)
(* sig_cmp() makes of a vector.  Where sig_cmp() sees no difference the    *)
(* order is that of normalized_cmp(), about which nothing is assumed.      *)
Canonical(s) ==
  {r \in UNION {[1 .. n -> Elements(s)] : n \in 0 .. Len(s)} :
     Elements(r) = Elements(s) /\ InOrder(r)}

SortAndDedup ==
  /\ ~sorted /\ sorted' = TRUE
  /\ self_signatures' \in Canonical(self_signatures)
  /\ self_revocations' \in Canonical(self_revocations)
  /\ other_revocations' \in Canonical(other_revocations)
  /\ UNCHANGED query

-----------------------------------------------------------------------------
(* signature_alive() without tolerance. *)
Alive(s, t) ==
  /\ s.ctime # None
  /\ ~(s.life > 0 /\ s.ctime + s.life <= t)
  /\ s.ctime <= t

(* Mutant of WalkBack: the first match is as good as any. *)
WalkBackNot(sigs, i, t) == i

(* Back from a match of the binary search to the first one. *)
WalkBack(sigs, i, t) ==
  CHOOSE k \in 1 .. i : /\ \A j \in k .. i : sigs[j].ctime = t
                        /\ k = 1 \/ sigs[k - 1].ctime # t

(* Where the search begins: at the first signature, if that is not too     *)
(* recent and good, and else where a binary search for t ends, which may   *)
(* find any signature that was created at t.                               *)
SearchStart(sigs, t) ==
  LET matches == {i \in 1 .. Len(sigs) : sigs[i].ctime = t}
      newer == {i \in 1 .. Len(sigs) : sigs[i].ctime > t}
  IN  IF sigs # <<>> /\ sigs[1].ctime # None /\ sigs[1].ctime <= t /\ sigs[1].good
      THEN {1}
      ELSE IF matches = {} THEN {Cardinality(newer) + 1}
      ELSE {WalkBack(sigs, i, t) : i \in matches}

(* What the loop finds wrong with a signature; a signature that does not   *)
(* verify is skipped without an error.                                     *)
Fault(s, t) ==
  CASE ~Alive(s, t)                -> "not alive"
    [] Alive(s, t) /\ ~s.policy    -> "rejected"
    [] Alive(s, t) /\ s.policy /\ ~s.good -> "bad"
    [] Alive(s, t) /\ s.policy /\ s.good /\ s.back \in {"dead", "rejected"} -> s.back
    [] OTHER                       -> "none"

First(S) == CHOOSE j \in S : \A k \in S : j <= k

(* The loop: the first signature that nothing is wrong with, or the first  *)
(* error.                                                                  *)
Scan(sigs, i, t) ==
  LET right == {j \in i .. Len(sigs) : Fault(sigs[j], t) = "none"}
      wrong == {j \in i .. Len(sigs) : Fault(sigs[j], t) \notin {"none", "bad"}}
  IN  IF right # {} THEN [sig |-> sigs[First(right)], err |-> "none"]
      ELSE IF wrong # {}
      THEN [sig |-> NoSignature, err |-> Fault(sigs[First(wrong)], t)]
      ELSE [sig |-> NoSignature, err |-> "NoBindingSignature"]

(* Mutant of Counts: an old soft revocation counts as well. *)
CountsOld(rev, final, selfsig, t) ==
  /\ rev.policy
  /\ \/ final /\ rev.reason # "soft"
     \/ Alive(rev, t)

(* Mutant of Counts: a hard revocation has to be alive. *)
CountsHardAlive(rev, final, selfsig, t) ==
  /\ rev.policy
  /\ (final /\ rev.reason # "soft") \/ selfsig.ctime <= rev.ctime
  /\ Alive(rev, t)

(* The closure check: which revocations count.  A creation time that is    *)
(* missing is taken for the epoch; no reason is a hard reason.             *)
Counts(rev, final, selfsig, t) ==
  LET OrZero(c) == IF c = None THEN 0 ELSE c
  IN  /\ rev.policy
      /\ \/ final /\ rev.reason # "soft"
         \/ OrZero(selfsig.ctime) <= OrZero(rev.ctime) /\ Alive(rev, t)

(* revocation_status_intern(): the self revocations that verify, then      *)
(* those of others, which cannot be verified here.                         *)
Status(final, selfsig, t) ==
  LET Check(revs) == {r \in revs : Counts(r, final, selfsig, t)}
      own == Check({r \in Elements(self_revocations) : r.good})
      others == Check(Elements(other_revocations))
  IN  IF own # {} THEN [status |-> "Revoked", revs |-> own]
      ELSE IF others # {} THEN [status |-> "CouldBe", revs |-> others]
      ELSE [status |-> "NotAsFarAsWeKnow", revs |-> {}]

(* binding_signature(), and revocation_status() of a subkey (hard          *)
(* revocations are final) or of a User ID or attribute (they are not).     *)
Query(t, final) ==
  /\ sorted
  /\ \E i \in SearchStart(self_signatures, t) :
       LET found == Scan(self_signatures, i, t)
           status == Status(final, found.sig, t)
       IN  query' = [t |-> t, final |-> final, binding |-> found.sig,
                     err |-> found.err, revoked |-> status.status,
                     revs |-> status.revs]
  /\ UNCHANGED <<self_signatures, self_revocations, other_revocations, sorted>>

Next ==
  \/ Add
  \/ SortAndDedup
  \/ \E t \in Times, final \in BOOLEAN : Query(t, final)

Spec == Init /\ [][Next]_vars

-----------------------------------------------------------------------------
(* The types of the variables, and that after sort_and_dedup() no          *)
(* signature is there twice.                                               *)
TypeOK ==
  /\ self_signatures \in Seq(SelfSignatures)
  /\ self_revocations \in Seq(SelfRevocations)
  /\ other_revocations \in Seq(OtherRevocations)
  /\ sorted \in BOOLEAN
  /\ query.revoked \in {"none", "Revoked", "CouldBe", "NotAsFarAsWeKnow"}
  /\ sorted => InOrder(self_signatures)

Asked == query.revoked # "none"
Own == Elements(self_signatures)

(* The signatures that may bind the component at the time of the query:    *)
(* alive, accepted by the policy, and good with all they need.             *)
Acceptable ==
  {s \in Own : s.good /\ s.policy /\ Alive(s, query.t)
               /\ s.back \in {"unneeded", "good"}}

(* binding_signature() returns the most recent signature that may bind the *)
(* component, of several the one with the least MPIs, and nothing only if  *)
(* there is none.  The search goes over signatures that nobody has         *)
(* verified, yet no signature that is bad, rejected, expired, or from the  *)
(* future, changes the answer, wherever it was put.  (TypeOK: the vector   *)
(* it searches is sorted and has no signature twice.)                      *)
BindingIsNewest ==
  /\ TypeOK
  /\ Asked =>
       IF Acceptable = {} THEN query.binding = NoSignature /\ query.err # "none"
       ELSE /\ query.binding \in Acceptable
            /\ \A s \in Acceptable :
                 \/ s.ctime < query.binding.ctime
                 \/ s.ctime = query.binding.ctime /\ s.mpi >= query.binding.mpi

(* The revocations by the certificate itself that verify and that the      *)
(* policy accepts.                                                         *)
Revocations ==
  {r \in Elements(self_revocations) : r.good /\ r.policy}

(* For a key, a hard revocation is final: whenever it was made, whatever   *)
(* time is asked about, and whatever has been signed since.                *)
HardIsFinal ==
  Asked /\ query.final /\ (\E r \in Revocations : r.reason # "soft") =>
    query.revoked = "Revoked"

(* A soft revocation, or any revocation of a User ID, revokes the          *)
(* component from its creation until it expires, unless there is a newer   *)
(* binding, and nothing but a verified self revocation makes it Revoked.   *)
SoftUntilRebound ==
  Asked /\ (query.final => \A r \in Revocations : r.reason = "soft") =>
    (query.revoked = "Revoked" <=>
       \E r \in Revocations :
         Alive(r, query.t) /\ \A s \in Acceptable : s.ctime <= r.ctime)
=============================================================================
