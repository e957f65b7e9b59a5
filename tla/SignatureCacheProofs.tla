------------------------ MODULE SignatureCacheProofs ------------------------
(***************************************************************************)
(* Proofs about SignatureCache for every set of values and threads and     *)
(* every number of buckets.                                                *)
(***************************************************************************)
EXTENDS SignatureCache, FiniteSetTheorems, WellFoundedInduction, TLAPS

(* items.sort() and the loop: the next item of a restorer is the smallest  *)
(* value that it has left.                                                 *)
LEMMA NextItemLeast ==
  ASSUME NEW items \in SUBSET Value, items # {}
  PROVE  /\ NextItem(items) \in items
         /\ \A w \in items : NextItem(items) <= w
<1> DEFINE R == OpToRel(<, Nat)
<1>1. items \subseteq Nat
  BY ValueAssumption
<1>2. \A m, n \in Nat : <<m, n>> \in R <=> m < n
  BY DEF OpToRel
<1>3. IsWellFoundedOn(R, Nat)
  BY NatLessThanWellFounded
<1> HIDE DEF R
<1>4. PICK v \in items : \A w \in items : ~(<<w, v>> \in R)
  BY <1>1, <1>3, WFMin
<1>5. ASSUME NEW w \in items
      PROVE  v <= w
  <2>1. v \in Nat /\ w \in Nat
    BY <1>1
  <2>2. ~(<<w, v>> \in R)
    BY <1>4
  <2>3. ~(w < v)
    BY <1>2, <2>1, <2>2
  <2> QED BY <2>1, <2>3
<1> QED BY <1>5 DEF NextItem
-----------------------------------------------------------------------------
(* Type correctness. *)

(* Every step of every thread preserves the types. *)
LEMMA TypeStep == TypeOK /\ [Next]_vars => TypeOK'
<1> SUFFICES ASSUME TypeOK, [Next]_vars PROVE TypeOK'
  OBVIOUS
<1> USE ValueAssumption, BucketAssumption, ThreadAssumption DEF TypeOK, Buckets
<1>1. ASSUME NEW t \in Verifiers, NEW v \in Value, VerifyDigest(t, v)
      PROVE  TypeOK'
  BY <1>1 DEF VerifyDigest, cacheVars, restoreVars, dumpVars, histVars
<1>2. ASSUME NEW t \in Verifiers, PresentInList(t)
      PROVE  TypeOK'
  BY <1>2 DEF PresentInList, cacheVars, restoreVars, dumpVars, histVars
<1>3. ASSUME NEW t \in Verifiers, PresentInBucket(t)
      PROVE  TypeOK'
  BY <1>3 DEF PresentInBucket, cacheVars, restoreVars, dumpVars, histVars
<1>4. ASSUME NEW t \in Verifiers, KeyVerify(t)
      PROVE  TypeOK'
  BY <1>4 DEF KeyVerify, cacheVars, restoreVars, dumpVars, histVars
<1>5. ASSUME NEW t \in Verifiers, Insert(t)
      PROVE  TypeOK'
  <2>1. CASE vval[t] \in entries
    BY <1>5, <2>1 DEF Insert, restoreVars, dumpVars
  <2>2. CASE vval[t] \notin entries
    <3>1. vval[t] \in Value
      OBVIOUS
    <3>2. /\ entries' = entries \cup {vval[t]}
          /\ added' = added \cup {vval[t]}
          /\ insertions' \in Nat
      BY <1>5, <2>2 DEF Insert
    <3>3. entries' \subseteq Value /\ added' \subseteq entries'
      BY <1>5, <3>1, <3>2 DEF Insert
    <3>4. vpc' \in [Verifiers -> {"idle", "list", "bucket", "crypto",
                                  "insert", "ok", "bad"}]
      BY <1>5 DEF Insert
    <3> QED BY <1>5, <3>2, <3>3, <3>4 DEF Insert, restoreVars, dumpVars
  <2> QED BY <2>1, <2>2
<1>6. ASSUME NEW r \in Restorers, NEW saved \in Saved, Restore(r, saved)
      PROVE  TypeOK'
  BY <1>6 DEF Restore, cacheVars, verifyVars, dumpVars
<1>7. ASSUME NEW r \in Restorers, SetList(r)
      PROVE  TypeOK'
  <2>1. CASE listSet
    BY <1>7, <2>1 DEF SetList, verifyVars, dumpVars, histVars
  <2>2. CASE ~listSet
    <3>1. listSet' = TRUE /\ list' = rItems[r]
      BY <1>7, <2>2 DEF SetList
    <3>2. list' \subseteq Value
      BY <2>2, <3>1
    <3>3. rItems' \in [Restorers -> SUBSET Value]
      <4>1. rItems' = [rItems EXCEPT ![r] = {}]
        BY <1>7, <2>2 DEF SetList
      <4> QED BY <4>1
    <3> QED
      BY <1>7, <2>2, <3>1, <3>2, <3>3 DEF SetList, verifyVars, dumpVars, histVars
  <2> QED BY <2>1, <2>2
<1>8. ASSUME NEW r \in Restorers, LockFirstBucket(r)
      PROVE  TypeOK'
  BY <1>8 DEF LockFirstBucket, verifyVars, dumpVars, histVars
<1>9. ASSUME NEW r \in Restorers, RestoreItem(r)
      PROVE  TypeOK'
  <2> DEFINE v == NextItem(rItems[r])
  <2>1. rItems[r] \in SUBSET Value /\ rItems[r] # {}
    BY <1>9 DEF RestoreItem
  <2>2. v \in Value
    BY <2>1, NextItemLeast
  <2>3. /\ entries' = entries \cup {v}
        /\ rItems' = [rItems EXCEPT ![r] = @ \ {v}]
    BY <1>9 DEF RestoreItem
  <2> HIDE DEF v
  <2>4. rItems' \in [Restorers -> SUBSET Value]
    BY <2>1, <2>3
  <2>5. entries' \subseteq Value /\ added \subseteq entries'
    BY <2>2, <2>3
  <2> QED BY <1>9, <2>4, <2>5 DEF RestoreItem, verifyVars, dumpVars, histVars
<1>10. ASSUME NEW r \in Restorers, SwitchBucket(r)
       PROVE  TypeOK'
  BY <1>10, NextItemLeast DEF SwitchBucket, verifyVars, dumpVars, histVars
<1>11. ASSUME NEW r \in Restorers, FinishRestore(r)
       PROVE  TypeOK'
  BY <1>11 DEF FinishRestore, verifyVars, dumpVars, histVars
<1>12. ASSUME NEW d \in Dumpers, Dump(d)
       PROVE  TypeOK'
  BY <1>12 DEF Dump, cacheVars, verifyVars, restoreVars, histVars
<1>13. ASSUME NEW d \in Dumpers, DumpBucket(d)
       PROVE  TypeOK'
  <2> DEFINE batch == {v \in entries : Bucket(v) = dBucket[d]} \ dList[d]
             out == [v \in Value |-> IF v \in batch THEN dOut[d][v] + 1
                                                     ELSE dOut[d][v]]
  <2>1. /\ dOut' = [dOut EXCEPT ![d] = out]
        /\ dBucket' = [dBucket EXCEPT ![d] = @ + 1]
        /\ dBucket[d] < NBuckets
    BY <1>13 DEF DumpBucket
  <2>2. out \in [Value -> Nat]
    OBVIOUS
  <2> HIDE DEF out, batch
  <2>3. dOut' \in [Dumpers -> [Value -> Nat]]
    BY <2>1, <2>2
  <2>4. dBucket' \in [Dumpers -> 0 .. NBuckets]
    BY <2>1
  <2> QED
    BY <1>13, <2>3, <2>4
    DEF DumpBucket, cacheVars, verifyVars, restoreVars, histVars
<1>14. ASSUME NEW d \in Dumpers, DumpList(d)
       PROVE  TypeOK'
  BY <1>14 DEF DumpList, cacheVars, verifyVars, restoreVars, histVars
<1>15. CASE ClearInsertions
  BY <1>15 DEF ClearInsertions, verifyVars, restoreVars, dumpVars
<1>16. CASE UNCHANGED vars
  BY <1>16 DEF vars, cacheVars, verifyVars, restoreVars, dumpVars, histVars
<1> QED
  BY <1>1, <1>2, <1>3, <1>4, <1>5, <1>6, <1>7, <1>8, <1>9, <1>10, <1>11,
     <1>12, <1>13, <1>14, <1>15, <1>16
  DEF Next, Verify, RestoreStep, DumpStep

(* TypeOK is an invariant for every set of values and threads. *)
THEOREM TypeCorrect == Spec => []TypeOK
<1>1. Init => TypeOK
  <2> SUFFICES ASSUME Init PROVE TypeOK
    OBVIOUS
  <2>1. (CHOOSE v \in Value : TRUE) \in Value
    BY ValueAssumption
  <2>2. vval \in [Verifiers -> Value]
    BY <2>1 DEF Init
  <2>3. 0 \in 0 .. NBuckets /\ 0 \in 0 .. NBuckets - 1
    BY BucketAssumption
  <2>4. /\ writer \in [Buckets -> Restorers \cup {Nobody}]
        /\ rBucket \in [Restorers -> Buckets]
        /\ dBucket \in [Dumpers -> 0 .. NBuckets]
    BY <2>3 DEF Init, Buckets
  <2>5. /\ rItems \in [Restorers -> SUBSET Value]
        /\ dList \in [Dumpers -> SUBSET Value]
        /\ dOut \in [Dumpers -> [Value -> Nat]]
        /\ dStart \in [Dumpers -> SUBSET Value]
    BY DEF Init
  <2> QED BY <2>2, <2>4, <2>5 DEF Init, TypeOK
<1> QED BY <1>1, TypeStep, PTL DEF Spec
-----------------------------------------------------------------------------
(* Soundness of the cache. *)

(* OnlyTrusted is not inductive: a verifier about to insert must hold a    *)
(* valid value, and what a restorer has left must have been asked for.     *)
TrustInv ==
  /\ OnlyTrusted
  /\ \A t \in Verifiers : vpc[t] = "insert" => vval[t] \in Valid
  /\ \A r \in Restorers : rItems[r] \subseteq restored

(* Lookups, insertions and restores, in any order, keep TrustInv. *)
LEMMA TrustStep == TypeOK /\ TrustInv /\ [Next]_vars => TrustInv'
<1> SUFFICES ASSUME TypeOK, TrustInv, [Next]_vars PROVE TrustInv'
  OBVIOUS
<1> USE DEF TrustInv, OnlyTrusted
<1>1. ASSUME NEW t \in Verifiers, NEW v \in Value, VerifyDigest(t, v)
      PROVE  TrustInv'
  BY <1>1 DEF VerifyDigest, cacheVars, restoreVars, histVars, TypeOK
<1>2. ASSUME NEW t \in Verifiers, PresentInList(t)
      PROVE  TrustInv'
  BY <1>2 DEF PresentInList, cacheVars, restoreVars, histVars, TypeOK
<1>3. ASSUME NEW t \in Verifiers, PresentInBucket(t)
      PROVE  TrustInv'
  BY <1>3 DEF PresentInBucket, cacheVars, restoreVars, histVars, TypeOK
<1>4. ASSUME NEW t \in Verifiers, KeyVerify(t)
      PROVE  TrustInv'
  BY <1>4 DEF KeyVerify, cacheVars, restoreVars, histVars, TypeOK
<1>5. ASSUME NEW t \in Verifiers, Insert(t)
      PROVE  TrustInv'
  BY <1>5 DEF Insert, restoreVars, TypeOK
<1>6. ASSUME NEW r \in Restorers, NEW saved \in Saved, Restore(r, saved)
      PROVE  TrustInv'
  BY <1>6 DEF Restore, cacheVars, verifyVars, TypeOK
<1>7. ASSUME NEW r \in Restorers, SetList(r)
      PROVE  TrustInv'
  BY <1>7 DEF SetList, verifyVars, histVars, TypeOK
<1>8. ASSUME NEW r \in Restorers, LockFirstBucket(r)
      PROVE  TrustInv'
  BY <1>8 DEF LockFirstBucket, verifyVars, histVars
<1>9. ASSUME NEW r \in Restorers, RestoreItem(r)
      PROVE  TrustInv'
  <2> DEFINE v == NextItem(rItems[r])
  <2>1. rItems[r] \in SUBSET Value /\ rItems[r] # {}
    BY <1>9 DEF RestoreItem, TypeOK
  <2>2. v \in restored
    BY <2>1, NextItemLeast
  <2>3. entries' = entries \cup {v} /\ rItems' = [rItems EXCEPT ![r] = @ \ {v}]
    BY <1>9 DEF RestoreItem
  <2> HIDE DEF v
  <2> QED BY <1>9, <2>2, <2>3 DEF RestoreItem, verifyVars, histVars, TypeOK
<1>10. ASSUME NEW r \in Restorers, SwitchBucket(r)
       PROVE  TrustInv'
  BY <1>10 DEF SwitchBucket, verifyVars, histVars
<1>11. ASSUME NEW r \in Restorers, FinishRestore(r)
       PROVE  TrustInv'
  BY <1>11 DEF FinishRestore, verifyVars, histVars
<1>12. ASSUME NEW d \in Dumpers, Dump(d) \/ DumpStep(d)
       PROVE  TrustInv'
  BY <1>12 DEF Dump, DumpStep, DumpBucket, DumpList, cacheVars, verifyVars,
               restoreVars, histVars
<1>13. CASE ClearInsertions \/ UNCHANGED vars
  BY <1>13 DEF ClearInsertions, vars, cacheVars, verifyVars, restoreVars,
               histVars
<1> QED
  BY <1>1, <1>2, <1>3, <1>4, <1>5, <1>6, <1>7, <1>8, <1>9, <1>10, <1>11,
     <1>12, <1>13
  DEF Next, Verify, RestoreStep, DumpStep

(* A cached verification never succeeds for a signature that is neither    *)
(* valid nor restored by the program, for any number of threads.           *)
THEOREM CacheSound == Spec => []OnlyTrusted
<1>1. Init => TrustInv
  BY DEF Init, TrustInv, OnlyTrusted
<1>2. TrustInv => OnlyTrusted
  BY DEF TrustInv
<1> QED BY <1>1, <1>2, TrustStep, TypeCorrect, PTL DEF Spec

-----------------------------------------------------------------------------
(* The locks of concurrent restores. *)

LockInv == GuardScope /\ RestoreAscends

(* Only restorers keep bucket locks, and each moves its lock upwards. *)
LEMMA LockStep == TypeOK /\ LockInv /\ [Next]_vars => LockInv'
<1> SUFFICES ASSUME TypeOK, LockInv, [Next]_vars PROVE LockInv'
  OBVIOUS
<1> USE DEF LockInv, GuardScope, RestoreAscends, Holds
<1>1. ASSUME NEW t \in Verifiers, NEW v \in Value, VerifyDigest(t, v)
      PROVE  LockInv'
  BY <1>1 DEF VerifyDigest, cacheVars, restoreVars
<1>2. ASSUME NEW t \in Verifiers, PresentInList(t)
      PROVE  LockInv'
  BY <1>2 DEF PresentInList, cacheVars, restoreVars
<1>3. ASSUME NEW t \in Verifiers, PresentInBucket(t)
      PROVE  LockInv'
  BY <1>3 DEF PresentInBucket, cacheVars, restoreVars
<1>4. ASSUME NEW t \in Verifiers, KeyVerify(t)
      PROVE  LockInv'
  BY <1>4 DEF KeyVerify, cacheVars, restoreVars
<1>5. ASSUME NEW t \in Verifiers, Insert(t)
      PROVE  LockInv'
  BY <1>5 DEF Insert, restoreVars
<1>6. ASSUME NEW r \in Restorers, NEW saved \in Saved, Restore(r, saved)
      PROVE  LockInv'
  BY <1>6 DEF Restore, cacheVars, TypeOK
<1>7. ASSUME NEW r \in Restorers, SetList(r)
      PROVE  LockInv'
  <2>1. /\ writer' = writer /\ rBucket' = rBucket
        /\ \A s \in Restorers : /\ (rpc'[s] = "loop") <=> (rpc[s] = "loop")
                               /\ rItems'[s] \subseteq rItems[s]
    BY <1>7 DEF SetList, TypeOK
  <2> QED BY <2>1
<1>8. ASSUME NEW r \in Restorers, LockFirstBucket(r)
      PROVE  LockInv'
  <2>1. 0 \in Buckets
    BY BucketAssumption DEF Buckets
  <2>2. GuardScope'
    BY <1>8, <2>1, ThreadAssumption DEF LockFirstBucket, Unlocked, TypeOK
  <2>3. \A v \in rItems[r] : Bucket(v) >= 0
    BY BucketAssumption DEF TypeOK
  <2>4. RestoreAscends'
    BY <1>8, <2>3 DEF LockFirstBucket, TypeOK
  <2> QED BY <2>2, <2>4
<1>9. ASSUME NEW r \in Restorers, RestoreItem(r)
      PROVE  LockInv'
  <2>1. /\ writer' = writer /\ rpc' = rpc /\ rBucket' = rBucket
        /\ \A s \in Restorers : rItems'[s] \subseteq rItems[s]
    BY <1>9 DEF RestoreItem, TypeOK
  <2> QED BY <2>1
<1>10. ASSUME NEW r \in Restorers, SwitchBucket(r)
       PROVE  LockInv'
  <2> DEFINE v == NextItem(rItems[r])
             b == Bucket(v)
  <2>1. rItems[r] \in SUBSET Value /\ rItems[r] # {}
    BY <1>10 DEF SwitchBucket, TypeOK
  <2>2. v \in rItems[r] /\ \A w \in rItems[r] : v <= w
    BY <2>1, NextItemLeast
  <2>3. b \in Buckets /\ \A w \in rItems[r] : Bucket(w) >= b
    BY <2>1, <2>2, BucketAssumption DEF Buckets
  <2>4. /\ rpc[r] = "loop" /\ b # rBucket[r] /\ writer[b] = Nobody
        /\ writer' = [writer EXCEPT ![rBucket[r]] = Nobody, ![b] = r]
        /\ rBucket' = [rBucket EXCEPT ![r] = b]
        /\ rpc' = rpc /\ rItems' = rItems
    BY <1>10 DEF SwitchBucket, Unlocked
  <2> HIDE DEF b, v
  <2>5. GuardScope'
    BY <2>3, <2>4, ThreadAssumption DEF TypeOK
  <2>6. RestoreAscends'
    BY <2>3, <2>4 DEF TypeOK
  <2> QED BY <2>5, <2>6
<1>11. ASSUME NEW r \in Restorers, FinishRestore(r)
       PROVE  LockInv'
  BY <1>11, ThreadAssumption DEF FinishRestore, TypeOK
<1>12. ASSUME NEW d \in Dumpers, Dump(d) \/ DumpStep(d)
       PROVE  LockInv'
  BY <1>12 DEF Dump, DumpStep, DumpBucket, DumpList, cacheVars, restoreVars
<1>13. CASE ClearInsertions \/ UNCHANGED vars
  BY <1>13 DEF ClearInsertions, vars, cacheVars, restoreVars
<1> QED
  BY <1>1, <1>2, <1>3, <1>4, <1>5, <1>6, <1>7, <1>8, <1>9, <1>10, <1>11,
     <1>12, <1>13
  DEF Next, Verify, RestoreStep, DumpStep

(* The loop's assertion holds and its guards are scoped, hence concurrent  *)
(* restores wait for each other only upwards, for any number of buckets    *)
(* and restorers.                                                          *)
THEOREM RestoreLocks == Spec => []LockOrder
<1>1. Init => LockInv
  BY ThreadAssumption DEF Init, LockInv, GuardScope, RestoreAscends, Holds
<1>2. TypeOK /\ LockInv => WaitsClimb
  <2> SUFFICES ASSUME TypeOK, LockInv,
                      NEW r \in Restorers, NEW s \in Restorers,
                      NEW b \in Buckets, NEW c \in Buckets,
                      Wants(r, b), Holds(s, b), Holds(r, c)
               PROVE  c < b
    BY DEF WaitsClimb
  <2>1. rpc[r] = "loop" /\ c = rBucket[r]
    BY DEF LockInv, GuardScope
  <2>2. /\ rItems[r] # {} /\ b = Bucket(NextItem(rItems[r])) /\ b # c
    BY <2>1 DEF Wants
  <2>3. NextItem(rItems[r]) \in rItems[r]
    BY <2>2, NextItemLeast DEF TypeOK
  <2>4. b >= c
    BY <2>1, <2>2, <2>3 DEF LockInv, RestoreAscends
  <2> QED BY <2>2, <2>4 DEF Buckets
<1>3. LockInv /\ WaitsClimb => LockOrder
  BY DEF LockInv, LockOrder
<1> QED BY <1>1, <1>2, <1>3, LockStep, TypeCorrect, PTL DEF Spec
-----------------------------------------------------------------------------
(* Dumps. *)

(* What a dump has yielded so far: nothing of its clone of the list and of *)
(* the buckets ahead of it, each value at most once, and everything of the *)
(* buckets behind it that was cached when the dump began.                  *)
DumpInv ==
  \A d \in Dumpers :
    /\ dpc[d] = "idle" => dBucket[d] = 0
    /\ \A v \in Value : dOut[d][v] <= 1
    /\ dpc[d] # "done" =>
         \A v \in Value : v \in dList[d] \/ Bucket(v) >= dBucket[d]
                           => dOut[d][v] = 0
    /\ dpc[d] = "buckets" =>
         \A v \in dStart[d] : /\ v \in dList[d] \/ v \in entries
                              /\ \/ v \in dList[d]
                                 \/ Bucket(v) >= dBucket[d]
                                 \/ dOut[d][v] >= 1
    /\ dpc[d] = "done" => \A v \in dStart[d] : dOut[d][v] >= 1

(* No step of another thread takes anything away that a dump counts on:    *)
(* entries are never removed from a bucket.                                *)
LEMMA EntriesGrow == TypeOK /\ [Next]_vars => entries \subseteq entries'
<1> SUFFICES ASSUME TypeOK, [Next]_vars PROVE entries \subseteq entries'
  OBVIOUS
<1> USE DEF cacheVars
<1>1. ASSUME NEW t \in Verifiers, NEW v \in Value, VerifyDigest(t, v)
      PROVE  entries \subseteq entries'
  BY <1>1 DEF VerifyDigest
<1>2. ASSUME NEW t \in Verifiers, Verify(t)
      PROVE  entries \subseteq entries'
  BY <1>2 DEF Verify, PresentInList, PresentInBucket, KeyVerify, Insert
<1>3. ASSUME NEW r \in Restorers, NEW saved \in Saved, Restore(r, saved)
      PROVE  entries \subseteq entries'
  BY <1>3 DEF Restore
<1>4. ASSUME NEW r \in Restorers, RestoreStep(r)
      PROVE  entries \subseteq entries'
  BY <1>4 DEF RestoreStep, SetList, LockFirstBucket, RestoreItem, SwitchBucket,
              FinishRestore
<1>5. ASSUME NEW d \in Dumpers, Dump(d) \/ DumpStep(d)
      PROVE  entries \subseteq entries'
  BY <1>5 DEF Dump, DumpStep, DumpBucket, DumpList
<1>6. CASE ClearInsertions \/ UNCHANGED vars
  BY <1>6 DEF ClearInsertions, vars
<1> QED BY <1>1, <1>2, <1>3, <1>4, <1>5, <1>6 DEF Next

(* Steps of the other threads, and of the dump itself, keep DumpInv. *)
LEMMA DumpInvStep == TypeOK /\ DumpInv /\ [Next]_vars => DumpInv'
<1> SUFFICES ASSUME TypeOK, DumpInv, [Next]_vars PROVE DumpInv'
  OBVIOUS
<1>0. entries \subseteq entries' /\ entries \subseteq Value
  BY EntriesGrow DEF TypeOK
<1>1. ASSUME UNCHANGED dumpVars
      PROVE  DumpInv'
  BY <1>0, <1>1 DEF DumpInv, dumpVars
<1>2. ASSUME NEW d \in Dumpers, Dump(d)
      PROVE  DumpInv'
  <2>1. /\ dpc[d] = "idle"
        /\ dpc' = [dpc EXCEPT ![d] = "buckets"]
        /\ dList' = [dList EXCEPT ![d] = list]
        /\ dStart' = [dStart EXCEPT ![d] = list \cup entries]
        /\ entries' = entries /\ dOut' = dOut /\ dBucket' = dBucket
    BY <1>2 DEF Dump, cacheVars
  <2>2. \A v \in Value : dOut[d][v] = 0 /\ Bucket(v) >= dBucket[d]
    BY <2>1, BucketAssumption DEF DumpInv
  <2>3. list \subseteq Value
    BY DEF TypeOK
  <2> QED BY <1>0, <2>1, <2>2, <2>3 DEF DumpInv, TypeOK
<1>3. ASSUME NEW d \in Dumpers, DumpBucket(d)
      PROVE  DumpInv'
  <2> DEFINE batch == {v \in entries : Bucket(v) = dBucket[d]} \ dList[d]
             out == [v \in Value |-> IF v \in batch THEN dOut[d][v] + 1
                                                     ELSE dOut[d][v]]
  <2>1. /\ dpc[d] = "buckets" /\ dpc' = dpc
        /\ dOut' = [dOut EXCEPT ![d] = out]
        /\ dBucket' = [dBucket EXCEPT ![d] = @ + 1]
        /\ entries' = entries /\ dList' = dList /\ dStart' = dStart
    BY <1>3 DEF DumpBucket, cacheVars
  <2>2. \A v \in Value :
          /\ Bucket(v) \in Nat /\ dBucket[d] \in Nat /\ dOut[d][v] \in Nat
          /\ Bucket(v) >= dBucket[d] <=>
               Bucket(v) = dBucket[d] \/ Bucket(v) >= dBucket[d] + 1
    <3>1. dBucket[d] \in Nat /\ dOut[d] \in [Value -> Nat]
      BY BucketAssumption DEF TypeOK
    <3>2. \A v \in Value : Bucket(v) \in Nat
      BY BucketAssumption
    <3> QED BY <3>1, <3>2
  <2>3. \A v \in Value :
          /\ v \in batch => out[v] = 1
          /\ v \notin batch => out[v] = dOut[d][v]
    BY <2>1, <2>2 DEF DumpInv
  <2>4. \A v \in Value :
          v \in batch <=> /\ v \in entries /\ v \notin dList[d]
                         /\ Bucket(v) = dBucket[d]
    OBVIOUS
  <2> HIDE DEF out, batch
  <2>5. /\ dOut'[d] = out /\ dBucket'[d] = dBucket[d] + 1
        /\ \A e \in Dumpers \ {d} : dOut'[e] = dOut[e] /\ dBucket'[e] = dBucket[e]
    BY <2>1 DEF TypeOK
  <2>6. dStart[d] \subseteq Value
    BY DEF TypeOK
  <2>7. \A v \in Value : out[v] <= 1
    BY <2>2, <2>3 DEF DumpInv
  <2>8. \A v \in Value : v \in dList[d] \/ Bucket(v) >= dBucket[d] + 1
                         => out[v] = 0
    BY <2>1, <2>2, <2>3, <2>4 DEF DumpInv
  <2>9. \A v \in dStart[d] : /\ v \in dList[d] \/ v \in entries
                             /\ \/ v \in dList[d]
                                \/ Bucket(v) >= dBucket[d] + 1
                                \/ out[v] >= 1
    BY <2>1, <2>2, <2>3, <2>4, <2>6 DEF DumpInv
  <2>10. ASSUME NEW e \in Dumpers
         PROVE  /\ dpc'[e] = "idle" => dBucket'[e] = 0
                /\ \A v \in Value : dOut'[e][v] <= 1
                /\ dpc'[e] # "done" =>
                     \A v \in Value : v \in dList'[e] \/ Bucket(v) >= dBucket'[e]
                                       => dOut'[e][v] = 0
                /\ dpc'[e] = "buckets" =>
                     \A v \in dStart'[e] : /\ v \in dList'[e] \/ v \in entries'
                                           /\ \/ v \in dList'[e]
                                              \/ Bucket(v) >= dBucket'[e]
                                              \/ dOut'[e][v] >= 1
                /\ dpc'[e] = "done" => \A v \in dStart'[e] : dOut'[e][v] >= 1
    <3>1. CASE e = d
      BY <3>1, <2>1, <2>5, <2>7, <2>8, <2>9
    <3>2. CASE e # d
      BY <3>2, <2>1, <2>5 DEF DumpInv
    <3> QED BY <3>1, <3>2
  <2> QED BY <2>10 DEF DumpInv
<1>4. ASSUME NEW d \in Dumpers, DumpList(d)
      PROVE  DumpInv'
  <2> DEFINE out == [v \in Value |-> IF v \in dList[d] THEN dOut[d][v] + 1
                                                       ELSE dOut[d][v]]
  <2>1. /\ dpc[d] = "buckets" /\ dBucket[d] = NBuckets
        /\ dpc' = [dpc EXCEPT ![d] = "done"]
        /\ dOut' = [dOut EXCEPT ![d] = out]
        /\ dBucket' = dBucket /\ dList' = dList /\ dStart' = dStart
        /\ entries' = entries
    BY <1>4 DEF DumpList, cacheVars
  <2>2. \A v \in Value : ~(Bucket(v) >= NBuckets) /\ dOut[d][v] \in Nat
    BY BucketAssumption DEF TypeOK
  <2>3. \A v \in Value :
          /\ v \in dList[d] => out[v] = 1
          /\ v \notin dList[d] => out[v] = dOut[d][v]
    BY <2>1, <2>2 DEF DumpInv
  <2> HIDE DEF out
  <2>4. dStart[d] \subseteq Value
    BY DEF TypeOK
  <2>5. /\ \A v \in Value : out[v] <= 1
        /\ \A v \in dStart[d] : out[v] >= 1
    BY <2>1, <2>2, <2>3, <2>4 DEF DumpInv
  <2>6. /\ dOut'[d] = out /\ dpc'[d] = "done"
        /\ \A e \in Dumpers \ {d} : dOut'[e] = dOut[e] /\ dpc'[e] = dpc[e]
    BY <2>1 DEF TypeOK
  <2> QED BY <2>1, <2>5, <2>6 DEF DumpInv
<1>5. ASSUME NEW t \in Verifiers, NEW v \in Value, VerifyDigest(t, v)
      PROVE  UNCHANGED dumpVars
  BY <1>5 DEF VerifyDigest
<1>6. ASSUME NEW t \in Verifiers, Verify(t)
      PROVE  UNCHANGED dumpVars
  BY <1>6 DEF Verify, PresentInList, PresentInBucket, KeyVerify, Insert
<1>7. ASSUME NEW r \in Restorers, NEW saved \in Saved, Restore(r, saved)
      PROVE  UNCHANGED dumpVars
  BY <1>7 DEF Restore
<1>8. ASSUME NEW r \in Restorers, RestoreStep(r)
      PROVE  UNCHANGED dumpVars
  BY <1>8 DEF RestoreStep, SetList, LockFirstBucket, RestoreItem, SwitchBucket,
              FinishRestore
<1>9. CASE ClearInsertions \/ UNCHANGED vars
  BY <1>1, <1>9 DEF ClearInsertions, vars
<1> QED
  BY <1>1, <1>2, <1>3, <1>4, <1>5, <1>6, <1>7, <1>8, <1>9 DEF Next, DumpStep

(* A dump yields everything that was cached when it began and nothing      *)
(* twice, whatever is verified and restored while it runs.                 *)
THEOREM DumpExact == Spec => []DumpExactly
<1>1. Init => DumpInv
  <2> SUFFICES ASSUME Init, NEW d \in Dumpers PROVE DumpInv!(d)
    BY DEF DumpInv
  <2> QED BY DEF Init
<1>2. DumpInv => DumpExactly
  BY DEF DumpInv, DumpExactly, DumpNoDuplicates, DumpComplete
<1> QED BY <1>1, <1>2, DumpInvStep, TypeCorrect, PTL DEF Spec

-----------------------------------------------------------------------------
(* The insertions counter. *)

CountInv == IsFiniteSet(added) /\ insertions = Cardinality(added)

(* Only Insert and ClearInsertions touch the counter. *)
LEMMA CountStep == TypeOK /\ CountInv /\ [Next]_vars => CountInv'
<1> SUFFICES ASSUME TypeOK, CountInv, [Next]_vars PROVE CountInv'
  OBVIOUS
<1>1. ASSUME insertions' = insertions, added' = added
      PROVE  CountInv'
  BY <1>1 DEF CountInv
<1>2. ASSUME NEW t \in Verifiers, Insert(t)
      PROVE  CountInv'
  <2>1. CASE vval[t] \in entries
    BY <1>1, <1>2, <2>1 DEF Insert
  <2>2. CASE vval[t] \notin entries
    <3>1. /\ vval[t] \notin added
          /\ added' = added \cup {vval[t]} /\ insertions' = insertions + 1
      BY <1>2, <2>2 DEF Insert, TypeOK
    <3>2. /\ IsFiniteSet(added')
          /\ Cardinality(added') = Cardinality(added) + 1
      BY <3>1, FS_AddElement DEF CountInv
    <3> QED BY <3>1, <3>2 DEF CountInv
  <2> QED BY <2>1, <2>2
<1>3. CASE ClearInsertions
  BY <1>3, FS_EmptySet DEF ClearInsertions, CountInv
<1>4. ASSUME NEW t \in Verifiers, NEW v \in Value, VerifyDigest(t, v)
      PROVE  insertions' = insertions /\ added' = added
  BY <1>4 DEF VerifyDigest, cacheVars, histVars
<1>5. ASSUME NEW t \in Verifiers,
             PresentInList(t) \/ PresentInBucket(t) \/ KeyVerify(t)
      PROVE  insertions' = insertions /\ added' = added
  BY <1>5 DEF PresentInList, PresentInBucket, KeyVerify, cacheVars, histVars
<1>6. ASSUME NEW r \in Restorers, NEW saved \in Saved, Restore(r, saved)
      PROVE  insertions' = insertions /\ added' = added
  BY <1>6 DEF Restore, cacheVars
<1>7. ASSUME NEW r \in Restorers, RestoreStep(r)
      PROVE  insertions' = insertions /\ added' = added
  BY <1>7 DEF RestoreStep, SetList, LockFirstBucket, RestoreItem, SwitchBucket,
              FinishRestore, histVars
<1>8. ASSUME NEW d \in Dumpers, Dump(d) \/ DumpStep(d)
      PROVE  insertions' = insertions /\ added' = added
  BY <1>8 DEF Dump, DumpStep, DumpBucket, DumpList, cacheVars, histVars
<1>9. CASE UNCHANGED vars
  BY <1>1, <1>9 DEF vars, cacheVars, histVars
<1> QED
  BY <1>1, <1>2, <1>3, <1>4, <1>5, <1>6, <1>7, <1>8, <1>9 DEF Next, Verify

(* The counter is exact however many threads insert the same value. *)
THEOREM InsertionsCounted == Spec => []InsertionsExact
<1>1. Init => CountInv
  BY FS_EmptySet DEF Init, CountInv
<1>2. CountInv => InsertionsExact
  BY DEF CountInv, InsertionsExact
<1> QED BY <1>1, <1>2, CountStep, TypeCorrect, PTL DEF Spec
=============================================================================
