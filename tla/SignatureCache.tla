--------------------------- MODULE SignatureCache ---------------------------
(***************************************************************************)
(* The process-wide signature verification cache of                        *)
(* openpgp/src/packet/signature/cache.rs, with the code that consults it   *)
(* (verify_digest_internal in openpgp/src/packet/signature.rs).            *)
(*                                                                         *)
(* Threads that verify signatures, threads that restore a saved cache, and *)
(* threads that dump the cache all share                                   *)
(*   - a list that is written at most once (a OnceLock), and               *)
(*   - an array of buckets, each a map behind its own RwLock.              *)
(*                                                                         *)
(* A cache value is the hash of everything a verification depends on; here *)
(* it is a natural number, because the code orders values and derives the  *)
(* bucket from the most significant bits.  What no code reads to decide    *)
(* anything is left out: the statistics hits, misses and preloads, and the *)
(* flags inserted and accessed of an entry.                                *)
(***************************************************************************)
EXTENDS Integers, FiniteSets

CONSTANTS
  Value,        \* the possible cache values
  Valid,        \* those whose signature is cryptographically valid
  Malformed,    \* what stands for a saved entry of the wrong length
  Saved,        \* the cache files restore() may be given, sets of entries
  NBuckets,     \* BUCKETS
  Bucket(_),    \* the most significant bits of a value
  Verifiers,    \* threads verifying signatures
  Restorers,    \* calls of restore(), each in a thread of its own
  Dumpers,      \* iterators returned by dump()
  Nobody        \* no thread

ASSUME ValueAssumption ==
  /\ Value \subseteq Nat
  /\ Valid \subseteq Value
  /\ Value # {}
  /\ Malformed \notin Value
  /\ Saved \subseteq SUBSET (Value \cup {Malformed})

ASSUME BucketAssumption ==
  /\ NBuckets \in Nat \ {0}
  /\ \A v \in Value : Bucket(v) \in 0 .. NBuckets - 1
  /\ \A v, w \in Value : v <= w => Bucket(v) <= Bucket(w)

ASSUME ThreadAssumption == Nobody \notin Restorers

VARIABLES
  listSet,      \* whether the OnceLock has been set
  list,         \* the values of the list
  entries,      \* the values that are keys of some bucket
  insertions,   \* the insertions counter
  writer,       \* per bucket, the restorer that holds its write lock
  vpc, vval,    \* verifiers: where they are, and the value they look for
  rpc,          \* restorers: where they are
  rItems,       \* the values a restorer has yet to store
  rBucket,      \* bucket_i, the bucket whose lock it holds
  dpc,          \* dumpers: where they are
  dBucket,      \* the next bucket to dump
  dList,        \* the clone of the list
  dOut          \* how often each value has been yielded

(* History variables: what happened, for the properties only. *)
VARIABLES
  restored,     \* values some caller asked to restore
  added,        \* values inserted by verifications since clear_insertions
  dStart        \* per dumper, what was cached when it was created

cacheVars   == <<listSet, list, entries, insertions, writer>>
verifyVars  == <<vpc, vval>>
restoreVars == <<rpc, rItems, rBucket>>
dumpVars    == <<dpc, dBucket, dList, dOut, dStart>>
histVars    == <<restored, added>>
vars        == <<cacheVars, verifyVars, restoreVars, dumpVars, histVars>>

Buckets == 0 .. NBuckets - 1

(* The bucket's RwLock can be taken when no restorer keeps it locked.  All *)
(* other critical sections take one lock, and are one action here.         *)
Unlocked(b) == writer[b] = Nobody

-----------------------------------------------------------------------------
(* Verification. *)

(* Entry::new: the verifier computes the cache value of its signature. *)
VerifyDigest(t, v) ==
  /\ vpc[t] \in {"idle", "ok", "bad"}
  /\ vpc' = [vpc EXCEPT ![t] = "list"]
  /\ vval' = [vval EXCEPT ![t] = v]
  /\ UNCHANGED <<cacheVars, restoreVars, dumpVars, histVars>>

(* present(), first half: the binary search in the list. *)
PresentInList(t) ==
  /\ vpc[t] = "list"
  /\ IF listSet /\ vval[t] \in list
     THEN vpc' = [vpc EXCEPT ![t] = "ok"]
     ELSE vpc' = [vpc EXCEPT ![t] = "bucket"]
  /\ UNCHANGED <<cacheVars, vval, restoreVars, dumpVars, histVars>>

(* present(), second half: the lookup under the bucket's read lock. *)
PresentInBucket(t) ==
  /\ vpc[t] = "bucket"
  /\ Unlocked(Bucket(vval[t]))
  /\ IF vval[t] \in entries
     THEN vpc' = [vpc EXCEPT ![t] = "ok"]
     ELSE vpc' = [vpc EXCEPT ![t] = "crypto"]
  /\ UNCHANGED <<cacheVars, vval, restoreVars, dumpVars, histVars>>

(* Mutant of KeyVerify: the result is cached whether it is good or bad. *)
KeyVerifyCachesBad(t) ==
  /\ vpc[t] = "crypto"
  /\ vpc' = [vpc EXCEPT ![t] = "insert"]
  /\ UNCHANGED <<cacheVars, vval, restoreVars, dumpVars, histVars>>

(* key.verify(), then Entry::insert, which does not cache a negative       *)
(* result.  If Entry::new() fails, the signature is verified without the   *)
(* cache, which touches nothing that is modelled.                          *)
KeyVerify(t) ==
  /\ vpc[t] = "crypto"
  /\ vpc' = [vpc EXCEPT ![t] = IF vval[t] \in Valid THEN "insert" ELSE "bad"]
  /\ UNCHANGED <<cacheVars, vval, restoreVars, dumpVars, histVars>>

(* Mutant of Insert: an insertion is counted even if the slot is occupied. *)
InsertCountsOccupied(t) ==
  /\ vpc[t] = "insert"
  /\ Unlocked(Bucket(vval[t]))
  /\ entries' = entries \cup {vval[t]}
  /\ insertions' = insertions + 1
  /\ added' = IF vval[t] \in entries THEN added ELSE added \cup {vval[t]}
  /\ vpc' = [vpc EXCEPT ![t] = "ok"]
  /\ UNCHANGED <<listSet, list, writer, vval, restoreVars, dumpVars, restored>>

(* insert(), under the bucket's write lock: only a vacant slot is filled.  *)
(* The verification then reports success.                                  *)
Insert(t) ==
  /\ vpc[t] = "insert"
  /\ Unlocked(Bucket(vval[t]))
  /\ IF vval[t] \notin entries
     THEN /\ entries' = entries \cup {vval[t]}
          /\ insertions' = insertions + 1
          /\ added' = added \cup {vval[t]}
     ELSE UNCHANGED <<entries, insertions, added>>
  /\ vpc' = [vpc EXCEPT ![t] = "ok"]
  /\ UNCHANGED <<listSet, list, writer, vval, restoreVars, dumpVars, restored>>

(* clear_insertions(), which any thread may call. *)
ClearInsertions ==
  /\ insertions' = 0
  /\ added' = {}
  /\ UNCHANGED <<listSet, list, entries, writer, verifyVars, restoreVars,
                 dumpVars, restored>>

-----------------------------------------------------------------------------
(* Restoring a saved cache. *)

(* restore() is called: its thread reads the saved entries and drops those *)
(* that do not have the length of a value.                                 *)
Restore(r, saved) ==
  /\ rpc[r] = "idle"
  /\ rpc' = [rpc EXCEPT ![r] = "set"]
  /\ rItems' = [rItems EXCEPT ![r] = saved \ {Malformed}]
  /\ restored' = restored \cup (saved \ {Malformed})
  /\ UNCHANGED <<cacheVars, verifyVars, rBucket, dumpVars, added>>

(* list.set(): the first restorer installs its items and is finished, the  *)
(* others go on to the buckets.                                            *)
SetList(r) ==
  /\ rpc[r] = "set"
  /\ IF listSet
     THEN /\ rpc' = [rpc EXCEPT ![r] = "first"]
          /\ UNCHANGED <<listSet, list, rItems>>
     ELSE /\ listSet' = TRUE
          /\ list' = rItems[r]
          /\ rItems' = [rItems EXCEPT ![r] = {}]
          /\ rpc' = [rpc EXCEPT ![r] = "finished"]
  /\ UNCHANGED <<entries, insertions, writer, verifyVars, rBucket, dumpVars,
                 histVars>>

(* The lock of bucket 0 is taken before the loop, whatever the items are. *)
LockFirstBucket(r) ==
  /\ rpc[r] = "first"
  /\ Unlocked(0)
  /\ writer' = [writer EXCEPT ![0] = r]
  /\ rBucket' = [rBucket EXCEPT ![r] = 0]
  /\ rpc' = [rpc EXCEPT ![r] = "loop"]
  /\ UNCHANGED <<listSet, list, entries, insertions, verifyVars, rItems,
                 dumpVars, histVars>>

(* Mutant of NextItem: the items are not sorted. *)
NextItemUnsorted(items) == CHOOSE v \in items : \A w \in items : v >= w

(* items.sort(): the loop sees the items in ascending order. *)
NextItem(items) == CHOOSE v \in items : \A w \in items : v <= w

(* One iteration of the loop for an item of the bucket that is locked: the *)
(* item replaces any entry of the same value.                              *)
RestoreItem(r) ==
  LET v == NextItem(rItems[r])
  IN  /\ rpc[r] = "loop"
      /\ rItems[r] # {}
      /\ Bucket(v) = rBucket[r]
      /\ entries' = entries \cup {v}
      /\ rItems' = [rItems EXCEPT ![r] = @ \ {v}]
      /\ UNCHANGED <<listSet, list, insertions, writer, verifyVars, rpc,
                     rBucket, dumpVars, histVars>>

(* The next item is in another bucket: its lock is acquired while the old  *)
(* guard is alive, and only then is the old guard dropped.                 *)
SwitchBucket(r) ==
  LET b == Bucket(NextItem(rItems[r]))
  IN  /\ rpc[r] = "loop"
      /\ rItems[r] # {}
      /\ b # rBucket[r]
      /\ Unlocked(b)
      /\ writer' = [writer EXCEPT ![rBucket[r]] = Nobody, ![b] = r]
      /\ rBucket' = [rBucket EXCEPT ![r] = b]
      /\ UNCHANGED <<listSet, list, entries, insertions, verifyVars, rpc,
                     rItems, dumpVars, histVars>>

(* Mutant of FinishRestore: the guard is leaked, finished() is called. *)
FinishRestoreLeaksGuard(r) ==
  /\ rpc[r] = "loop"
  /\ rItems[r] = {}
  /\ rpc' = [rpc EXCEPT ![r] = "finished"]
  /\ UNCHANGED <<cacheVars, verifyVars, rItems, rBucket, dumpVars, histVars>>

(* The last guard is dropped and finished() is called. *)
FinishRestore(r) ==
  /\ rpc[r] = "loop"
  /\ rItems[r] = {}
  /\ writer' = [writer EXCEPT ![rBucket[r]] = Nobody]
  /\ rpc' = [rpc EXCEPT ![r] = "finished"]
  /\ UNCHANGED <<listSet, list, entries, insertions, verifyVars, rItems,
                 rBucket, dumpVars, histVars>>

-----------------------------------------------------------------------------
(* Dumping the cache. *)

(* dump(): the list is cloned now, the buckets are read as the iterator    *)
(* reaches them.                                                           *)
Dump(d) ==
  /\ dpc[d] = "idle"
  /\ dpc' = [dpc EXCEPT ![d] = "buckets"]
  /\ dList' = [dList EXCEPT ![d] = list]
  /\ dStart' = [dStart EXCEPT ![d] = list \cup entries]
  /\ UNCHANGED <<cacheVars, verifyVars, restoreVars, dBucket, dOut, histVars>>

(* Mutant of DumpBucket: entries the list also has are not filtered out. *)
DumpBucketUnfiltered(d) ==
  LET batch == {v \in entries : Bucket(v) = dBucket[d]}
  IN  /\ dpc[d] = "buckets"
      /\ dBucket[d] < NBuckets
      /\ Unlocked(dBucket[d])
      /\ dOut' = [dOut EXCEPT ![d] =
                    [v \in Value |-> IF v \in batch THEN @[v] + 1 ELSE @[v]]]
      /\ dBucket' = [dBucket EXCEPT ![d] = @ + 1]
      /\ UNCHANGED <<cacheVars, verifyVars, restoreVars, dpc, dList, dStart,
                     histVars>>

(* DumpIter::next on a bucket: its entries are copied under the read lock, *)
(* without those that the clone of the list already has.                   *)
DumpBucket(d) ==
  LET batch == {v \in entries : Bucket(v) = dBucket[d]} \ dList[d]
  IN  /\ dpc[d] = "buckets"
      /\ dBucket[d] < NBuckets
      /\ Unlocked(dBucket[d])
      /\ dOut' = [dOut EXCEPT ![d] =
                    [v \in Value |-> IF v \in batch THEN @[v] + 1 ELSE @[v]]]
      /\ dBucket' = [dBucket EXCEPT ![d] = @ + 1]
      /\ UNCHANGED <<cacheVars, verifyVars, restoreVars, dpc, dList, dStart,
                     histVars>>

(* DumpIter::next after the last bucket: the clone of the list is yielded. *)
DumpList(d) ==
  /\ dpc[d] = "buckets"
  /\ dBucket[d] = NBuckets
  /\ dOut' = [dOut EXCEPT ![d] =
                [v \in Value |-> IF v \in dList[d] THEN @[v] + 1 ELSE @[v]]]
  /\ dpc' = [dpc EXCEPT ![d] = "done"]
  /\ UNCHANGED <<cacheVars, verifyVars, restoreVars, dBucket, dList, dStart,
                 histVars>>

-----------------------------------------------------------------------------
Init ==
  /\ listSet = FALSE
  /\ list = {} /\ entries = {}
  /\ insertions = 0
  /\ writer = [b \in Buckets |-> Nobody]
  /\ vpc = [t \in Verifiers |-> "idle"]
  /\ vval = [t \in Verifiers |-> CHOOSE v \in Value : TRUE]
  /\ rpc = [r \in Restorers |-> "idle"]
  /\ rItems = [r \in Restorers |-> {}]
  /\ rBucket = [r \in Restorers |-> 0]
  /\ dpc = [d \in Dumpers |-> "idle"]
  /\ dBucket = [d \in Dumpers |-> 0]
  /\ dList = [d \in Dumpers |-> {}]
  /\ dOut = [d \in Dumpers |-> [v \in Value |-> 0]]
  /\ restored = {} /\ added = {}
  /\ dStart = [d \in Dumpers |-> {}]

Verify(t) ==
  \/ PresentInList(t) \/ PresentInBucket(t) \/ KeyVerify(t) \/ Insert(t)

RestoreStep(r) ==
  \/ SetList(r) \/ LockFirstBucket(r)
  \/ RestoreItem(r) \/ SwitchBucket(r) \/ FinishRestore(r)

DumpStep(d) == DumpBucket(d) \/ DumpList(d)

Next ==
  \/ \E t \in Verifiers : (\E v \in Value : VerifyDigest(t, v)) \/ Verify(t)
  \/ \E r \in Restorers :
       (\E saved \in Saved : Restore(r, saved)) \/ RestoreStep(r)
  \/ \E d \in Dumpers : Dump(d) \/ DumpStep(d)
  \/ ClearInsertions

(* Calls are up to the program; what was called runs on, in threads the    *)
(* operating system schedules fairly.                                      *)
Fairness ==
  /\ \A t \in Verifiers : WF_vars(Verify(t))
  /\ \A r \in Restorers : WF_vars(RestoreStep(r))
  /\ \A d \in Dumpers : WF_vars(DumpStep(d))

Spec == Init /\ [][Next]_vars /\ Fairness

-----------------------------------------------------------------------------
(* Every variable has the type its declaration gives it; nothing is in the *)
(* list before it is set, what was inserted stays cached (no code removes  *)
(* an entry), and a dump stops after the last bucket.                      *)
TypeOK ==
  /\ listSet \in BOOLEAN
  /\ list \subseteq Value
  /\ ~listSet => list = {}
  /\ entries \subseteq Value
  /\ insertions \in Nat
  /\ writer \in [Buckets -> Restorers \cup {Nobody}]
  /\ vpc \in [Verifiers -> {"idle", "list", "bucket", "crypto", "insert",
                            "ok", "bad"}]
  /\ vval \in [Verifiers -> Value]
  /\ rpc \in [Restorers -> {"idle", "set", "first", "loop", "finished"}]
  /\ rItems \in [Restorers -> SUBSET Value]
  /\ rBucket \in [Restorers -> Buckets]
  /\ dpc \in [Dumpers -> {"idle", "buckets", "done"}]
  /\ dBucket \in [Dumpers -> 0 .. NBuckets]
  /\ dList \in [Dumpers -> SUBSET Value]
  /\ dOut \in [Dumpers -> [Value -> Nat]]
  /\ restored \subseteq Value /\ added \subseteq entries
  /\ dStart \in [Dumpers -> SUBSET Value]

(* A verification succeeds only for a signature that is valid, or that the *)
(* program itself vouched for by restoring it: whatever the interleaving,  *)
(* neither the list nor a bucket ever holds anything else (present(),      *)
(* Entry::insert "We don't cache negative results").                       *)
OnlyTrusted ==
  /\ list \cup entries \subseteq Valid \cup restored
  /\ \A t \in Verifiers : vpc[t] = "ok" => vval[t] \in Valid \cup restored

(* The restore loop's assert!(i > bucket_i) holds: what is left to restore *)
(* never belongs to a bucket below the locked one.  (A failed assertion    *)
(* would poison the lock, and every later lookup would panic.)             *)
RestoreAscends ==
  \A r \in Restorers :
    rpc[r] = "loop" => \A v \in rItems[r] : Bucket(v) >= rBucket[r]

(* Holds(r, b): the write lock of bucket b is r's.                         *)
(* Wants(r, b): r is about to lock b (the two write() calls of restore).   *)
Holds(r, b) == writer[b] = r
Wants(r, b) ==
  \/ rpc[r] = "first" /\ b = 0
  \/ rpc[r] = "loop" /\ rItems[r] # {}
       /\ b = Bucket(NextItem(rItems[r])) /\ b # rBucket[r]

(* Concurrent restorers hold one lock while they wait for another, yet     *)
(* never wait for each other in a circle: a restorer that waits for a      *)
(* bucket of another one holds only lower buckets than that one does.      *)
WaitsClimb ==
  \A r, s \in Restorers : \A b, c \in Buckets :
    Wants(r, b) /\ Holds(s, b) /\ Holds(r, c) => c < b

(* A guard lives exactly as long as the restore loop: a restorer holds the *)
(* lock of bucket_i in the loop, and no lock before or after it.           *)
GuardScope ==
  \A r \in Restorers : \A b \in Buckets :
    Holds(r, b) <=> rpc[r] = "loop" /\ b = rBucket[r]

(* The locking of restore(): its assertion holds, it keeps no guard beyond *)
(* its loop, and no circle of restorers waits for each other.              *)
LockOrder == RestoreAscends /\ GuardScope /\ WaitsClimb

(* insertions() counts each value once that verifications have added since *)
(* the last clear_insertions(), even if several threads verify the same    *)
(* signature at the same time.                                             *)
InsertionsExact == insertions = Cardinality(added)

(* DumpIter avoids "dumping an entry twice", although an entry may be in   *)
(* the list and in a bucket, and restores may run during the dump.         *)
DumpNoDuplicates == \A d \in Dumpers : \A v \in Value : dOut[d][v] <= 1

(* A finished dump has yielded everything that was in the cache when       *)
(* dump() was called, wherever it was stored.                              *)
DumpComplete ==
  \A d \in Dumpers : dpc[d] = "done" => \A v \in dStart[d] : dOut[d][v] >= 1

(* What dump() yields is exact, although it walks a cache that changes.    *)
DumpExactly == DumpNoDuplicates /\ DumpComplete

(* Every restore calls finished(), whoever else restores, verifies or dumps. *)
RestoreFinishes ==
  \A r \in Restorers : rpc[r] = "set" ~> rpc[r] = "finished"

(* Every verification returns: no lock is held for ever. *)
VerifyReturns ==
  \A t \in Verifiers : vpc[t] = "list" ~> vpc[t] \in {"ok", "bad"}

(* Every restore and every verification returns, whoever else runs: nobody *)
(* waits for ever for a lock.                                              *)
EverybodyReturns == RestoreFinishes /\ VerifyReturns
=============================================================================
