----------------------------- MODULE BucketList -----------------------------
(***************************************************************************)
(* The bucket list (src/src/bucket/BucketList.cpp), merges in progress     *)
(* (FutureBucket.cpp) and the states of it that are stored and published   *)
(* (src/src/history/HistoryArchive.cpp), as operators.                     *)
(*                                                                         *)
(* A bucket is what it holds, a function from some keys to entries, each   *)
(* Dead or a number that stands for a live entry: its hash names its       *)
(* contents, so two buckets with the same contents are the same file.  A   *)
(* level is a record of its curr and snap buckets and of next, the merge   *)
(* that becomes curr at the next spill.                                    *)
(***************************************************************************)
EXTENDS Integers, FiniteSets, Functions

CONSTANT kNumLevels

ASSUME kNumLevelsAssumption == kNumLevels \in Nat \ {0, 1}

Levels == 0..(kNumLevels - 1)

Dead == 0

EmptyBucket == [k \in {} |-> Dead]

-----------------------------------------------------------------------------
(* Bucket::fresh and Bucket::merge. *)

fresh(entry, live, dead) == [k \in live \cup dead |-> IF k \in dead THEN Dead ELSE entry]

\* Wrong: dead entries are dropped at every level, not only at the last.
mergeDropsDead(old, new, shadows, keepDeadEntries) ==
    LET newest == [k \in DOMAIN old \cup DOMAIN new |-> IF k \in DOMAIN new THEN new[k] ELSE old[k]]
        shadowed == UNION {DOMAIN s : s \in shadows}
    IN  Restrict(newest, {k \in DOMAIN newest \ shadowed : newest[k] # Dead})

merge(old, new, shadows, keepDeadEntries) ==
    LET newest == [k \in DOMAIN old \cup DOMAIN new |-> IF k \in DOMAIN new THEN new[k] ELSE old[k]]
        shadowed == UNION {DOMAIN s : s \in shadows}
    IN  Restrict(newest, {k \in DOMAIN newest \ shadowed : keepDeadEntries \/ newest[k] # Dead})

-----------------------------------------------------------------------------
(* FutureBucket: clear, an output, or the inputs of a merge. *)

ClearFuture == [state |-> "clear"]
OutputFuture(bucket) == [state |-> "output", output |-> bucket]
InputsFuture(curr, snap, shadows, keepDeadEntries) ==
    [state |-> "inputs", curr |-> curr, snap |-> snap, shadows |-> shadows,
     keepDeadEntries |-> keepDeadEntries]

resolve(f) ==
    IF f.state = "output" THEN f.output ELSE merge(f.curr, f.snap, f.shadows, f.keepDeadEntries)

getHashes(f) ==
    CASE f.state = "clear"  -> {}
      [] f.state = "output" -> {f.output}
      [] f.state = "inputs" -> {f.curr, f.snap} \cup f.shadows

\* Inputs are stored as hashes without mKeepDeadEntries, and load leaves that
\* member uninitialized: any is what the constructor happened to find.
reloaded(f, any) == IF f.state = "inputs" THEN [f EXCEPT !.keepDeadEntries = any] ELSE f

-----------------------------------------------------------------------------
(* Levels. *)

levelSize[level \in Levels] == IF level = 0 THEN 4 ELSE 4 * levelSize[level - 1]
levelHalf(level) == levelSize[level] \div 2
mask(v, m) == v - (v % m)

levelShouldSpill(ledger, level) ==
    /\ level # kNumLevels - 1
    /\ \/ ledger = mask(ledger, levelHalf(level))
       \/ ledger = mask(ledger, levelSize[level])

snapLevel(l) == [l EXCEPT !.snap = l.curr, !.curr = EmptyBucket]

commitLevel(l) ==
    IF l.next.state = "clear" THEN l
    ELSE [l EXCEPT !.curr = resolve(l.next), !.next = ClearFuture]

\* curr is left out of the merge if it will have become snap by the time the
\* merge is committed.
prepare(l, i, currLedger, snap, shadows) ==
    LET spillsNext == i # 0 /\ levelShouldSpill(currLedger + levelHalf(i - 1), i)
        curr       == IF spillsNext THEN EmptyBucket ELSE l.curr
    IN  [l EXCEPT !.next = InputsFuture(curr, snap, shadows, i < kNumLevels - 1)]

\* The buckets of levels i - 2 and below, as they were before this batch.
shadowsOf(list, i) == UNION {{list[j].curr, list[j].snap} : j \in 0..(i - 2)}

\* From the last level down: level i - 1 snaps, level i commits the merge it
\* has and prepares one with that snap.  Level 0 prepares and commits the batch.
addBatch(list, currLedger, batch) ==
    [i \in Levels |->
        LET own == IF levelShouldSpill(currLedger, i) THEN snapLevel(list[i]) ELSE list[i]
        IN  IF i = 0
            THEN commitLevel(prepare(own, 0, currLedger, batch, {}))
            ELSE IF levelShouldSpill(currLedger, i - 1)
                 THEN prepare(commitLevel(own), i, currLedger, list[i - 1].curr, shadowsOf(list, i))
                 ELSE own]

EmptyList == [i \in Levels |-> [curr |-> EmptyBucket, snap |-> EmptyBucket, next |-> ClearFuture]]

-----------------------------------------------------------------------------
(* HistoryArchiveState: the levels of a list, some of its merges resolved. *)

\* resolveAnyReadyFutures, where the merges of the levels in ready are complete.
resolveAnyReadyFutures(list, ready) ==
    [i \in Levels |-> IF i \in ready /\ list[i].next.state = "inputs"
                      THEN [list[i] EXCEPT !.next = OutputFuture(resolve(@))] ELSE list[i]]

futuresAllResolved(has) == \A i \in Levels : has[i].next.state # "inputs"

\* The empty bucket has no file.
allBuckets(has) ==
    (UNION {{has[i].curr, has[i].snap} \cup getHashes(has[i].next) : i \in Levels}) \ {EmptyBucket}

\* What a state stands for in an archive: outputs, not inputs of merges.
archivedBuckets(has) ==
    (UNION {{has[i].curr, has[i].snap}
               \cup (IF has[i].next.state = "output" THEN {has[i].next.output} ELSE {}) : i \in Levels})
        \ {EmptyBucket}

differingBuckets(has, other) == archivedBuckets(has) \ archivedBuckets(other)

\* Wrong: the merges of the stored state are not taken up.
assumeStateOnly(has, any) == [i \in Levels |-> [has[i] EXCEPT !.next = ClearFuture]]

\* assumeState and restartMerges: the stored state, with any[i] in place of
\* the mKeepDeadEntries that was not stored for level i.
assumeState(has, any) == [i \in Levels |-> [has[i] EXCEPT !.next = reloaded(@, any[i])]]
=============================================================================
