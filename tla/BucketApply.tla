----------------------------- MODULE BucketApply ----------------------------
(***************************************************************************)
(* A node that lost sync rebuilds its database from the buckets of a later *)
(* state (src/src/catchup/ApplyBucketsWork.cpp): from the last level that  *)
(* differs from its own list on, after deleting what was modified since    *)
(* the oldest ledger of that level, which is computed (BucketList.cpp).    *)
(* The work may be interrupted in any level, between two transactions of a *)
(* bucket, and start over, when the network has moved on and the database  *)
(* is half rebuilt.                                                        *)
(*                                                                         *)
(* A live entry is the ledger that last modified it.                       *)
(***************************************************************************)
EXTENDS BucketList, Checkpoints

CONSTANTS
    ApplyFrequency,     \* getCheckpointFrequency
    ApplyKey,           \* ledger keys: numbers, in the order of the buckets
    MaxApplyLedger,     \* the last ledger of the network (a bound)
    UINT32_MAX,         \* larger than any ledger
    MaxChanges,         \* ledgers that change an entry (a bound)
    OwnKey(_),          \* the set of keys only this ledger writes
    MaxInterrupts       \* times the work starts over (a bound)

\* The network: ledger, list, database and changes.  The node: whether it
\* lost sync (lost), its nodeList and nodeDatabase; mLevel, mApplying.
VARIABLE ba

RECURSIVE sizeOfCurr(_, _)
RECURSIVE sizeOfSnap(_, _)

sizesBelow(ledger, level) ==
    LET size[l \in 0..level] == IF l = 0 THEN 0
            ELSE size[l - 1] + sizeOfCurr(ledger, l - 1) + sizeOfSnap(ledger, l - 1)
    IN  size[level]

\* How many ledgers curr and snap of a level hold.
sizeOfCurr(ledger, level) ==
    IF level = 0 THEN IF ledger = 1 THEN 1 ELSE 1 + (ledger % 2)
    ELSE IF level # kNumLevels - 1 /\ mask(ledger, levelHalf(level)) # 0
    THEN LET sizeDelta == 2 ^ (2 * level - 1)
             relevant  == {mask(ledger - 1, levelHalf(level - 1)), mask(ledger - 1, levelSize[level - 1]),
                           mask(ledger - 1, levelHalf(level)), mask(ledger - 1, levelSize[level])}
             previousRelevantLedger == CHOOSE x \in relevant : \A y \in relevant : y <= x
         IN  IF ledger \in {mask(ledger, levelHalf(level)), mask(ledger, levelSize[level])}
             THEN sizeDelta
             ELSE sizeOfCurr(previousRelevantLedger, level)
                    + IF ledger \in {mask(ledger, levelHalf(level - 1)), mask(ledger, levelSize[level - 1])}
                      THEN sizeDelta ELSE 0
    ELSE ledger - sizesBelow(ledger, level)

sizeOfSnap(ledger, level) ==
    IF level = kNumLevels - 1 THEN 0
    ELSE IF mask(ledger, levelSize[level]) # 0 THEN levelHalf(level)
    ELSE ledger - sizesBelow(ledger, level) - sizeOfCurr(ledger, level)

\* UINT32_MAX if it holds no ledger.
oldestLedgerInCurr(ledger, level) ==
    IF sizeOfCurr(ledger, level) = 0 THEN UINT32_MAX
    ELSE ledger - sizesBelow(ledger, level) - sizeOfCurr(ledger, level) + 1

oldestLedgerInSnap(ledger, level) ==
    IF sizeOfSnap(ledger, level) = 0 THEN UINT32_MAX
    ELSE ledger - sizesBelow(ledger, level + 1) + 1

-----------------------------------------------------------------------------

\* BucketApplicator: storeAddOrChange or storeDelete for every entry.
applyBucket(database, bucket) ==
    LET keys == {k \in DOMAIN database \cup DOMAIN bucket : k \in DOMAIN bucket => bucket[k] # Dead}
    IN  [k \in keys |-> IF k \in DOMAIN bucket THEN bucket[k] ELSE database[k]]

deleteModifiedOnOrAfterLedger(database, oldestLedger) ==
    Restrict(database, {k \in DOMAIN database : database[k] < oldestLedger})

\* Wrong: deletes from the first ledger of snap on when only curr differs.
startLevelFromSnap(database, level, has, own, applying, ledger) ==
    LET applySnap == has.snap # own.snap
        applyCurr == has.curr # own.curr
    IN  [database |-> IF ~applying /\ (applySnap \/ applyCurr)
                      THEN deleteModifiedOnOrAfterLedger(database, oldestLedgerInSnap(ledger, level))
                      ELSE database,
         snap     |-> IF applying \/ applySnap THEN has.snap ELSE EmptyBucket,
         curr     |-> IF applying \/ applySnap \/ applyCurr THEN has.curr ELSE EmptyBucket,
         applying |-> applying \/ applySnap \/ applyCurr]

\* onStart: what a level deletes, and the buckets it will apply.
startLevel(database, level, has, own, applying, ledger) ==
    LET applySnap    == has.snap # own.snap
        applyCurr    == has.curr # own.curr
        oldestLedger == IF applySnap THEN oldestLedgerInSnap(ledger, level)
                        ELSE oldestLedgerInCurr(ledger, level)
    IN  [database |-> IF ~applying /\ (applySnap \/ applyCurr)
                      THEN deleteModifiedOnOrAfterLedger(database, oldestLedger) ELSE database,
         snap     |-> IF applying \/ applySnap THEN has.snap ELSE EmptyBucket,
         curr     |-> IF applying \/ applySnap \/ applyCurr THEN has.curr ELSE EmptyBucket,
         applying |-> applying \/ applySnap \/ applyCurr]

\* The entries of a bucket are sorted and applied in transactions of some of
\* them at a time: what is committed when the rest is not.
Begun(bucket) == {Restrict(bucket, {k \in DOMAIN bucket : k < n}) : n \in DOMAIN bucket}

-----------------------------------------------------------------------------

ApplyInit ==
    ba = [ledger |-> 0, list |-> EmptyList, database |-> EmptyBucket, changes |-> 0,
          lost |-> FALSE, nodeList |-> EmptyList, nodeDatabase |-> EmptyBucket,
          mLevel |-> kNumLevels - 1, mApplying |-> FALSE, interrupts |-> 0]

\* The network closes a ledger, and the node too while it is in sync.
NetworkBatch(live, dead) ==
    /\ ba.ledger < MaxApplyLedger /\ ba.mLevel = kNumLevels - 1
    /\ live \cup dead # {} => ba.changes < MaxChanges
    /\ LET batch    == fresh(ba.ledger + 1, live \cup OwnKey(ba.ledger + 1), dead)
           list     == addBatch(ba.list, ba.ledger + 1, batch)
           database == applyBucket(ba.database, batch)
       IN  ba' = [ba EXCEPT !.ledger = @ + 1, !.list = list, !.database = database,
                            !.changes = IF live \cup dead = {} THEN @ ELSE @ + 1,
                            !.nodeList = IF ba.lost THEN @ ELSE list,
                            !.nodeDatabase = IF ba.lost THEN @ ELSE database]

LoseSync ==
    /\ ~ba.lost
    /\ ba' = [ba EXCEPT !.lost = TRUE]

Started == startLevel(ba.nodeDatabase, ba.mLevel, ba.list[ba.mLevel], ba.nodeList[ba.mLevel],
                      ba.mApplying, ba.ledger)

AtCheckpoint == ba.ledger = checkpointContainingLedger(ba.ledger, ApplyFrequency)

\* One level: onStart, the applicators (snap first), onSuccess.  The state of
\* a checkpoint is applied; after level 0, assumeState: the node has the
\* network's list.
ApplyLevel ==
    /\ ba.lost /\ AtCheckpoint
    /\ LET database == applyBucket(applyBucket(Started.database, Started.snap), Started.curr)
       IN  ba' = IF ba.mLevel = 0
                 THEN [ba EXCEPT !.nodeDatabase = database, !.nodeList = ba.list, !.lost = FALSE,
                                 !.mLevel = kNumLevels - 1, !.mApplying = FALSE]
                 ELSE [ba EXCEPT !.nodeDatabase = database, !.mLevel = @ - 1,
                                 !.mApplying = Started.applying]

\* The process ends, or the work fails, in the middle of a level: it starts
\* over at the last level.
InterruptApply ==
    /\ ba.lost /\ AtCheckpoint /\ ba.interrupts < MaxInterrupts
    /\ \E database \in {applyBucket(Started.database, some) : some \in Begun(Started.snap)}
                      \cup {applyBucket(applyBucket(Started.database, Started.snap), some) :
                                some \in Begun(Started.curr)} :
          ba' = [ba EXCEPT !.nodeDatabase = database, !.mLevel = kNumLevels - 1,
                           !.mApplying = FALSE, !.interrupts = @ + 1]

ApplyNext ==
    \/ \E live \in SUBSET ApplyKey : \E dead \in SUBSET ((ApplyKey \cap DOMAIN ba.database) \ live) : NetworkBatch(live, dead)
    \/ LoseSync \/ ApplyLevel \/ InterruptApply

ApplySpec == ApplyInit /\ [][ApplyNext]_ba

-----------------------------------------------------------------------------
(* Properties. *)

\* ApplyBucketsWork: when the buckets have been applied, the database has the
\* entries the network has, with the ledgers that modified them last: nothing
\* stale, nothing deleted in between, whatever an interrupted attempt did.
BucketsRebuildDatabase == ~ba.lost => ba.nodeDatabase = ba.database
=============================================================================
