--------------------------- MODULE BucketManager ----------------------------
(***************************************************************************)
(* Bucket files and who needs them: the end of closeLedger, which stores   *)
(* the state of the bucket list, queues checkpoints, commits, starts       *)
(* publishing and collects garbage (src/src/ledger/LedgerManagerImpl.cpp,  *)
(* src/src/bucket/BucketManagerImpl.cpp), the publish queue                *)
(* (src/src/history/HistoryManagerImpl.cpp), the work that publishes a     *)
(* checkpoint (src/src/historywork/), merges on worker threads, crashes at *)
(* any point and the restart from what was committed.                      *)
(*                                                                         *)
(* Ledger n creates entry n, so that no two batches are alike; entries do  *)
(* not die here, and it does not matter what mKeepDeadEntries is.          *)
(***************************************************************************)
EXTENDS BucketList, Checkpoints, Sequences

CONSTANTS
    PublishFrequency,       \* getCheckpointFrequency
    FirstLedger,            \* the ledger the node has closed at the start
    MaxClosedLedger,        \* the last one that is closed (a bound)
    MaxSent,                \* files sent before a command fails (a bound)
    MaxRestarts             \* a bound

ASSUME FirstLedgerAssumption == FirstLedger \in Nat

(***************************************************************************)
(* list      the bucket list           merged    levels whose merge is done*)
(* files     the bucket directory      shared    mSharedBuckets            *)
(* ledger    the LCL                   closing   how far closeLedger is    *)
(* usage     mPublishQueueBuckets      filled    mPublishQueueBucketsFilled*)
(* publish   mPublishWork              posted    publishQueuedHistory is   *)
(*                                               in the event loop         *)
(* stored, queue   kHistoryArchiveState and the table publishqueue, as     *)
(*                 committed; tx has them as the open transaction does     *)
(* archive   the archive's state and buckets                               *)
(***************************************************************************)
VARIABLE bm

NoPublish == [on |-> FALSE]

-----------------------------------------------------------------------------
(* The publish queue. *)

\* PublishQueueBuckets: how many states of the queue name a bucket.
addBuckets(usage, buckets) ==
    [h \in DOMAIN usage \cup buckets |-> (IF h \in DOMAIN usage THEN usage[h] ELSE 0)
                                         + (IF h \in buckets THEN 1 ELSE 0)]

removeBuckets(usage, buckets) ==
    LET left(h) == IF h \in buckets THEN usage[h] - 1 ELSE usage[h]
    IN  [h \in {g \in DOMAIN usage : left(g) # 0} |-> left(h)]

NoUsage == [h \in {} |-> 0]

\* StateSnapshot::makeLive: merges of a state that was read back start again.
takeSnapshotAndPublish(b, row) ==
    IF b.publish.on THEN b
    ELSE [b EXCEPT !.publish = [on |-> TRUE, ledger |-> row.ledger, has |-> row.has,
                                originalBuckets |-> allBuckets(row.has), stage |-> "resolve"],
                   !.shared = @ \cup ((UNION {getHashes(row.has[i].next) : i \in Levels}) \cap b.files)]

\* The oldest row.
publishQueuedHistory(b) ==
    IF b.queue = << >> THEN b ELSE takeSnapshotAndPublish(b, Head(b.queue))

queueCurrentHistory(b, row) ==
    takeSnapshotAndPublish([b EXCEPT !.tx.queue = Append(@, row),
                                     !.usage = addBuckets(@, allBuckets(row.has))], row)

\* The first call counts every bucket of the queue once.
fillPublishQueueBuckets(b) ==
    IF b.filled THEN b
    ELSE [b EXCEPT !.filled = TRUE,
                   !.usage = addBuckets(@, UNION {allBuckets(b.queue[i].has) : i \in DOMAIN b.queue})]

historyPublished(b, success) ==
    LET p == b.publish
    IN  [b EXCEPT !.publish = NoPublish, !.posted = TRUE,
                  !.queue = IF success THEN SelectSeq(@, LAMBDA r : r.ledger # p.ledger) ELSE @,
                  !.usage = IF success THEN removeBuckets(@, p.originalBuckets) ELSE @]

-----------------------------------------------------------------------------
(* Garbage. *)

\* Outputs of merges that are done: the future holds them.
outputs(list, done) == {resolve(list[i].next) : i \in {j \in done : list[j].next.state = "inputs"}}

\* Buckets that more than mSharedBuckets points to.
inUse(b) ==
    allBuckets(b.list) \cup outputs(b.list, b.merged)
        \cup IF b.publish.on
             THEN UNION {getHashes(b.publish.has[i].next) : i \in Levels} ELSE {}

\* Wrong: a bucket that is in use but not referenced goes.
forgetUnreferencedInUse(b) ==
    LET drop == b.shared \ (allBuckets(b.list) \cup DOMAIN b.usage)
    IN  [b EXCEPT !.shared = @ \ drop, !.files = @ \ drop]

\* Referenced are the buckets of the list, its merges' inputs included, and
\* of the publish queue.
forgetUnreferencedBuckets(b) ==
    LET drop == b.shared \ (allBuckets(b.list) \cup DOMAIN b.usage \cup inUse(b))
    IN  [b EXCEPT !.shared = @ \ drop, !.files = @ \ drop]

adopt(b, buckets) ==
    [b EXCEPT !.files = @ \cup (buckets \ {EmptyBucket}), !.shared = @ \cup (buckets \ {EmptyBucket})]

-----------------------------------------------------------------------------
(* The system. *)

\* The list after each of the ledgers closed so far.
replayed[n \in 0..FirstLedger] ==
    IF n = 0 THEN EmptyList ELSE addBatch(replayed[n - 1], n, fresh(1, {n}, {}))

Replayed == replayed[FirstLedger]

NoTx == [stored |-> << >>, queue |-> << >>]

ManagerInit ==
    bm = [ledger |-> FirstLedger, list |-> Replayed, merged |-> {}, closing |-> "no",
          files |-> allBuckets(Replayed), shared |-> allBuckets(Replayed),
          stored |-> Replayed, queue |-> << >>, tx |-> NoTx,
          usage |-> NoUsage, filled |-> TRUE, publish |-> NoPublish, posted |-> FALSE,
          archive |-> [has |-> EmptyList, buckets |-> {}], restarts |-> 0]

\* A worker thread has finished a merge of the list.
MergeComplete(i) ==
    /\ bm.list[i].next.state = "inputs" /\ i \notin bm.merged
    /\ bm' = adopt([bm EXCEPT !.merged = @ \cup {i}], {resolve(bm.list[i].next)})

\* closeLedger up to its commit: ledgerClosed (addBatch, storeCurrentLedger)
\* and step 1, maybeQueueHistoryCheckpoint.
CloseLedger ==
    /\ bm.closing = "no" /\ bm.ledger < MaxClosedLedger
    /\ LET seq   == bm.ledger + 1
           list  == addBatch(bm.list, seq, fresh(1, {seq}, {}))
           newly == {i \in Levels \ {0} : levelShouldSpill(seq, i - 1)}
           done  == bm.merged \ newly
           b == [adopt(bm, {list[i].curr : i \in newly \cup {0}}) EXCEPT
                    !.ledger = seq, !.list = list, !.merged = done, !.closing = "stored",
                    !.tx = [stored |-> resolveAnyReadyFutures(list, done), queue |-> bm.queue]]
       IN  bm' = IF seq + 1 = nextCheckpointLedger(seq + 1, PublishFrequency)
                 THEN queueCurrentHistory(b, [ledger |-> seq, has |-> list]) ELSE b

\* Step 2.
CommitLedger ==
    /\ bm.closing = "stored"
    /\ bm' = [bm EXCEPT !.closing = "committed", !.stored = bm.tx.stored, !.queue = bm.tx.queue, !.tx = NoTx]

\* Steps 3 and 4: publishQueuedHistory and forgetUnreferencedBuckets.
FinishLedger ==
    /\ bm.closing = "committed"
    /\ bm' = [forgetUnreferencedBuckets(fillPublishQueueBuckets(publishQueuedHistory(bm)))
                 EXCEPT !.closing = "no"]

\* publishQueuedHistory, posted by historyPublished.
PublishNext ==
    /\ bm.closing = "no" /\ bm.posted
    /\ bm' = publishQueuedHistory([bm EXCEPT !.posted = FALSE])

\* ResolveSnapshotWork, when the merges of the levels in ready are complete.
ResolveSnapshot(ready) ==
    /\ bm.closing = "no" /\ bm.publish.on /\ bm.publish.stage = "resolve"
    /\ LET has == resolveAnyReadyFutures(bm.publish.has, ready)
           outs == {has[i].next.output : i \in {j \in Levels : has[j].next.state = "output"}}
       IN  bm' = adopt([bm EXCEPT !.publish.has = has,
                                  !.publish.stage = IF futuresAllResolved(has) THEN "files" ELSE @], outs)

\* PutSnapshotFilesWork: buckets the archive's state does not name are sent;
\* all of them have a file (assert(b)).
PutFiles ==
    /\ bm.closing = "no" /\ bm.publish.on /\ bm.publish.stage = "files"
    /\ differingBuckets(bm.publish.has, bm.archive.has) \subseteq bm.files
    /\ bm' = [bm EXCEPT !.archive.buckets = @ \cup differingBuckets(bm.publish.has, bm.archive.has),
                        !.publish.stage = "state"]

\* Wrong: the archive's state is written while its files are.
PutStateEarly ==
    /\ bm.closing = "no" /\ bm.publish.on /\ bm.publish.stage \in {"files", "state"}
    /\ bm' = [bm EXCEPT !.archive.has = bm.publish.has,
                        !.publish.stage = IF @ = "files" THEN "files" ELSE "done"]

\* PutHistoryArchiveStateWork.
PutState ==
    /\ bm.closing = "no" /\ bm.publish.on /\ bm.publish.stage = "state"
    /\ bm' = [bm EXCEPT !.archive.has = bm.publish.has, !.publish.stage = "done"]

\* What a failed attempt leaves behind: some of the files, or the state.
partlyPut(has, stage, archive) ==
    IF stage = "files"
    THEN {[archive EXCEPT !.buckets = @ \cup sent] :
             sent \in {s \in SUBSET differingBuckets(has, archive.has) : Cardinality(s) <= MaxSent}}
    ELSE {archive, [archive EXCEPT !.has = has]}

\* A command fails: PutSnapshotFilesWork starts over or, when all retries
\* failed, PublishWork gives up until the next attempt.
PublishFails ==
    /\ bm.closing = "no" /\ bm.publish.on /\ bm.publish.stage \in {"files", "state"}
    /\ \E archive \in partlyPut(bm.publish.has, bm.publish.stage, bm.archive) :
          \/ bm' = [bm EXCEPT !.archive = archive, !.publish.stage = "files"]
          \/ bm' = historyPublished([bm EXCEPT !.archive = archive], FALSE)

PublishSucceeds ==
    /\ bm.closing = "no" /\ bm.publish.on /\ bm.publish.stage = "done"
    /\ bm' = historyPublished(bm, TRUE)

\* The process ends at any point and starts again: loadLastKnownLedger gets
\* missing buckets from the archive, assumes the stored state, and
\* publishQueuedHistory is called.
Restart ==
    /\ bm.restarts < MaxRestarts
    /\ LET needed  == allBuckets(bm.stored) \cup UNION {allBuckets(bm.queue[i].has) : i \in DOMAIN bm.queue}
           missing == needed \ bm.files
       IN  /\ missing \subseteq bm.archive.buckets
           /\ bm' = publishQueuedHistory(
                 [bm EXCEPT !.ledger = IF bm.closing = "stored" THEN @ - 1 ELSE @,
                            !.list = assumeState(bm.stored, [i \in Levels |-> TRUE]),
                            !.merged = {}, !.closing = "no", !.tx = NoTx,
                            !.files = @ \cup missing, !.shared = allBuckets(bm.stored),
                            !.usage = NoUsage, !.filled = FALSE,
                            !.publish = NoPublish, !.posted = FALSE, !.restarts = @ + 1])

ManagerNext ==
    \/ \E i \in Levels : MergeComplete(i)
    \/ CloseLedger \/ CommitLedger \/ FinishLedger
    \/ PublishNext
    \/ \E ready \in SUBSET Levels : ResolveSnapshot(ready)
    \/ PutFiles \/ PutState \/ PublishFails \/ PublishSucceeds
    \/ Restart

ManagerSpec == ManagerInit /\ [][ManagerNext]_bm

-----------------------------------------------------------------------------
(* Properties. *)

\* storeCurrentLedger, forgetUnreferencedBuckets: at any moment the node can
\* restart from what it committed, every bucket of the stored state is there.
StoredBucketsOnDisk == allBuckets(bm.stored) \subseteq bm.files

\* forgetUnreferencedBuckets: a bucket that a state in the publish queue
\* refers to is on disk.
QueuedBucketsOnDisk ==
    \A i \in DOMAIN bm.queue : allBuckets(bm.queue[i].has) \subseteq bm.files

\* PutSnapshotFilesWork: whatever failed, was done again or crashed, a node
\* that reads the archive's state finds in the archive every bucket it names.
ArchiveComplete == archivedBuckets(bm.archive.has) \subseteq bm.archive.buckets
=============================================================================
