----------------------------- MODULE BucketStore ----------------------------
(***************************************************************************)
(* What the bucket list is for: it holds the same entries as the database. *)
(* Ledgers close, each with a batch of live and dead entries, the node     *)
(* restarts from the state it stored, and some merges are not complete     *)
(* when it does.                                                           *)
(***************************************************************************)
EXTENDS BucketList

CONSTANTS
    Key,                \* ledger keys
    MaxBucketLedger,    \* the last ledger that is closed (a bound)
    ReadySets           \* the sets of levels whose merge may be complete at a restart

\* list: the bucket list; network: that of a node that never restarts;
\* database: the keys with an entry; ledger: the ledger closed last.
VARIABLE bs

StoreInit == bs = [ledger |-> 0, list |-> EmptyList, network |-> EmptyList, database |-> {}]

\* A ledger closes; an entry that does not exist is not deleted.
StoreBatch(live, dead) ==
    /\ bs.ledger < MaxBucketLedger
    /\ bs' = [bs EXCEPT !.ledger   = @ + 1,
                        !.list     = addBatch(@, bs.ledger + 1, fresh(1, live, dead)),
                        !.network  = addBatch(@, bs.ledger + 1, fresh(1, live, dead)),
                        !.database = (@ \cup live) \ dead]

\* The state that storeCurrentLedger wrote is read back.
RestartStore ==
    /\ bs.ledger > 0
    /\ \E ready \in ReadySets, any \in [Levels -> BOOLEAN] :
          bs' = [bs EXCEPT !.list = assumeState(resolveAnyReadyFutures(@, ready), any)]

StoreNext ==
    \/ \E live \in SUBSET Key : \E dead \in SUBSET (bs.database \ live) : StoreBatch(live, dead)
    \/ RestartStore

StoreSpec == StoreInit /\ [][StoreNext]_bs

-----------------------------------------------------------------------------
(* Properties. *)

\* All buckets, youngest first.
Youngest(list) == [n \in 1..(2 * kNumLevels) |->
    IF n % 2 = 1 THEN list[(n - 1) \div 2].curr ELSE list[(n - 2) \div 2].snap]

Lookup(list, key) ==
    LET holds == {n \in 1..(2 * kNumLevels) : key \in DOMAIN Youngest(list)[n]}
    IN  IF holds = {} THEN Dead
        ELSE Youngest(list)[CHOOSE n \in holds : \A m \in holds : n <= m][key]

\* BucketList::addBatch, Bucket::merge: for every key the first bucket that
\* has an entry, from the youngest level down, says what the database says,
\* although entries are dropped from merges on account of younger levels that
\* go on changing while the merge runs.
ListAgreesWithDatabase ==
    \A key \in Key : (Lookup(bs.list, key) # Dead) <=> (key \in bs.database)

\* A node that restarted has the bucket list, and with it the ledger hash,
\* of a node that did not.
RestartKeepsList ==
    \A i \in Levels : bs.list[i].curr = bs.network[i].curr /\ bs.list[i].snap = bs.network[i].snap
=============================================================================
