---------------------------- MODULE LedgerDelta ----------------------------
(***************************************************************************)
(* What closing a ledger does to the entries: the SQL database with the    *)
(* savepoint of each transaction, the cache of loaded entries in front of  *)
(* it, and the stack of LedgerDelta objects that collects the changes for  *)
(* the bucket list.                                                        *)
(*                                                                         *)
(* Models LedgerDelta.cpp, the cache and the SQL of AccountFrame.cpp and   *)
(* TrustFrame.cpp, TransactionFrame::apply and processFeeSeqNum, and       *)
(* closeLedger, processFeesSeqNums and applyTransactions of                *)
(* LedgerManagerImpl.cpp, for protocol versions from 8 on.  An operation   *)
(* is any sequence of loads, additions, changes and deletions of entries;  *)
(* an entry is a number, NoEntry when there is none.  Left out: the header *)
(* of a delta, and mPrevious, which only feeds the history of changes.     *)
(***************************************************************************)
EXTENDS Naturals, Sequences, Functions

CONSTANTS EntryKey,       \* the entries of the ledger
          MaxEntryValue   \* bound: the values an entry takes

VARIABLE ld

NoEntry == 0
Values == 1 .. MaxEntryValue

(***************************************************************************)
(* LedgerDelta.  mNew and mMod map keys to values; ok turns FALSE when an  *)
(* assert fails.  The operations take several entries at once, as          *)
(* mergeEntries does.                                                      *)
(***************************************************************************)
None == [k \in {} |-> NoEntry]
NoChanges == [mNew |-> None, mMod |-> None, mDelete |-> {}, ok |-> TRUE]

\* A map with some entries set, and with some keys erased.
Put(f, entries) ==
    [k \in DOMAIN f \cup DOMAIN entries |-> IF k \in DOMAIN entries THEN entries[k] ELSE f[k]]
Without(f, keys) == Restrict(f, DOMAIN f \ keys)
One(k, v) == [x \in {k} |-> v]

\* Wrong: an entry that is deleted and added again stays a deleted one too.
addEntryOnly(delta, entries) ==
    [delta EXCEPT !.mNew = Put(@, entries)]

addEntry(delta, entries) ==
    LET again == DOMAIN entries \cap delta.mDelete
        first == DOMAIN entries \ delta.mDelete
    IN  [delta EXCEPT !.mDelete = @ \ again,
                      !.mMod = Put(@, Restrict(entries, again)),
                      !.mNew = Put(@, Restrict(entries, first)),
                      !.ok = @ /\ first \cap DOMAIN delta.mNew = {}
                               /\ first \cap DOMAIN delta.mMod = {}]

deleteEntry(delta, keys) ==
    LET old == keys \ DOMAIN delta.mNew
    IN  [delta EXCEPT !.mNew = Without(@, keys),
                      !.mMod = Without(@, old),
                      !.mDelete = @ \cup old,
                      !.ok = @ /\ old \cap delta.mDelete = {}]

modEntry(delta, entries) ==
    LET new == (DOMAIN entries \ DOMAIN delta.mMod) \cap DOMAIN delta.mNew
        mod == DOMAIN entries \ new
    IN  [delta EXCEPT !.mNew = Put(@, Restrict(entries, new)),
                      !.mMod = Put(@, Restrict(entries, mod)),
                      !.ok = @ /\ (mod \ DOMAIN delta.mMod) \cap delta.mDelete = {}]

mergeEntries(delta, other) ==
    modEntry(addEntry(deleteEntry(delta, other.mDelete), other.mNew), other.mMod)

Changed(delta) == DOMAIN delta.mNew \cup DOMAIN delta.mMod \cup delta.mDelete

(***************************************************************************)
(* The stack of deltas.  deltas[1] belongs to the ledger, deltas[2] to the *)
(* transaction in applyTransactions, deltas[3] to TransactionFrame::apply  *)
(* and deltas[4] to the operation.                                         *)
(***************************************************************************)
Depth(s) == Len(s.deltas)

open(s) == [s EXCEPT !.deltas = Append(@, NoChanges)]

\* LedgerDelta::commit of the innermost delta.
commit(s) ==
    LET n == Depth(s)
    IN  [s EXCEPT !.deltas = [SubSeq(s.deltas, 1, n - 1)
                                EXCEPT ![n - 1] = mergeEntries(@, s.deltas[n])]]

\* Wrong: entries that the delta deleted stay in the cache as missing.
rollbackLive(s) ==
    LET n == Depth(s)
    IN  [s EXCEPT !.deltas = SubSeq(@, 1, n - 1),
                  !.cache = Without(@, DOMAIN s.deltas[n].mNew
                                         \cup DOMAIN s.deltas[n].mMod)]

\* LedgerDelta::rollback of the innermost delta, called by its destructor.
rollback(s) ==
    LET n == Depth(s)
    IN  [s EXCEPT !.deltas = SubSeq(@, 1, n - 1),
                  !.cache = Without(@, Changed(s.deltas[n]))]

\* s with another innermost delta.
inner(s, delta) == [s EXCEPT !.deltas[Depth(s)] = delta]

(***************************************************************************)
(* AccountFrame and TrustFrame over the entry cache and SQL.  A load that  *)
(* misses puts what it finds, or that there is nothing, in the cache,      *)
(* which may evict other entries.                                          *)
(***************************************************************************)
seen(s, k) == IF k \in DOMAIN s.cache THEN s.cache[k] ELSE s.db[k]

load(s, k, evicted) ==
    IF k \in DOMAIN s.cache THEN s
    ELSE [s EXCEPT !.cache = Put(Without(@, evicted), One(k, s.db[k]))]

\* flushCachedEntry of every entry that is written, then the SQL.
write(s, entries) ==
    [s EXCEPT !.cache = Without(@, DOMAIN entries), !.db = Put(@, entries)]

storeAdd(s, k, v) ==
    inner(write(s, One(k, v)), addEntry(s.deltas[Depth(s)], One(k, v)))

storeChange(s, entries) ==
    inner(write(s, entries), modEntry(s.deltas[Depth(s)], entries))

storeDelete(s, k) ==
    inner(write(s, One(k, NoEntry)), deleteEntry(s.deltas[Depth(s)], {k}))

(***************************************************************************)
(* The behaviour.  opening is the database after the last ledger, saved    *)
(* the savepoint of the transaction.                                       *)
(***************************************************************************)
DeltaInit ==
    \E db \in [EntryKey -> 0 .. 1] :
        ld = [opening |-> db, db |-> db, saved |-> db, cache |-> None,
              deltas |-> <<NoChanges>>, phase |-> "fees",
              errorEncountered |-> FALSE]

\* A load that is not part of an operation's delta: recvTransaction,
\* checkValid and commands between ledgers, and any load of an operation.
Load == \E k \in EntryKey, evicted \in SUBSET EntryKey :
            /\ k \notin DOMAIN ld.cache
            /\ evicted \subseteq DOMAIN ld.cache
            /\ ld' = load(ld, k, evicted)

\* processFeesSeqNums: the source account of a transaction pays.
ProcessFeeSeqNum ==
    \E k \in EntryKey, v \in Values :
        /\ ld.phase = "fees"
        /\ seen(ld, k) # NoEntry
        /\ ld' = commit(storeChange(open(load(ld, k, {})), One(k, v)))

\* applyTransactions: the next transaction.  commonValid fails for one
\* whose source account has gone; the delta of the transaction is dropped.
BeginTx ==
    \E k \in EntryKey :
        /\ Depth(ld) = 1
        /\ LET s == load([ld EXCEPT !.phase = "apply"], k, {})
           IN  ld' = IF seen(s, k) = NoEntry THEN rollback(open(s))
                     ELSE [open(open(s)) EXCEPT !.saved = s.db,
                                                !.errorEncountered = FALSE]

BeginOp ==
    /\ Depth(ld) = 3
    /\ ld' = open(ld)

\* The steps of an operation: it adds an entry that it did not find, and
\* changes or deletes one that it loaded.
AddEntry ==
    \E k \in EntryKey, v \in Values :
        /\ Depth(ld) = 4
        /\ seen(ld, k) = NoEntry
        /\ ld' = storeAdd(load(ld, k, {}), k, v)

ChangeEntry ==
    \E k \in EntryKey, v \in Values :
        /\ Depth(ld) = 4
        /\ seen(ld, k) # NoEntry
        /\ ld' = storeChange(load(ld, k, {}), One(k, v))

DeleteEntry ==
    \E k \in EntryKey :
        /\ Depth(ld) = 4
        /\ seen(ld, k) # NoEntry
        /\ ld' = storeDelete(load(ld, k, {}), k)

\* The operation returns; its changes are merged even when it failed.
EndOp ==
    \E txRes \in BOOLEAN :
        /\ Depth(ld) = 4
        /\ ld' = [commit(ld) EXCEPT !.errorEncountered = @ \/ ~txRes]

\* The operation throws (a balance overflows, SQL fails): every delta of
\* the transaction is destroyed and the savepoint restored.
OpThrows ==
    /\ Depth(ld) = 4
    /\ ld' = [rollback(rollback(rollback(ld))) EXCEPT !.db = ld.saved]

\* removeUsedOneTimeSignerKeys changes the accounts that had such a signer,
\* in the delta of TransactionFrame::apply.  It loads each one, but the store
\* that follows flushes it again.
removeUsedOneTimeSignerKeys(s, accounts, v) ==
    storeChange(s, [k \in accounts |-> v])

\* The end of apply.  After an error, or with a signature that was not
\* used, the savepoint is restored; else signers that may be used only once
\* are removed and both deltas are committed.
EndTx ==
    \E allUsed \in BOOLEAN, v \in Values,
       accounts \in SUBSET {k \in EntryKey : seen(ld, k) # NoEntry} :
        /\ Depth(ld) = 3
        /\ ld' = IF ld.errorEncountered \/ ~allUsed
                 THEN rollback([rollback(ld) EXCEPT !.db = ld.saved])
                 ELSE commit(commit(removeUsedOneTimeSignerKeys(ld, accounts, v)))

\* ledgerClosed hands the changes to the bucket list; the SQL transaction
\* of the ledger is committed.
EndLedger ==
    /\ Depth(ld) = 1
    /\ ld' = [ld EXCEPT !.opening = ld.db, !.deltas = <<NoChanges>>,
                        !.phase = "fees"]

DeltaNext == \/ Load \/ ProcessFeeSeqNum \/ BeginTx \/ BeginOp
             \/ AddEntry \/ ChangeEntry \/ DeleteEntry
             \/ EndOp \/ OpThrows \/ EndTx \/ EndLedger

DeltaSpec == DeltaInit /\ [][DeltaNext]_ld

(***************************************************************************)
(* Properties                                                              *)
(***************************************************************************)

\* All open deltas, four at most, merged into the one of the ledger.
Merged(s, i, rest) == IF i < Depth(s) THEN mergeEntries(s.deltas[i], rest) ELSE s.deltas[i]
Total(s) == Merged(s, 1, Merged(s, 2, Merged(s, 3, s.deltas[4])))

\* What the deltas record is exactly what happened to the database since
\* the ledger was opened, at every step and whatever was rolled back: new
\* entries were not there, changed and deleted ones were, all others are
\* untouched, and no assert on double changes fails.  This is what lets
\* ledgerClosed build the bucket list from getLiveEntries and
\* getDeadEntries.
DeltaIsExact ==
    LET t == Total(ld)
    IN  /\ t.ok
        /\ \A k \in EntryKey :
              CASE k \in DOMAIN t.mNew -> ld.opening[k] = NoEntry
                                             /\ ld.db[k] = t.mNew[k]
                                             /\ k \notin t.mDelete
                [] k \in DOMAIN t.mMod -> ld.opening[k] # NoEntry
                                             /\ ld.db[k] = t.mMod[k]
                [] k \in t.mDelete     -> ld.opening[k] # NoEntry
                                             /\ ld.db[k] = NoEntry
                [] OTHER               -> ld.db[k] = ld.opening[k]

\* The cache never disagrees with the database, although it lives through
\* the savepoints that are rolled back under it: rollback of a delta
\* flushes whatever the delta touched, and stores flush before they write.
CacheIsCurrent == \A k \in DOMAIN ld.cache : ld.cache[k] = ld.db[k]
=============================================================================
