--------------------------- MODULE LedgerManager ---------------------------
(***************************************************************************)
(* What the ledger manager does with externalized values                   *)
(* (src/src/ledger/LedgerManagerImpl.cpp, SyncingLedgerChain.cpp): close   *)
(* the next ledger, skip an old one, or buffer and catch up.  Operators    *)
(* take and return a record l with the fields                              *)
(*    state    LM_BOOTING_STATE, LM_SYNCED_STATE or LM_CATCHING_UP_STATE   *)
(*    lcl      the sequence number of the last closed ledger               *)
(*    syncing  mSyncingLedgers, as the sequence of their numbers           *)
(***************************************************************************)
EXTENDS Integers, Sequences, SequencesExt

isSynced(l) == l.state = "SYNCED"

closeLedger(l, seq) == [l EXCEPT !.lcl = seq]

\* SyncingLedgerChain::add: only the ledger that follows the last one.
addSyncing(chain, seq) ==
    IF chain = << >> \/ Last(chain) + 1 = seq THEN Append(chain, seq) ELSE chain

lmValueExternalized(l, seq) ==
    IF l.state = "CATCHING_UP" THEN [l EXCEPT !.syncing = addSyncing(@, seq)]
    ELSE IF seq = l.lcl + 1 THEN closeLedger([l EXCEPT !.state = "SYNCED"], seq)
    ELSE IF seq <= l.lcl THEN l
    ELSE [l EXCEPT !.syncing = addSyncing(@, seq), !.state = "CATCHING_UP"]

\* APPLIED_BUCKETS, or a ledger closed by the replay of history: up to the
\* one before the first buffered ledger, which is what catchup was started for.
historyApplied(l, seq) == [l EXCEPT !.lcl = seq]

\* FINISHED: what was buffered is replayed.  It is contiguous, so its first
\* ledger decides whether there is a gap, in which case all starts anew.
historyCaughtup(l) ==
    LET gap == l.syncing # << >> /\ Head(l.syncing) > l.lcl + 1
    IN  [l EXCEPT !.syncing = << >>,
                  !.state = IF gap THEN "BOOTING" ELSE "SYNCED",
                  !.lcl = IF gap \/ l.syncing = << >> \/ Last(l.syncing) < @
                          THEN @ ELSE Last(l.syncing)]

historyCaughtupError(l) == [l EXCEPT !.state = "BOOTING", !.syncing = << >>]
=============================================================================
