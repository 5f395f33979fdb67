------------------------------ MODULE Catchup -------------------------------
(***************************************************************************)
(* A node that missed ledgers catches up from a history archive: what      *)
(* LedgerManagerImpl does with an externalized value and with the end of a *)
(* round (src/src/ledger/LedgerManagerImpl.cpp), the range of ledgers a    *)
(* round replays and its steps (src/src/catchup/CatchupWork.cpp), their    *)
(* verification (VerifyLedgerChainWork.cpp) and replay                     *)
(* (ApplyLedgerChainWork.cpp).  Ledgers are externalized all the while.    *)
(*                                                                         *)
(* A header is its sequence number and its chain.  The archive's files may *)
(* be of the network's chain or of another one that branches off at Branch.*)
(***************************************************************************)
EXTENDS Checkpoints, Sequences, FiniteSetsExt

CONSTANTS
    CatchupFrequency,   \* getCheckpointFrequency
    Counts,             \* values of CATCHUP_RECENT; a large one is CATCHUP_COMPLETE
    Branch,             \* the first ledger of the other chain
    MaxNetLedger,       \* the last ledger of the network (a bound)
    MaxMissed           \* ledgers the node misses in a row (a bound)

ASSUME CatchupAssumption ==
    /\ CatchupFrequency \in Nat \ {0}
    /\ Counts \subseteq Nat
    /\ Branch \in Nat /\ MaxNetLedger \in Nat /\ MaxMissed \in Nat

GENESIS_LEDGER_SEQ == 1

\* state, lcl, syncing: of LedgerManagerImpl; net: the ledger the network
\* closed last; count: getCatchupCount; files: the chain of each of the
\* archive's files of headers and transactions; states: that of its archive
\* states; round: mCatchupWork; gap: a ledger was too new to be buffered;
\* failed: why the process ended.
VARIABLE cu

Containing(ledger) == checkpointContainingLedger(ledger, CatchupFrequency)

Header(chain, seq) == [seq |-> seq, chain |-> IF seq < Branch THEN "net" ELSE chain]
NoHeader           == [seq |-> 0, chain |-> "net"]

\* previousLedgerHash of h is the hash of prev.
Links(prev, h) == prev = Header(h.chain, h.seq - 1)

FirstOf(checkpoint) == Max({GENESIS_LEDGER_SEQ, checkpoint - CatchupFrequency + 1})

-----------------------------------------------------------------------------
(* The range of a round. *)

firstNotFinishedCheckpoint(lastClosedLedger) ==
    IF lastClosedLedger < Containing(lastClosedLedger) THEN Containing(lastClosedLedger)
    ELSE Containing(lastClosedLedger) + CatchupFrequency

firstNeededLedger(toLedger, count) ==
    LET neededCount == Max({count, 1})
    IN  IF toLedger > neededCount THEN toLedger - neededCount + 1 ELSE GENESIS_LEDGER_SEQ

\* Wrong: buckets are applied at the checkpoint that contains the ledger.
computeCatchupStartLate(smallestLedgerToApply, smallestBucketApplyCheckpoint) ==
    [buckets |-> smallestLedgerToApply >= CatchupFrequency - 1, first |-> Containing(smallestLedgerToApply)]

computeCatchupStart(smallestLedgerToApply, smallestBucketApplyCheckpoint) ==
    LET checkpoint == Containing(smallestLedgerToApply)
    IN  IF smallestLedgerToApply = checkpoint THEN [buckets |-> TRUE, first |-> checkpoint]
        ELSE IF smallestLedgerToApply < CatchupFrequency - 1
        THEN [buckets |-> FALSE, first |-> smallestLedgerToApply]
        ELSE IF checkpoint - CatchupFrequency >= smallestBucketApplyCheckpoint
        THEN [buckets |-> TRUE, first |-> checkpoint - CatchupFrequency]
        ELSE [buckets |-> FALSE, first |-> smallestLedgerToApply]

\* Transactions do as well if the buckets are those just after the LCL.
makeCatchupRange(lastClosedLedger, toLedger, count) ==
    LET start == computeCatchupStart(Max({firstNeededLedger(toLedger, count), lastClosedLedger}),
                                     firstNotFinishedCheckpoint(lastClosedLedger))
    IN  [first |-> start.first, last |-> toLedger,
         buckets |-> start.buckets /\ start.first > lastClosedLedger + 1]

-----------------------------------------------------------------------------
(* Verification of one checkpoint's headers. *)

\* verifyCatchupCandidate
verifyCatchupCandidate(syncing, candidate) ==
    syncing # << >> /\ Head(syncing) = candidate.seq + 1 /\ candidate.chain = "net"

\* Wrong: the first header of a file is not linked to the last of the one before.
linksUpLoose(chain, checkpoint, lastVerified) == TRUE

\* The first header of all is taken without a check.
linksUp(chain, checkpoint, lastVerified) ==
    lastVerified.seq = 0 \/ Links(lastVerified, Header(chain, FirstOf(checkpoint)))

\* A file is read up to its end or to the last ledger of the range, unless
\* that is the first header of all: the loop goes on before it looks.
endsAt(checkpoint, lastVerified, last) ==
    IF last \in FirstOf(checkpoint)..checkpoint /\ (lastVerified.seq = 0 => last # FirstOf(checkpoint))
    THEN last ELSE checkpoint

\* The files hold all headers of their checkpoint in order; one that does not
\* fails here too.
verifyHistoryOfSingleCheckpoint(chain, checkpoint, lastVerified, last, syncing) ==
    LET curr == Header(chain, endsAt(checkpoint, lastVerified, last))
    IN  [ok   |-> /\ linksUp(chain, checkpoint, lastVerified)
                  /\ curr.seq = last => verifyCatchupCandidate(syncing, curr),
         curr |-> curr]

-----------------------------------------------------------------------------
(* LedgerManagerImpl. *)

NoRound == [on |-> FALSE]

\* closeLedger of a value of the network: its transaction set has to build on
\* the LCL.
closeLedger(c, n) ==
    IF c.lcl = Header("net", n - 1) THEN [c EXCEPT !.lcl = Header("net", n)]
    ELSE [c EXCEPT !.failed = "inconsistency"]

startCatchUp(c, toLedger) ==
    [c EXCEPT !.state = "LM_CATCHING_UP_STATE",
              !.round = [on |-> TRUE, toLedger |-> toLedger, lclAtReset |-> c.lcl.seq, stage |-> "state"]]

LastBuffered(c) == c.syncing[Len(c.syncing)]

\* SyncingLedgerChain::add: what is not the next ledger is not kept.
add(c, n) ==
    IF c.syncing = << >> \/ LastBuffered(c) + 1 = n THEN [c EXCEPT !.syncing = Append(@, n)]
    ELSE [c EXCEPT !.gap = TRUE]

valueExternalized(c, n) ==
    CASE c.state = "LM_CATCHING_UP_STATE" -> add(c, n)
      [] c.state # "LM_CATCHING_UP_STATE" /\ n = c.lcl.seq + 1 ->
            closeLedger([c EXCEPT !.state = "LM_SYNCED_STATE", !.gap = FALSE], n)
      [] c.state # "LM_CATCHING_UP_STATE" /\ n <= c.lcl.seq -> c
      [] c.state # "LM_CATCHING_UP_STATE" /\ n > c.lcl.seq + 1 ->
            startCatchUp(add([c EXCEPT !.gap = FALSE], n), n - 1)

\* historyCaughtup with an error.
historyNotCaughtup(c) ==
    [c EXCEPT !.state = "LM_BOOTING_STATE", !.syncing = << >>, !.round = NoRound]

\* Wrong: the buffer is dropped.
historyCaughtupOnly(c) ==
    [c EXCEPT !.round = NoRound, !.syncing = << >>, !.state = "LM_SYNCED_STATE"]

\* historyCaughtup, FINISHED: the buffer has no gaps, so its ledgers after the
\* LCL are closed one by one unless its first is too far ahead.
historyCaughtup(c) ==
    LET done == [c EXCEPT !.round = NoRound, !.syncing = << >>, !.state = "LM_SYNCED_STATE"]
    IN  CASE Head(c.syncing) > c.lcl.seq + 1 -> [done EXCEPT !.state = "LM_BOOTING_STATE"]
          [] LastBuffered(c) <= c.lcl.seq -> done
          [] Head(c.syncing) <= c.lcl.seq + 1 /\ LastBuffered(c) > c.lcl.seq ->
                IF c.lcl.chain = "net" THEN [done EXCEPT !.lcl = Header("net", LastBuffered(c))]
                ELSE [done EXCEPT !.failed = "inconsistency"]

-----------------------------------------------------------------------------
(* The system. *)

CheckpointSet == {Containing(l) : l \in 1..MaxNetLedger}

\* None, all or one of the files are of the other chain.
BadFiles == {{}, CheckpointSet} \cup {{c} : c \in CheckpointSet}

CatchupInit ==
    \E count \in Counts, bad \in BadFiles, states \in {"net", "other"}, lcl \in 1..(CatchupFrequency + 1) :
        cu = [state |-> "LM_BOOTING_STATE", lcl |-> Header("net", lcl), syncing |-> << >>, net |-> lcl,
              count |-> count, files |-> [c \in CheckpointSet |-> IF c \in bad THEN "other" ELSE "net"],
              states |-> states, round |-> NoRound, gap |-> FALSE, failed |-> "no"]

\* The network closes ledgers up to n; the node hears of the last one.
Externalize(n) ==
    /\ cu.failed = "no" /\ n <= MaxNetLedger
    /\ cu' = valueExternalized([cu EXCEPT !.net = n], n)

InStage(stage) == cu.failed = "no" /\ cu.round.on /\ cu.round.stage = stage

\* GetHistoryArchiveStateWork has found the state of the checkpoint with
\* toLedger, which is published once the network has closed it.
GetState ==
    /\ InStage("state") /\ Containing(cu.round.toLedger) <= cu.net
    /\ LET r == cu.round
           range == makeCatchupRange(r.lclAtReset, r.toLedger, cu.count)
       IN  cu' = [cu EXCEPT !.round =
                     [on |-> TRUE, toLedger |-> r.toLedger, lclAtReset |-> r.lclAtReset,
                      stage |-> "verify", range |-> range, curr |-> Containing(range.first),
                      firstVerified |-> NoHeader, lastVerified |-> NoHeader]]

\* What the result v of verifying checkpoint r.curr does to the round.
verified(c, r, v) ==
    LET first == IF r.curr = Containing(r.range.first) THEN v.curr ELSE r.firstVerified
    IN  IF ~v.ok THEN historyNotCaughtup(c)
        ELSE IF v.curr.seq = r.range.last
        THEN [c EXCEPT !.round = [r EXCEPT !.firstVerified = first, !.lastVerified = v.curr,
                                           !.stage = IF r.range.buckets THEN "buckets" ELSE "apply",
                                           !.curr = FirstOf(Containing(r.range.first))]]
        ELSE [c EXCEPT !.round = [r EXCEPT !.firstVerified = first, !.lastVerified = v.curr,
                                           !.curr = @ + CatchupFrequency]]

\* VerifyLedgerChainWork::onSuccess, once for each checkpoint.
VerifyCheckpoint ==
    /\ InStage("verify")
    /\ LET r == cu.round
       IN  cu' = IF r.curr > Containing(r.range.last) THEN [cu EXCEPT !.failed = "overshot"]
                 ELSE verified(cu, r, verifyHistoryOfSingleCheckpoint(
                          cu.files[r.curr], r.curr, r.lastVerified, r.range.last, cu.syncing))

\* applyBuckets and APPLIED_BUCKETS; curr is now the ledger read next.
ApplyBuckets ==
    /\ InStage("buckets")
    /\ LET r == cu.round
       IN  cu' = IF \/ Header(cu.states, Containing(r.range.first)) # r.firstVerified
                    \/ r.firstVerified.seq < cu.lcl.seq
                 THEN [cu EXCEPT !.failed = "assertion"]
                 ELSE [cu EXCEPT !.lcl = r.firstVerified, !.round.stage = "apply"]

\* ApplyLedgerChainWork: applyHistoryOfSingleLedger, then onSuccess.
ApplyLedger ==
    /\ InStage("apply")
    /\ LET r == cu.round
           h == Header(cu.files[Containing(r.curr)], r.curr)
           replays == h.seq = cu.lcl.seq + 1 /\ Links(cu.lcl, h)
           skips   == \/ h.seq + 1 < cu.lcl.seq
                      \/ h.seq + 1 = cu.lcl.seq /\ Links(h, cu.lcl)
                      \/ h = cu.lcl
           c == IF replays THEN [cu EXCEPT !.lcl = h] ELSE cu
       IN  cu' = IF ~replays /\ ~skips THEN historyNotCaughtup(cu)
                 ELSE IF c.lcl.seq = r.range.last THEN historyCaughtup(c)
                 ELSE [c EXCEPT !.round.curr = @ + 1]

\* A download or a replay has failed as often as it may be tried again.
RoundFails ==
    /\ cu.failed = "no" /\ cu.round.on
    /\ cu' = historyNotCaughtup(cu)

CatchupNext ==
    \/ \E missed \in 0..MaxMissed : Externalize(cu.net + missed + 1)
    \/ GetState \/ VerifyCheckpoint \/ ApplyBuckets \/ ApplyLedger \/ RoundFails

CatchupSpec == CatchupInit /\ [][CatchupNext]_cu

-----------------------------------------------------------------------------
(* Properties. *)

Honest == cu.states = "net" /\ \A c \in CheckpointSet : cu.files[c] = "net"

\* verifyCatchupCandidate, applyHistoryOfSingleLedger: whatever the archive
\* holds and wherever a round stops, the last closed ledger is one the network
\* closed.
LclOnChain == cu.lcl.chain = "net" /\ cu.lcl.seq <= cu.net

\* makeCatchupRange, VerifyLedgerChainWork, ApplyLedgerChainWork: with an
\* archive of the network's chain no step of a round fails, whatever the
\* network does meanwhile, so the range connects to the LCL and every header
\* to the next.  One case is excepted, which the code does not handle: the
\* range is the first ledger of a checkpoint alone, which is read without
\* noticing that it is the last one.
HonestRoundsSucceed ==
    [][Honest /\ (VerifyCheckpoint \/ ApplyBuckets \/ ApplyLedger) =>
          \/ cu'.state # "LM_BOOTING_STATE" /\ cu'.failed = "no"
          \/ /\ cu'.failed = "overshot"
             /\ cu.round.range.first = cu.round.range.last
             /\ cu.round.range.first = FirstOf(Containing(cu.round.range.first))]_cu

\* historyCaughtup: a node that says it is in sync has closed the ledger the
\* network closed last, unless a ledger was missed during the round: what
\* follows it was not buffered.
SyncedMeansCurrent ==
    cu.state = "LM_SYNCED_STATE" /\ cu.failed = "no" => cu.lcl.seq = cu.net \/ cu.gap
=============================================================================
