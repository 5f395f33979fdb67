------------------------------- MODULE Herder -------------------------------
(***************************************************************************)
(* The herder of one node: envelopes wait for the items they refer to, go  *)
(* to SCP in the order of their slots, and what SCP externalizes moves the *)
(* consensus state, the ledger manager and the window of slots that are    *)
(* remembered (src/src/herder/PendingEnvelopes.cpp, HerderImpl.cpp,        *)
(* HerderSCPDriver.cpp).                                                   *)
(*                                                                         *)
(* The node's state is the record h.  A handler is one operator from h to  *)
(* h that follows the calls of the code, callbacks included: an item that  *)
(* arrives resends envelopes, an envelope may externalize its slot, and    *)
(* the closed slot lets further envelopes through, all on one call stack.  *)
(***************************************************************************)
EXTENDS ItemFetcher, LedgerManager

CONSTANTS
    Envelope,      \* envelopes of other nodes of the quorum: [slot, qset, txsets, ext]
    MaxSlot,       \* model bound: the last slot envelopes are about
    Insane,        \* quorum sets that fail isQuorumSetSane
    OwnQSet,       \* the quorum set of this node
    OwnTxSet,      \* OwnTxSet[s]: the transaction set this node builds for s
    Holds,         \* Holds[p]: the items that peer p has, or gets in time
    MAX_SLOTS_TO_REMEMBER,
    LEDGER_VALIDITY_BRACKET

VARIABLE h

vars == <<h>>

Slot == 1..MaxSlot

\* The quorum set and the transaction sets of an envelope.
Items(e) == {e.qset} \cup e.txsets

Absent == -1       \* the last seen slot of an item that is not in a cache

Cached(s, i) == s.cache[i] # Absent

-----------------------------------------------------------------------------
(* The consensus state.  0 stands for the null pointers.                   *)

trackingSCP(s) == s.tracking # 0
nextConsensusLedgerIndex(s) == s.tracking + 1

getCurrentLedgerSeq(s) == Max({s.lm.lcl, s.tracking, s.lastTracking})

\* lostSync hands the consensus data over to mLastTrackingSCP.
lostSync(s) == [s EXCEPT !.lastTracking = s.tracking, !.tracking = 0]

-----------------------------------------------------------------------------
(* PendingEnvelopes.                                                       *)

OfSlots(S, keep(_)) == {e \in S : keep(e.slot)}

\* What mEnvelopes.erase leaves of the queues, and the caches' erase_if.
Forget(s, gone(_), stale(_)) ==
    [s EXCEPT !.fetching = OfSlots(@, LAMBDA n : ~gone(n)),
              !.processed = OfSlots(@, LAMBDA n : ~gone(n)),
              !.discarded = OfSlots(@, LAMBDA n : ~gone(n)),
              !.ready = [n \in Slot |-> IF gone(n) THEN << >> ELSE @[n]],
              !.cache = [i \in Item |-> IF @[i] # Absent /\ stale(@[i])
                                        THEN Absent ELSE @[i]]]

\* Last seen slot 0 marks data of unknown slot.
eraseBelow(s, slotIndex) ==
    Forget(s, LAMBDA n : n < slotIndex, LAMBDA k : k # 0 /\ k < slotIndex)

slotClosed(s, slotIndex) ==
    LET old == slotIndex - MAX_SLOTS_TO_REMEMBER
    IN  IF old <= 0 THEN s
        ELSE stopFetchingBelow(Forget(s, LAMBDA n : n = old, LAMBDA k : k = old),
                               old + 1)

\* Wrong: an item that is in use again keeps its age.
touchFetchCacheNot(s, e) == s

touchFetchCache(s, e) ==
    [s EXCEPT !.cache = [i \in Item |->
        IF i \in Items(e) /\ Cached(s, i) THEN Max({@[i], e.slot}) ELSE @[i]]]

isFullyFetched(s, e) == \A i \in Items(e) : Cached(s, i)

startFetch(s, e) ==
    FoldSet(LAMBDA i, acc : IF Cached(s, i) THEN acc ELSE fetch(acc, i, e),
            s, Items(e))

discardSCPEnvelope(s, e) ==
    IF e \in s.discarded THEN s
    ELSE FoldSet(LAMBDA i, acc : stopFetch(acc, i, e),
                 [s EXCEPT !.discarded = @ \cup {e}, !.fetching = @ \ {e}],
                 Items(e))

\* recvSCPEnvelope of PendingEnvelopes, up to the question whether the
\* envelope is complete.
enqueue(s, e) ==
    LET t == touchFetchCache(s, e)
    IN  IF e \in t.fetching THEN t
        ELSE startFetch([t EXCEPT !.fetching = @ \cup {e}], e)

envelopeReady(s, e) ==
    [s EXCEPT !.fetching = @ \ {e}, !.processed = @ \cup {e},
              !.ready[e.slot] = Append(@, e)]

ReadySlots(s) == {n \in Slot : s.ready[n] # << >>}

-----------------------------------------------------------------------------
(* HerderImpl.                                                             *)

\* Envelopes outside of the validity bracket are ignored.  The lower end is
\* the current ledger itself while fewer slots than the window have passed.
InRange(s, e) ==
    LET now == getCurrentLedgerSeq(s)
        low == IF now > MAX_SLOTS_TO_REMEMBER THEN now - MAX_SLOTS_TO_REMEMBER ELSE now
    IN  /\ e.slot >= low
        /\ trackingSCP(s) =>
              e.slot <= nextConsensusLedgerIndex(s) + LEDGER_VALIDITY_BRACKET

\* SCP's slots below the window.
purgeSlots(s, slotIndex) == [s EXCEPT !.received = OfSlots(@, LAMBDA n : n >= slotIndex)]

RECURSIVE processSCPQueueUpToIndex(_, _)
RECURSIVE processReadySlots(_, _)

\* Wrong: the trigger is set whatever externalized meanwhile.
ledgerClosedAlways(s) ==
    LET next == nextConsensusLedgerIndex(s)
        t == processSCPQueueUpToIndex(slotClosed([s EXCEPT !.trigger = 0], s.tracking), next)
    IN  IF isSynced(t.lm) THEN [t EXCEPT !.trigger = next] ELSE t

\* The trigger of the next round is set unless a later slot externalized.
ledgerClosed(s) ==
    LET next == nextConsensusLedgerIndex(s)
        t == processSCPQueueUpToIndex(slotClosed([s EXCEPT !.trigger = 0], s.tracking), next)
    IN  IF nextConsensusLedgerIndex(t) = next /\ isSynced(t.lm)
        THEN [t EXCEPT !.trigger = next] ELSE t

\* HerderImpl::valueExternalized
closeSlot(s, slotIndex) ==
    LET t == [s EXCEPT !.trackingTimer = TRUE, !.trigger = 0,
                       !.lm = lmValueExternalized(@, slotIndex)]
    IN  ledgerClosed(IF slotIndex > MAX_SLOTS_TO_REMEMBER
                     THEN purgeSlots(t, slotIndex - MAX_SLOTS_TO_REMEMBER) ELSE t)

\* The driver stops nominating and moves the consensus data.
Tracking(s, slotIndex) ==
    [s EXCEPT !.nominating = 0, !.tracking = slotIndex,
              !.lastTracking = IF @ = 0 THEN slotIndex ELSE @]

\* Wrong: an old slot that externalizes late moves the state back.
valueExternalizedAny(s, slotIndex) == closeSlot(Tracking(s, slotIndex), slotIndex)

\* HerderSCPDriver::valueExternalized
valueExternalized(s, slotIndex) ==
    IF slotIndex <= getCurrentLedgerSeq(s) THEN s
    ELSE closeSlot(Tracking(s, slotIndex), slotIndex)

isSlotCompatibleWithCurrentState(s, slotIndex) ==
    isSynced(s.lm) /\ slotIndex = s.lm.lcl + 1

\* validateValueHelper on a slot that the node has not come to.
IsFuture(s, slotIndex) ==
    /\ ~isSlotCompatibleWithCurrentState(s, slotIndex)
    /\ trackingSCP(s) /\ nextConsensusLedgerIndex(s) < slotIndex

\* SCP takes an envelope, unless its value is invalid because its slot is in
\* the future.  A slot externalizes with the first envelope that completes its
\* decision (ext); what the values say beyond that is not modelled here.
receiveEnvelope(s, e) ==
    LET t == [s EXCEPT !.received = @ \cup {e},
                       !.externalized = IF e.ext THEN @ \cup {e.slot} ELSE @]
    IN  IF IsFuture(s, e.slot) THEN s
        ELSE IF e.ext /\ e.slot \notin s.externalized
        THEN valueExternalized(t, e.slot)
        ELSE t

\* pop takes the last envelope of the lowest slot.
processSCPQueueUpToIndex(s, slotIndex) ==
    LET slots == {n \in ReadySlots(s) : n <= slotIndex}
        n == Min(slots)
    IN  IF slots = {} THEN s
        ELSE processSCPQueueUpToIndex(
                receiveEnvelope([s EXCEPT !.ready[n] = Front(@)], Last(s.ready[n])),
                slotIndex)

processReadySlots(s, slots) ==
    IF slots = {} THEN s
    ELSE LET t == processSCPQueueUpToIndex(s, Min(slots))
         IN  IF trackingSCP(t) THEN t ELSE processReadySlots(t, slots \ {Min(slots)})

processSCPQueue(s) ==
    LET next == nextConsensusLedgerIndex(s)
    IN  IF ~trackingSCP(s) THEN processReadySlots(s, ReadySlots(s))
        ELSE processSCPQueueUpToIndex(
                IF next > MAX_SLOTS_TO_REMEMBER
                THEN eraseBelow(s, next - MAX_SLOTS_TO_REMEMBER) ELSE s, next)

recvSCPEnvelope(s, e) ==
    LET t == enqueue(s, e)
    IN  IF ~InRange(s, e) \/ e \in s.discarded THEN s
        ELSE IF e \in s.processed /\ e \notin s.fetching THEN touchFetchCache(s, e)
        ELSE IF isFullyFetched(t, e) THEN processSCPQueue(envelopeReady(t, e))
        ELSE t

-----------------------------------------------------------------------------
(* Items that arrive.                                                      *)

\* ItemFetcher::recv: the envelopes that wait are resent, last one first.
RECURSIVE recv(_, _)
recv(s, i) ==
    LET t == s.trackers[i]
    IN  IF ~t.live THEN s
        ELSE IF t.waiting = << >> THEN [s EXCEPT !.trackers[i] = cancel(@)]
        ELSE recv(recvSCPEnvelope([s EXCEPT !.trackers[i].waiting = Front(@)],
                                  Last(t.waiting)), i)

\* addSCPQuorumSet and addTxSet.
addItem(s, i, lastSeen) == recv([s EXCEPT !.cache[i] = lastSeen], i)

\* recvSCPQuorumSet and recvTxSet: an item nobody looks for is ignored, and
\* an insane quorum set discards the envelopes that wait for it.
recvItem(s, i) ==
    LET t == s.trackers[i]
    IN  IF t.lastSeen = 0 THEN s
        ELSE IF i \in Insane THEN FoldLeft(discardSCPEnvelope, s, t.waiting)
        ELSE addItem(s, i, t.lastSeen)

-----------------------------------------------------------------------------
(* The events of a node.                                                   *)

RecvSCPEnvelope(e) == h' = recvSCPEnvelope(h, e)

\* A peer answers a request with the item, or that it does not have it.
Answered(p, i) == [h EXCEPT !.requests = @ \ {<<p, i>>}]

PeerHas(p, i) ==
    /\ <<p, i>> \in h.requests /\ i \in Holds[p]
    /\ h' = recvItem(Answered(p, i), i)

PeerDoesntHave(p, i) ==
    /\ <<p, i>> \in h.requests
    /\ h' = doesntHave(Answered(p, i), i, p)

\* The request or its answer is lost.
RequestLost(p, i) ==
    /\ <<p, i>> \in h.requests
    /\ h' = Answered(p, i)

FetchTimer(i) ==
    /\ h.trackers[i].timer
    /\ h' = tryNextPeer([h EXCEPT !.trackers[i].timer = FALSE], i)

StopFetchingBelow ==
    /\ h.posted # << >>
    /\ h' = stopFetchingBelowInternal([h EXCEPT !.posted = Tail(@)], Head(h.posted))

\* The node takes a position for the slot after its last closed ledger.  Its
\* transaction set may be one it was waiting for, and then slots externalize
\* before the node nominates.
TriggerNextLedger ==
    /\ h.trigger # 0 /\ h.lm.lcl < MaxSlot
    /\ LET s == [h EXCEPT !.trigger = 0]
           slotIndex == s.lm.lcl + 1
           t == addItem(s, OwnTxSet[slotIndex], slotIndex)
       IN  h' = IF ~trackingSCP(s) \/ ~isSynced(s.lm) THEN s
                ELSE IF h.trigger # slotIndex THEN t
                ELSE [t EXCEPT !.nominating = slotIndex]

HerderOutOfSync ==
    /\ h.trackingTimer
    /\ h' = processSCPQueue(lostSync([h EXCEPT !.trackingTimer = FALSE]))

\* Catchup work, on the thread of the herder, between its handlers.
HistoryApplied ==
    /\ h.lm.state = "CATCHING_UP"
    /\ \E seq \in h.lm.lcl + 1 .. Head(h.lm.syncing) - 1 :
          h' = [h EXCEPT !.lm = historyApplied(@, seq)]

HistoryCaughtup ==
    /\ h.lm.state = "CATCHING_UP" /\ h.lm.lcl + 1 = Head(h.lm.syncing)
    /\ h' = [h EXCEPT !.lm = historyCaughtup(@)]

CatchupFails ==
    /\ h.lm.state = "CATCHING_UP"
    /\ h' = [h EXCEPT !.lm = historyCaughtupError(@)]

\* A node that starts: its own quorum set is cached for ever, the consensus
\* data is that of the last closed ledger (restoreSCPState).
Init ==
    h = [fetching |-> {}, processed |-> {}, discarded |-> {},
         ready |-> [n \in Slot |-> << >>],
         cache |-> [i \in Item |-> IF i = OwnQSet THEN 0 ELSE Absent],
         trackers |-> [i \in Item |-> NoTracker], requests |-> {}, posted |-> << >>,
         tracking |-> 1, lastTracking |-> 0, trackingTimer |-> TRUE, trigger |-> 0,
         lm |-> [state |-> "BOOTING", lcl |-> 1, syncing |-> << >>],
         received |-> {}, externalized |-> {}, nominating |-> 0]

Next ==
    \/ \E e \in Envelope : RecvSCPEnvelope(e)
    \/ \E p \in Peer, i \in Item :
          PeerHas(p, i) \/ PeerDoesntHave(p, i) \/ RequestLost(p, i)
    \/ \E i \in Item : FetchTimer(i)
    \/ StopFetchingBelow
    \/ TriggerNextLedger
    \/ HerderOutOfSync
    \/ HistoryApplied
    \/ HistoryCaughtup
    \/ CatchupFails

Spec == Init /\ [][Next]_vars

\* Timers fire, and a peer that is asked for an item it holds again and again
\* answers at last (weak fairness of FetchTimer, strong fairness of PeerHas,
\* with ENABLED spelled out: TLC is slow on it).
FetchFairness ==
    /\ \A i \in Item : []<>(~h.trackers[i].timer) \/ []<><<FetchTimer(i)>>_vars
    /\ \A p \in Peer : \A i \in Holds[p] :
          <>[](<<p, i>> \notin h.requests) \/ []<><<PeerHas(p, i)>>_vars

-----------------------------------------------------------------------------
(* Properties.                                                             *)

\* The slots the herder remembers (slotClosed, eraseBelow).
InWindow(n) == n > getCurrentLedgerSeq(h) - MAX_SLOTS_TO_REMEMBER

\* SCP asks for the quorum sets and the transaction sets of the statements it
\* has received as long as their slots are in the window; the caches, which
\* drop what was last seen in a slot that leaves the window, still hold them.
ReceivedStayComplete ==
    \A e \in h.received : InWindow(e.slot) => isFullyFetched(h, e)

\* An envelope that waits for an item waits on the item's tracker, and that
\* tracker goes on asking (Tracker: "If no peer does have given data set, it
\* starts again with new set of peers").
FetchingIsAsked ==
    \A e \in h.fetching : InWindow(e.slot) =>
        \E i \in Items(e) : /\ ~Cached(h, i)
                            /\ e \in Range(h.trackers[i].waiting)
                            /\ h.trackers[i].timer

\* The ledger the node believes the network is at never goes back, whichever
\* slots externalize in whichever order, while it tracks, loses track or
\* catches up (getCurrentLedgerSeq).
CurrentLedgerAdvances == [][getCurrentLedgerSeq(h') >= getCurrentLedgerSeq(h)]_vars

\* An envelope that some peer can complete leaves the queue of those being
\* fetched: it goes to SCP, is discarded, or its slot leaves the window.
FetchingEnds ==
    \A e \in Envelope :
        (e \in h.fetching /\ \A i \in Items(e) : \E p \in Peer : i \in Holds[p])
            ~> (e \notin h.fetching \/ ~InWindow(e.slot))

\* The timer that starts the next round is set for the slot that follows the
\* last externalized one, however deeply the externalizations were nested ("if
\* externalize got called for a future slot, we don't need to trigger (the now
\* obsolete) next round", ledgerClosed).
TriggerIsNext ==
    trackingSCP(h) /\ h.trigger # 0 => h.trigger = nextConsensusLedgerIndex(h)
=============================================================================
