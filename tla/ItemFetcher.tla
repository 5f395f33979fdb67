---------------------------- MODULE ItemFetcher ----------------------------
(***************************************************************************)
(* Fetching the quorum sets and transaction sets that envelopes refer to   *)
(* (src/src/overlay/ItemFetcher.cpp, src/src/overlay/Tracker.cpp).         *)
(*                                                                         *)
(* The two fetchers of PendingEnvelopes are one function from items to     *)
(* trackers.  Operators take and return a record f with the fields         *)
(*    trackers   the tracker of each item, NoTracker when it has none      *)
(*    requests   the requests <<peer, item>> that may still be answered    *)
(*    posted     the stopFetchingBelow calls that wait in the io queue     *)
(***************************************************************************)
EXTENDS Integers, Sequences, SequencesExt

CONSTANTS
    Item,        \* hashes of quorum sets and of transaction sets
    Peer,        \* authenticated peers
    PeerOrder,   \* the order in which getRandomPeers returns them
    NoPeer

ASSUME NoPeerAssumption == NoPeer \notin Peer

NoTracker ==
    [live |-> FALSE, waiting |-> << >>, lastSeen |-> 0, timer |-> FALSE,
     asked |-> NoPeer, toAsk |-> << >>]

NewTracker == [NoTracker EXCEPT !.live = TRUE]

\* Wrong: the timer is not set once all peers have been asked.
tryNextPeerOnce(f, i) ==
    LET t == f.trackers[i]
        list == IF t.toAsk = << >> /\ t.asked = NoPeer THEN PeerOrder ELSE t.toAsk
    IN  IF list = << >> THEN [f EXCEPT !.trackers[i].asked = NoPeer]
        ELSE [f EXCEPT !.trackers[i].asked = Last(list),
                       !.trackers[i].toAsk = Front(list),
                       !.trackers[i].timer = TRUE,
                       !.requests = @ \cup {<<Last(list), i>>}]

\* Asks the next peer of the list, which is built anew when it is used up and
\* nobody is being asked; sets the timer in any case.
tryNextPeer(f, i) ==
    LET t == f.trackers[i]
        list == IF t.toAsk = << >> /\ t.asked = NoPeer THEN PeerOrder ELSE t.toAsk
    IN  IF list = << >>
        THEN [f EXCEPT !.trackers[i].asked = NoPeer, !.trackers[i].timer = TRUE]
        ELSE [f EXCEPT !.trackers[i].asked = Last(list),
                       !.trackers[i].toAsk = Front(list),
                       !.trackers[i].timer = TRUE,
                       !.requests = @ \cup {<<Last(list), i>>}]

listen(t, e) ==
    [t EXCEPT !.waiting = Append(@, e),
              !.lastSeen = IF e.slot > @ THEN e.slot ELSE @]

\* A tracker that exists already is only told about the envelope, even when
\* its timer was stopped.
fetch(f, i, e) ==
    IF f.trackers[i].live THEN [f EXCEPT !.trackers[i] = listen(@, e)]
    ELSE tryNextPeer([f EXCEPT !.trackers[i] = listen(NewTracker, e)], i)

cancel(t) == [t EXCEPT !.timer = FALSE, !.lastSeen = 0]

\* discard, and the timer stops when nobody waits any more; the tracker and
\* the peer it asked last stay.
stopFetch(f, i, e) ==
    LET left == SelectSeq(f.trackers[i].waiting, LAMBDA x : x # e)
        t == [f.trackers[i] EXCEPT !.waiting = left]
    IN  IF ~f.trackers[i].live THEN f
        ELSE [f EXCEPT !.trackers[i] = IF left = << >> THEN cancel(t) ELSE t]

\* clearEnvelopesBelow for every tracker; one that nobody waits on is erased.
stopFetchingBelowInternal(f, slotIndex) ==
    LET left(i) == SelectSeq(f.trackers[i].waiting, LAMBDA e : e.slot >= slotIndex)
    IN  [f EXCEPT !.trackers =
            [i \in Item |-> IF left(i) = << >> THEN NoTracker
                            ELSE [f.trackers[i] EXCEPT !.waiting = left(i)]]]

stopFetchingBelow(f, slotIndex) == [f EXCEPT !.posted = Append(@, slotIndex)]

\* A peer that was not asked last is not listened to.
doesntHave(f, i, p) == IF f.trackers[i].asked = p THEN tryNextPeer(f, i) ELSE f
=============================================================================
