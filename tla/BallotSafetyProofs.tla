------------------------- MODULE BallotSafetyProofs -------------------------
(***************************************************************************)
(* Agreement of the ballot protocol: the lemmas about histories            *)
(* (BallotStepProofs) and about what stands behind an accepted ballot or   *)
(* commit (BallotAgreementProofs) give an invariant that every step and    *)
(* every restart keep.                                                     *)
(***************************************************************************)
EXTENDS BallotStepProofs, BallotAgreementProofs, FiniteSetTheorems

USE Zenon

\* isVBlocking answers TRUE only when some entry is hit.
LEMMA BlockingNotEmpty == NothingBlocks
<1>1. Cardinality({}) = 0
  BY FS_EmptySet
<1>2. ASSUME NEW q PROVE ~VBlockingDepth2(q, {})
  <2>1. {k \in DOMAIN q.validators : q.validators[k] \in {}} = {}
    OBVIOUS
  <2>2. {k \in DOMAIN q.innerSets : FALSE} = {}
    OBVIOUS
  <2>3. Hits(q, {}, LAMBDA i : FALSE) = 0
    BY SMT, <1>1, <2>1, <2>2 DEF Hits
  <2> QED BY SMT, <2>3 DEF VBlockingDepth2, VBlockingTest
<1>3. ASSUME NEW q PROVE ~VBlockingDepth1(q, {})
  <2>1. {k \in DOMAIN q.validators : q.validators[k] \in {}} = {}
    OBVIOUS
  <2>2. {k \in DOMAIN q.innerSets : VBlockingDepth2(q.innerSets[k], {})} = {}
    BY <1>2
  <2>3. Hits(q, {}, LAMBDA i : VBlockingDepth2(i, {})) = 0
    BY SMT, <1>1, <2>1, <2>2 DEF Hits
  <2> QED BY SMT, <2>3 DEF VBlockingDepth1, VBlockingTest
<1>4. ASSUME NEW q PROVE ~isVBlocking(q, {})
  <2>1. {k \in DOMAIN q.validators : q.validators[k] \in {}} = {}
    OBVIOUS
  <2>2. {k \in DOMAIN q.innerSets : VBlockingDepth1(q.innerSets[k], {})} = {}
    BY <1>3
  <2>3. Hits(q, {}, LAMBDA i : VBlockingDepth1(i, {})) = 0
    BY SMT, <1>1, <2>1, <2>2 DEF Hits
  <2> QED BY SMT, <2>3 DEF isVBlocking, VBlockingTest
<1> QED BY <1>4 DEF VBlockingSets, NothingBlocks

\* The inductive invariant: the histories of the nodes, what they know of
\* each other, and what stands behind everything they accepted.
SafetyInv == HistoryInv /\ NetOK(slot) /\ Good(slot)

\* In the first state nothing is accepted.
LEMMA InitSafety ==
    ASSUME Init
    PROVE  SafetyInv
<1>1. HistoryInv
  BY InitHistory
<1>2. ASSUME NEW n \in Node PROVE Fresh(slot[n], n, {})
  <2>1. slot[n] = InitSlot(n)
    BY DEF Init
  <2>2. {} \in SUBSET Statements
    OBVIOUS
  <2> QED BY <2>1, <2>2, InitFields
<1>3. ASSUME NEW n \in Node PROVE Pristine(slot[n]) /\ Made(slot[n]) = {} /\ slot[n].emitted = {}
  <2> DEFINE t == slot[n]
  <2>1. Fresh(t, n, {})
    BY <1>3, <1>2
  <2> HIDE DEF t
  <2>2. Made(t) = {}
    BY <2>1, FreshHistory DEF Fresh
  <2>3. Pristine(t) /\ t.emitted = {}
    BY <2>1 DEF Fresh
  <2> QED BY <2>2, <2>3 DEF t
<1>4. NetOK(slot)
  <2>1. ASSUME NEW n \in Node, NEW m \in Node PROVE slot[n].latest[m] = NoStatement
    <3>1. Fresh(slot[n], n, {})
      BY <1>2
    <3>2. slot[n].latest = [l \in Node |-> NoStatement]
      BY <3>1 DEF Fresh
    <3> QED BY <3>2
  <2>2. ASSUME NEW n \in Node PROVE HistoryOK(slot[n]) /\ slot[n].self = n
    BY <1>1, <1>2 DEF HistoryInv, Fresh
  <2> QED BY <2>1, <2>2 DEF NetOK
<1>5. Good(slot)
  BY <1>3, FirstGood
<1> QED BY <1>1, <1>4, <1>5 DEF SafetyInv

\* One case per event: a node goes on, records a statement, or starts again.
LEMMA NextSafety ==
    ASSUME QuorumIntersection, SafetyInv, [NextWithRestarts]_vars
    PROVE  SafetyInv'
<1>1. HistoryInv /\ NetOK(slot) /\ Good(slot)
  BY DEF SafetyInv
<1>2. ASSUME NEW n \in Node, NEW t, Update(n, t), HistoryOK(t), t.self = n,
             \/ slot[n].failure = "none" /\ Moves(slot[n], t)
             \/ \E m \in Node \ {n} : \E st \in slot[m].emitted : Receives(slot[n], t, m, st)
             \/ Restarts(slot[n], t)
      PROVE  SafetyInv'
  <2>1. /\ HistoryInv'
        /\ \A m \in Node : slot'[m] = IF m = n THEN t ELSE slot[m]
    BY <1>1, <1>2, UpdateKeepsHistory
  <2>2. slot'[n] = t /\ \A m \in Node \ {n} : slot'[m] = slot[m]
    BY <2>1
  <2> DEFINE T == slot'
  <2>3. /\ \A m \in Node \ {n} : T[m] = slot[m]
        /\ HistoryOK(T[n]) /\ T[n].self = n
        /\ \/ slot[n].failure = "none" /\ Moves(slot[n], T[n])
           \/ \E m \in Node \ {n} : \E st \in slot[m].emitted : Receives(slot[n], T[n], m, st)
           \/ Restarts(slot[n], T[n])
    BY <1>2, <2>2
  <2> HIDE DEF T
  <2>4. NetOK(T) /\ Good(T)
    BY <1>1, <2>3, TurnKeepsGood, BlockingNotEmpty
  <2> QED BY <2>1, <2>4 DEF T, SafetyInv, NetOK, Good
<1>3. CASE Next
  <2>1. PICK n \in Node : \E t : Turn(n, t)
    BY <1>1, <1>3, NextTurns
  <2>2. PICK t : Turn(n, t)
    BY <2>1
  <2> QED BY <1>2, <2>2 DEF Turn
<1>4. CASE \E n \in Node : Restart(n)
  <2>1. PICK n \in Node : Restart(n)
    BY <1>4
  <2>2. PICK t : Update(n, t) /\ HistoryOK(t) /\ t.self = n /\ Restarts(slot[n], t)
    BY <1>1, <2>1, RestartTurns
  <2> QED BY <1>2, <2>2
<1>5. CASE UNCHANGED vars
  <2>1. HistoryInv'
    BY <1>1, NextKeepsHistory
  <2>2. slot' = slot
    BY <1>5 DEF vars
  <2>3. NetOK(slot') /\ Good(slot')
    BY <1>1, <2>2
  <2> QED BY <2>1, <2>3 DEF SafetyInv, NetOK, Good
<1> QED BY <1>3, <1>4, <1>5 DEF NextWithRestarts

LEMMA SafetyInductive == QuorumIntersection => (SpecWithRestarts => []SafetyInv)
<1> SUFFICES ASSUME QuorumIntersection PROVE SpecWithRestarts => []SafetyInv
  OBVIOUS
<1>1. Init => SafetyInv
  BY InitSafety
<1>2. SafetyInv /\ [NextWithRestarts]_vars => SafetyInv'
  BY NextSafety
<1> QED BY <1>1, <1>2, PTL DEF SpecWithRestarts

-----------------------------------------------------------------------------
(* The theorems.                                                           *)

\* For every network whose quorums pairwise intersect, and over restarts: once
\* a node has accepted a commit (setAcceptCommit), no node has accepted as
\* prepared a ballot of another value at or above it, whatever the order in
\* which statements, timers and candidates reach the nodes.
THEOREM CommitsAreProtected == QuorumIntersection => (SpecWithRestarts => []CommitProtected)
<1>1. ASSUME SafetyInv PROVE CommitProtected
  <2>1. NetOK(slot) /\ Good(slot)
    BY <1>1 DEF SafetyInv
  <2> QED BY <2>1, GoodProtects DEF CommitProtected
<1> QED BY <1>1, SafetyInductive, PTL

\* For every network whose quorums pairwise intersect, every value set and
\* bound, and over restarts from the saved statement: no two nodes hand
\* different values of the slot to their drivers (setConfirmCommit).
THEOREM NodesAgree == QuorumIntersection => (SpecWithRestarts => []Agreement)
<1>1. ASSUME SafetyInv PROVE Agreement
  <2>1. Good(slot)
    BY <1>1 DEF SafetyInv
  <2>2. ASSUME NEW n \in Node, slot[n].phase = "EXTERNALIZE" PROVE slot[n].phase # "PREPARE"
    BY <2>2
  <2> QED BY <2>1, <2>2, GoodAgrees DEF Agreement
<1> QED BY <1>1, SafetyInductive, PTL

=============================================================================
