-------------------------- MODULE BallotStepProofs --------------------------
(***************************************************************************)
(* Every method of the class makes a step that CoreStep lists, and every   *)
(* event of the network keeps HistoryOK. Three theorems follow, for every  *)
(* network, value set and bound: peers are told the state of a node that   *)
(* rests, what a node sends is newer than all it sent before, and a node   *)
(* keeps the commit it accepted.                                           *)
(***************************************************************************)
EXTENDS BallotHistoryProofs

USE Zenon

-----------------------------------------------------------------------------
(* The methods that change the state.                                      *)

\* What p or p' aborts stays aborted (setPrepared).
LEMMA setPreparedAborts ==
    ASSUME NEW s, SlotOK(s), NEW b \in Ballots,
           s.prepared = NoBallot \/ ~areBallotsLessAndCompatible(b, s.prepared),
           NEW c \in Counters, NEW v \in Values, StateAborts(s, c, v)
    PROVE  StateAborts(setPrepared(s, b), c, v)
<1> DEFINE p == s.prepared
           q == s.preparedPrime
           t == setPrepared(s, b)
<1> SUFFICES \E y \in {t.prepared, t.preparedPrime} \ {NoBallot} : Against(y, c, v)
  BY DEF StateAborts
<1>0. PICK x \in {p, q} \ {NoBallot} : Against(x, c, v)
  BY DEF StateAborts
<1>1. p \in Ballots /\ q \in Ballots /\ PrimeOK(q, p)
  BY DEF SlotOK, SlotStates
<1>2. p # NoBallot
  BY <1>0, <1>1 DEF PrimeOK
<1>3. x \in Ballots /\ LessEq(x, p) /\ (x = p \/ x = q)
  BY <1>0, <1>1 DEF PrimeOK, areBallotsLessAndIncompatible, LessEq
<1>4. p.value # v => Against(p, c, v)
  BY <1>0, <1>1, <1>3, AgainstHigher
<1>5. CASE Less(p, b)
  <2> DEFINE y == IF areBallotsCompatible(p, b) THEN q ELSE p
  <2>1. t = [s EXCEPT !.preparedPrime = y, !.prepared = b]
    BY <1>2, <1>5 DEF setPrepared
  <2> HIDE DEF y
  <2>2. t.prepared = b /\ t.preparedPrime = y
    BY <2>1 DEF SlotOK, SlotStates
  <2> HIDE DEF t
  <2>3. CASE b.value # v
    <3>2. LessEq(x, b)
      BY <1>1, <1>5, <1>3, LessTransitive DEF LessEq
    <3>3. Against(b, c, v) /\ b # NoBallot
      BY <1>0, <1>3, <2>3, <3>2, AgainstHigher
    <3> QED BY <2>2, <3>3
  <2>4. CASE b.value = v
    <3>1. CASE areBallotsCompatible(p, b)
      <4>1. y = q
        BY <3>1 DEF y
      <4>3. p.value = v
        BY <2>4, <3>1 DEF areBallotsCompatible
      <4>2. x = q
        BY <1>0, <1>3, <4>3 DEF Against
      <4> QED BY <1>0, <2>2, <4>1, <4>2
    <3>2. CASE ~areBallotsCompatible(p, b)
      <4>1. y = p
        BY <3>2 DEF y
      <4>2. p.value # v
        BY <2>4, <3>2 DEF areBallotsCompatible
      <4>3. Against(p, c, v)
        BY <1>4, <4>2
      <4> QED BY <1>2, <2>2, <4>1, <4>3
    <3> QED BY <3>1, <3>2
  <2> QED BY <2>3, <2>4
<1>6. CASE ~Less(p, b) /\ Less(b, p) /\ (q = NoBallot \/ Less(q, b))
  <2>1. t = [s EXCEPT !.preparedPrime = b]
    BY <1>2, <1>6 DEF setPrepared
  <2>2. t.prepared = p /\ t.preparedPrime = b
    BY <2>1 DEF SlotOK, SlotStates
  <2> HIDE DEF t
  <2>3. CASE p.value # v
    BY <1>2, <1>4, <2>2, <2>3
  <2>4. CASE p.value = v
    <3>1. x = q /\ q # NoBallot
      BY <1>0, <1>3, <2>4 DEF Against
    <3>2. b.value # v
      <4>1. ~areBallotsLessAndCompatible(b, p) /\ LessEq(b, p)
        BY <1>2, <1>6 DEF LessEq
      <4> QED BY <2>4, <4>1 DEF areBallotsLessAndCompatible, areBallotsCompatible
    <3>3. Against(b, c, v) /\ b # NoBallot
      <4>1. LessEq(x, b)
        BY <1>6, <3>1 DEF LessEq
      <4> QED BY <1>0, <1>3, <3>2, <4>1, AgainstHigher
    <3> QED BY <2>2, <3>3
  <2> QED BY <2>3, <2>4
<1>7. CASE ~Less(p, b) /\ ~(Less(b, p) /\ (q = NoBallot \/ Less(q, b)))
  <2>1. t = s
    BY <1>2, <1>7 DEF setPrepared
  <2> QED BY <1>0, <2>1
<1> QED BY <1>5, <1>6, <1>7

LEMMA bumpFields ==
    ASSUME NEW s, SlotOK(s), NEW b \in Ballots, NEW t, t = bumpToBallot(s, b)
    PROVE  /\ SlotOK(t) /\ SameBook(s, t) /\ t.currentBallot = b
           /\ t.phase = s.phase /\ t.prepared = s.prepared /\ t.preparedPrime = s.preparedPrime
           /\ t.commit = s.commit /\ t.highBallot = s.highBallot
<1> DEFINE tm == s.timer \/ s.currentBallot # b
           u == [s EXCEPT !.currentBallot = b, !.heardFromQuorum = FALSE, !.timer = tm]
<1>1. t = u
  BY DEF bumpToBallot
<1>2. SlotOK(t)
  BY bumpToBallotKeeps DEF Keeps
<1> HIDE DEF tm
<1>3. /\ SameBook(s, u) /\ u.currentBallot = b
      /\ u.phase = s.phase /\ u.prepared = s.prepared /\ u.preparedPrime = s.preparedPrime
      /\ u.commit = s.commit /\ u.highBallot = s.highBallot
  BY DEF SlotOK, SlotStates, SameBook
<1> HIDE DEF u
<1> QED BY SMT, <1>1, <1>2, <1>3

LEMMA updateIfNeededFields ==
    ASSUME NEW s, SlotOK(s), NEW t, t = updateCurrentIfNeeded(s)
    PROVE  /\ SlotOK(t) /\ SameBook(s, t)
           /\ t.phase = s.phase /\ t.prepared = s.prepared /\ t.preparedPrime = s.preparedPrime
           /\ t.commit = s.commit /\ t.highBallot = s.highBallot
<1>1. s.highBallot \in Ballots
  BY DEF SlotOK, SlotStates
<1>2. CASE t = s
  BY <1>2 DEF SameBook
<1>3. CASE t = bumpToBallot(s, s.highBallot)
  BY SMT, <1>1, <1>3, bumpFields
<1> QED BY <1>2, <1>3 DEF updateCurrentIfNeeded

\* The new state of bumpState(value, n).
LEMMA bumpStateToOutcome ==
    ASSUME NEW s, SlotOK(s), s.failure = "none",
           NEW v \in Value \cup {NoValue}, NEW c \in Counters,
           NEW t, t = bumpStateTo(s, v, c)
    PROVE  Outcome(s, t)
<1>1. CASE t = s
  BY <1>1 DEF Outcome
<1>2. CASE t # s
  <2> DEFINE w == IF s.highBallot # NoBallot THEN s.highBallot.value ELSE v
             b == Ballot(c, w)
             x == IF s.currentBallot = b THEN s ELSE bumpToBallot(s, b)
             y == updateCurrentValue(s, b)
  <2>1. w \in Value \cup {NoValue}
    BY DEF SlotOK, SlotStates, Ballots
  <2>2. b \in Ballots
    <3> HIDE DEF w
    <3> QED BY <2>1, BallotType
  <2>3. /\ s.phase # "EXTERNALIZE"
        /\ t = IF y = s \/ y.failure # "none" THEN y ELSE emitCurrentStateStatement(y)
    BY <1>2 DEF bumpStateTo
  <2>4. y \in {s, abort(s), x, abort(x)}
    BY DEF updateCurrentValue
  <2> HIDE DEF y, b
  <2>5. /\ SlotOK(x) /\ SameBook(s, x) /\ x.phase = s.phase
        /\ CoreStep(s, x)
    <3>1. CASE s.currentBallot = b
      <4>1. x = s
        BY <3>1
      <4> QED BY <4>1 DEF SameBook, CoreStep, SameCore
    <3>2. CASE s.currentBallot # b
      <4>1. x = bumpToBallot(s, b)
        BY <3>2
      <4> HIDE DEF x
      <4>2. /\ SlotOK(x) /\ SameBook(s, x)
            /\ x.phase = s.phase /\ x.prepared = s.prepared /\ x.preparedPrime = s.preparedPrime
            /\ x.commit = s.commit /\ x.highBallot = s.highBallot
        BY SMT, <2>2, <4>1, bumpFields
      <4> QED BY <2>3, <4>2 DEF CoreStep, BumpStep
    <3> QED BY <3>1, <3>2
  <2> HIDE DEF x
  <2>6. SameBook(s, s) /\ CoreStep(s, s) /\ x.failure = "none"
    BY <2>5 DEF SameBook, CoreStep, SameCore
  <2>7. CASE y = abort(s)
    <3>1. y.failure # "none"
      BY <2>7 DEF abort, SlotOK, SlotStates
    <3>2. Ends(s, t)
      BY <2>3, <2>7, <3>1 DEF Ends
    <3> QED BY <2>3, <2>6, <3>2 DEF Outcome
  <2>8. CASE y = abort(x)
    <3>1. y.failure # "none"
      BY <2>5, <2>8 DEF abort, SlotOK, SlotStates
    <3>2. Ends(x, t)
      BY <2>3, <2>8, <3>1 DEF Ends
    <3> QED BY <2>3, <2>5, <3>2 DEF Outcome
  <2>9. CASE y = x
    <3>1. Ends(x, t)
      BY <1>2, <2>3, <2>6, <2>9 DEF Ends
    <3> QED BY <2>3, <2>5, <3>1 DEF Outcome
  <2> QED BY <1>2, <2>3, <2>4, <2>7, <2>8, <2>9
<1> QED BY <1>1, <1>2

LEMMA bumpStateOutcome ==
    ASSUME NEW s, SlotOK(s), s.failure = "none", NEW v \in Value \cup {NoValue},
           NEW force \in BOOLEAN, NEW t, t = bumpState(s, v, force)
    PROVE  Outcome(s, t)
<1> DEFINE c == (s.currentBallot.counter + 1) % (UINT32_MAX + 1)
<1>1. c \in Counters
  BY NextCounterType DEF SlotOK, SlotStates, Ballots
<1>2. t = s \/ t = bumpStateTo(s, v, c)
  BY DEF bumpState
<1> HIDE DEF c
<1>3. CASE t = s
  BY <1>3 DEF Outcome
<1>4. CASE t = bumpStateTo(s, v, c)
  BY <1>1, <1>4, bumpStateToOutcome
<1> QED BY <1>2, <1>3, <1>4

LEMMA abandonBallotOutcome ==
    ASSUME NEW s, SlotOK(s), s.failure = "none", NEW c \in Counters,
           NEW t, t = abandonBallot(s, c)
    PROVE  Outcome(s, t)
<1> DEFINE v == IF s.candidate # NoValue THEN s.candidate ELSE s.currentBallot.value
           d == (s.currentBallot.counter + 1) % (UINT32_MAX + 1)
<1>1. v \in Value \cup {NoValue} /\ d \in Counters
  BY NextCounterType DEF SlotOK, SlotStates, Ballots
<1>2. t \in {s, bumpStateTo(s, v, d), bumpStateTo(s, v, c)}
  BY DEF abandonBallot, bumpState
<1> HIDE DEF v, d
<1>3. CASE t = s
  BY <1>3 DEF Outcome
<1>4. CASE t = bumpStateTo(s, v, c)
  BY <1>1, <1>4, bumpStateToOutcome
<1>5. CASE t = bumpStateTo(s, v, d)
  BY <1>1, <1>5, bumpStateToOutcome
<1> QED BY <1>2, <1>3, <1>4, <1>5

LEMMA setPreparedFields ==
    ASSUME NEW s, SlotOK(s), NEW b \in Ballots, NEW t, t = setPrepared(s, b)
    PROVE  /\ SameBook(s, t) /\ t.phase = s.phase /\ t.currentBallot = s.currentBallot
           /\ t.highBallot = s.highBallot /\ t.commit = s.commit
           /\ t.prepared \in {s.prepared, b}
           /\ t.preparedPrime \in {s.prepared, s.preparedPrime, b}
<1> DEFINE With(x, y) == [s EXCEPT !.preparedPrime = y, !.prepared = x]
           Fields(u) == /\ SameBook(s, u) /\ u.phase = s.phase /\ u.currentBallot = s.currentBallot
                        /\ u.highBallot = s.highBallot /\ u.commit = s.commit
<1>1. ASSUME NEW x, NEW y
      PROVE  With(x, y).prepared = x /\ With(x, y).preparedPrime = y /\ Fields(With(x, y))
  BY DEF SlotOK, SlotStates, SameBook
<1>2. /\ [s EXCEPT !.prepared = b] = With(b, s.preparedPrime)
      /\ [s EXCEPT !.preparedPrime = b] = With(s.prepared, b)
      /\ s = With(s.prepared, s.preparedPrime)
  BY DEF SlotOK, SlotStates
<1>3. \E x \in {s.prepared, b}, y \in {s.prepared, s.preparedPrime, b} : t = With(x, y)
  <2>1. t \in {[s EXCEPT !.prepared = b], With(b, s.preparedPrime), With(b, s.prepared),
               [s EXCEPT !.preparedPrime = b], s}
    BY DEF setPrepared
  <2> HIDE DEF With
  <2> QED BY <1>2, <2>1
<1>4. PICK x \in {s.prepared, b}, y \in {s.prepared, s.preparedPrime, b} : t = With(x, y)
  BY <1>3
<1>5. t.prepared = x /\ t.preparedPrime = y /\ Fields(t)
  <2> HIDE DEF With, Fields
  <2> QED BY SMT, <1>1, <1>4
<1> QED BY <1>4, <1>5

LEMMA setPreparedAcceptOutcome ==
    ASSUME NEW s, SlotOK(s), NEW b \in Ballots,
           s.prepared = NoBallot \/ ~areBallotsLessAndCompatible(b, s.prepared),
           s.phase # "EXTERNALIZE", AcceptsPrepared(s, b),
           s.phase = "CONFIRM" => areBallotsLessAndCompatible(s.prepared, b),
           NEW t, t = setPreparedAccept(s, b)
    PROVE  Outcome(s, t)
<1> DEFINE x == setPrepared(s, b)
           clear == /\ x.commit # NoBallot /\ x.highBallot # NoBallot
                    /\ \E p \in {x.prepared, x.preparedPrime} \ {NoBallot} :
                           areBallotsLessAndIncompatible(x.highBallot, p)
           y == [x EXCEPT !.commit = NoBallot]
<1>1. /\ SameBook(s, x) /\ x.phase = s.phase /\ x.currentBallot = s.currentBallot
      /\ x.highBallot = s.highBallot /\ x.commit = s.commit
      /\ x.prepared \in {s.prepared, b}
      /\ x.preparedPrime \in {s.prepared, s.preparedPrime, b}
  <2> HIDE DEF x
  <2> QED BY setPreparedFields DEF x
<1>2. SlotOK(x)
  BY setPreparedKeeps DEF Keeps
<1>3. \A c \in Counters, v \in Values : StateAborts(s, c, v) => StateAborts(x, c, v)
  BY setPreparedAborts
<1>4. s.phase = "CONFIRM" => areBallotsLessAndCompatible(s.prepared, x.prepared)
  BY <1>1 DEF areBallotsLessAndCompatible, areBallotsCompatible, LessEq
<1>5. \/ t = s
      \/ clear /\ s.phase # "PREPARE" /\ t = abort(x)
      \/ clear /\ s.phase = "PREPARE" /\ t = emitCurrentStateStatement(y)
      \/ ~clear /\ t = emitCurrentStateStatement(x)
  BY DEF setPreparedAccept
<1> HIDE DEF x, clear
<1>6. AcceptPreparedStep(s, x)
  BY <1>1, <1>3, <1>4 DEF AcceptPreparedStep
<1>7. x.phase # "EXTERNALIZE"
  BY <1>1
<1>8. CASE clear /\ s.phase = "PREPARE" /\ t = emitCurrentStateStatement(y)
  <2>1. /\ SlotOK(y) /\ SameBook(x, y) /\ y.phase = x.phase
        /\ y.currentBallot = x.currentBallot /\ y.highBallot = x.highBallot
        /\ y.prepared = x.prepared /\ y.preparedPrime = x.preparedPrime /\ y.commit = NoBallot
    BY <1>2, NoBallotType DEF SlotOK, SlotStates, SameBook
  <2> HIDE DEF y
  <2>2. SameBook(s, y)
    BY <1>1, <2>1 DEF SameBook
  <2>3. \A c \in Counters, v \in Values : StateAborts(s, c, v) => StateAborts(y, c, v)
    BY <1>3, <2>1 DEF StateAborts
  <2>4. \E p \in {y.prepared, y.preparedPrime} \ {NoBallot} :
            areBallotsLessAndIncompatible(s.highBallot, p)
    BY <1>1, <1>8, <2>1 DEF clear
  <2>5. s.phase = "CONFIRM" => areBallotsLessAndCompatible(s.prepared, y.prepared)
    BY <1>4, <2>1
  <2>6. /\ y.phase = s.phase /\ y.currentBallot = s.currentBallot
        /\ y.highBallot = s.highBallot
        /\ {y.prepared, y.preparedPrime} \subseteq {s.prepared, s.preparedPrime, b}
    BY <1>1, <2>1
  <2>7. AcceptPreparedStep(s, y)
    BY <1>8, <2>1, <2>3, <2>4, <2>5, <2>6 DEF AcceptPreparedStep
  <2>8. Ends(y, t)
    BY <1>8 DEF Ends
  <2> QED BY <2>1, <2>2, <2>6, <2>7, <2>8 DEF Outcome, CoreStep
<1>9. CASE t = abort(x) \/ t = emitCurrentStateStatement(x)
  <2>1. Ends(x, t)
    BY <1>9 DEF Ends
  <2> QED BY <1>1, <1>2, <1>6, <1>7, <2>1 DEF Outcome, CoreStep
<1> QED BY <1>5, <1>8, <1>9 DEF Outcome

LEMMA attemptPreparedAcceptOutcome ==
    ASSUME NEW s, SlotOK(s), NEW hint \in Statements,
           NEW t, t = attemptPreparedAccept(s, hint)
    PROVE  Outcome(s, t)
<1> DEFINE considered ==
               {b \in getPrepareCandidates(s, hint) :
                   s.phase = "CONFIRM" => areBallotsLessAndCompatible(s.prepared, b)}
           useful ==
               {b \in considered :
                   /\ s.preparedPrime = NoBallot \/ Less(s.preparedPrime, b)
                   /\ s.prepared = NoBallot \/ ~areBallotsLessAndCompatible(b, s.prepared)}
           accepted == {b \in useful : AcceptsPrepared(s, b)}
           b0 == Highest(accepted)
<1>1. \/ t = s
      \/ t = abort(s) /\ s.phase # "EXTERNALIZE"
      \/ t = setPreparedAccept(s, b0) /\ accepted # {} /\ s.phase # "EXTERNALIZE"
  BY DEF attemptPreparedAccept, AcceptsPrepared
<1>2. CASE t = abort(s) /\ s.phase # "EXTERNALIZE"
  <2>1. Ends(s, t) /\ SameBook(s, s) /\ SameCore(s, s)
    BY <1>2 DEF Ends, SameBook, SameCore
  <2> QED BY <1>2, <2>1 DEF Outcome, CoreStep
<1>3. CASE t = setPreparedAccept(s, b0) /\ accepted # {} /\ s.phase # "EXTERNALIZE"
  <2>1. accepted \subseteq Ballots
    BY getPrepareCandidatesType
  <2>2. b0 \in accepted
    <3> HIDE DEF accepted
    <3> QED BY <1>3, <2>1, HighestMember
  <2>3. /\ b0 \in Ballots /\ AcceptsPrepared(s, b0)
        /\ s.prepared = NoBallot \/ ~areBallotsLessAndCompatible(b0, s.prepared)
        /\ s.phase = "CONFIRM" => areBallotsLessAndCompatible(s.prepared, b0)
    <3> HIDE DEF b0
    <3> QED BY <2>1, <2>2
  <2> HIDE DEF b0
  <2> QED BY <1>3, <2>3, setPreparedAcceptOutcome
<1> QED BY <1>1, <1>2, <1>3 DEF Outcome

LEMMA attemptPreparedConfirmedOutcome ==
    ASSUME NEW s, SlotOK(s), NEW hint \in Statements,
           NEW t, t = attemptPreparedConfirmed(s, hint)
    PROVE  Outcome(s, t)
<1> DEFINE candidates == getPrepareCandidates(s, hint)
           raising == {b \in candidates : Less(s.highBallot, b) /\ ConfirmsPrepared(s, b)}
           newH == Highest(raising)
           mayCommit == /\ s.commit = NoBallot
                        /\ \A p \in {s.prepared, s.preparedPrime} \ {NoBallot} :
                               ~areBallotsLessAndIncompatible(newH, p)
           below == {b \in candidates :
                       /\ LessEq(b, newH) /\ LessEq(s.currentBallot, b)
                       /\ \A x \in candidates :
                             LessEq(b, x) /\ LessEq(x, newH) => ConfirmsPrepared(s, x)}
           newC == IF mayCommit /\ below # {} THEN Lowest(below) ELSE NoBallot
<1>1. \/ t = s
      \/ t = setPreparedConfirmed(s, newC, newH) /\ raising # {} /\ s.phase = "PREPARE"
  BY DEF attemptPreparedConfirmed, ConfirmsPrepared
<1>2. CASE t # s /\ t = setPreparedConfirmed(s, newC, newH) /\ raising # {} /\ s.phase = "PREPARE"
  <2>1. candidates \subseteq Ballots
    BY getPrepareCandidatesType
  <2> HIDE DEF candidates
  <2>2. raising \subseteq Ballots /\ below \subseteq Ballots
    <3> HIDE DEF newH
    <3> QED BY <2>1
  <2>3. newH \in raising
    <3> HIDE DEF raising
    <3> QED BY <1>2, <2>2, HighestMember
  <2>4. newH \in Ballots /\ Less(s.highBallot, newH) /\ ConfirmsPrepared(s, newH)
    <3> HIDE DEF newH
    <3> QED BY <2>2, <2>3
  <2>5. /\ newC \in Ballots
        /\ newC = NoBallot \/ (s.commit = NoBallot /\ LessEq(s.currentBallot, newC))
    <3>1. CASE mayCommit /\ below # {}
      <4>1. newC = Lowest(below)
        BY <3>1
      <4>2. newC \in below
        <5> HIDE DEF below, newC
        <5> QED BY <2>2, <3>1, <4>1, LowestMember
      <4> HIDE DEF newC, newH
      <4> QED BY <2>2, <3>1, <4>2
    <3>2. CASE ~(mayCommit /\ below # {})
      <4>1. newC = NoBallot
        BY <3>2
      <4> QED BY <4>1, NoBallotType
    <3> QED BY <3>1, <3>2
  <2> HIDE DEF newC, newH, raising
  <2> DEFINE h == IF Less(s.highBallot, newH) THEN newH ELSE s.highBallot
             c == IF newC.counter # 0 THEN newC ELSE s.commit
             x == [s EXCEPT !.highBallot = h, !.commit = c]
             u == updateCurrentIfNeeded(x)
  <2>6. t = emitCurrentStateStatement(u)
    BY <1>2 DEF setPreparedConfirmed
  <2>7. h = newH
    BY <2>4
  <2>8. /\ c \in Ballots
        /\ c = s.commit \/ (s.commit = NoBallot /\ LessEq(s.currentBallot, c))
    <3>1. s.commit \in Ballots
      BY DEF SlotOK, SlotStates
    <3>2. NoBallot.counter = 0
      BY DEF NoBallot
    <3> QED BY <2>5, <3>1, <3>2
  <2> HIDE DEF h, c
  <2>9. /\ SlotOK(x) /\ SameBook(s, x) /\ x.phase = s.phase
        /\ x.prepared = s.prepared /\ x.preparedPrime = s.preparedPrime
        /\ x.highBallot = h /\ x.commit = c
    BY <2>4, <2>7, <2>8 DEF SlotOK, SlotStates, SameBook
  <2> HIDE DEF x
  <2>10. /\ SlotOK(u) /\ SameBook(x, u)
         /\ u.phase = x.phase /\ u.prepared = x.prepared /\ u.preparedPrime = x.preparedPrime
         /\ u.commit = x.commit /\ u.highBallot = x.highBallot
    <3> HIDE DEF u
    <3> QED BY <2>9, updateIfNeededFields DEF u
  <2> HIDE DEF u
  <2>11. ConfirmPreparedStep(s, u)
    <3>1. /\ u.phase = "PREPARE" /\ u.highBallot = newH /\ u.commit = c
          /\ u.prepared = s.prepared /\ u.preparedPrime = s.preparedPrime
      BY <1>2, <2>7, <2>9, <2>10
    <3> QED BY <1>2, <2>4, <2>8, <3>1 DEF ConfirmPreparedStep
  <2>12. SameBook(s, u) /\ u.phase # "EXTERNALIZE"
    BY <1>2, <2>9, <2>10 DEF SameBook
  <2>13. Ends(u, t)
    BY <2>6 DEF Ends
  <2> QED BY <2>10, <2>11, <2>12, <2>13 DEF Outcome, CoreStep
<1> QED BY <1>1, <1>2 DEF Outcome

\* The interval that is found is good, and in order.
LEMMA findExtendedIntervalGood ==
    ASSUME NEW B \in SUBSET Counters, NEW good, NEW i, i = findExtendedInterval(B, good),
           i[1] # 0
    PROVE  /\ i[1] \in Counters /\ i[2] \in Counters
           /\ i[1] \in B /\ i[2] \in B /\ <<i[1], i[2]>> \in good /\ i[1] <= i[2]
<1> DEFINE alone == {b \in B : <<b, b>> \in good}
           high  == Top(alone)
           lows  == {b \in B :
                       /\ b <= high
                       /\ \A x \in B : b <= x /\ x <= high => <<x, high>> \in good}
           low == Bottom(lows)
<1>1. i = IF alone = {} THEN NoInterval ELSE <<low, high>>
  BY DEF findExtendedInterval
<1>2. alone # {}
  <2>1. NoInterval[1] = 0
    BY DEF NoInterval
  <2> QED BY <1>1, <2>1
<1>3. i[1] = low /\ i[2] = high
  <2>1. i = <<low, high>>
    BY <1>1, <1>2
  <2> HIDE DEF low, high
  <2> QED BY SMT, <2>1
<1>4. alone \subseteq Counters /\ lows \subseteq Counters
  BY SMTT(30)
<1>5. high \in alone
  <2> HIDE DEF alone
  <2> QED BY SMTT(30), <1>2, <1>4, BottomTopMember
<1>6. high \in B /\ <<high, high>> \in good /\ high \in Nat
  BY <1>4, <1>5, CountersAreNat
<1>7. \A x \in B : x \in Nat
  BY CountersAreNat
<1> HIDE DEF high, alone
<1>8. \A x \in B : high <= x /\ x <= high => x = high
  BY SMTT(30), <1>6, <1>7
<1>9. high \in lows
  <2>1. high <= high
    BY SMTT(30), <1>6
  <2>2. \A x \in B : high <= x /\ x <= high => <<x, high>> \in good
    BY <1>6, <1>8
  <2> QED BY <1>6, <2>1, <2>2
<1>10. low \in lows
  <2> HIDE DEF lows
  <2> QED BY SMTT(30), <1>4, <1>9, BottomTopMember
<1> HIDE DEF low
<1>11. low \in B /\ low <= high /\ low <= low
  <2>1. low \in B /\ low <= high
    BY <1>10
  <2> QED BY SMTT(30), <1>7, <2>1
<1>12. <<low, high>> \in good
  BY <1>10, <1>11
<1> QED BY <1>3, <1>4, <1>6, <1>11, <1>12

LEMMA setAcceptCommitOutcome ==
    ASSUME NEW s, SlotOK(s), s.phase # "EXTERNALIZE",
           NEW v \in Values, NEW i \in Counters, NEW j \in Counters,
           i # 0, i <= j, AcceptsCommit(s, v, i, j),
           s.phase = "CONFIRM" => v = s.highBallot.value /\ s.highBallot.counter < j,
           NEW t, t = setAcceptCommit(s, Ballot(i, v), Ballot(j, v))
    PROVE  Outcome(s, t)
<1> DEFINE c == Ballot(i, v)
           h == Ballot(j, v)
           x == [s EXCEPT !.commit = c, !.highBallot = h]
           w == IF /\ s.currentBallot # NoBallot
                   /\ ~areBallotsLessAndCompatible(h, s.currentBallot)
                THEN bumpToBallot(x, h) ELSE x
           y == [w EXCEPT !.phase = "CONFIRM", !.preparedPrime = NoBallot]
           z == IF s.phase # "PREPARE" THEN x ELSE y
           u == updateCurrentIfNeeded(z)
<1>1. c \in Ballots /\ h \in Ballots
  BY BallotType DEF Values
<1>2. t = s \/ t = emitCurrentStateStatement(u)
  BY DEF setAcceptCommit
<1> HIDE DEF c, h
<1>3. /\ SlotOK(x) /\ SameBook(s, x) /\ x.phase = s.phase /\ x.commit = c /\ x.highBallot = h
      /\ x.prepared = s.prepared /\ x.preparedPrime = s.preparedPrime
  BY <1>1 DEF SlotOK, SlotStates, SameBook
<1> HIDE DEF x
<1>4. /\ SlotOK(w) /\ SameBook(s, w) /\ w.commit = c /\ w.highBallot = h
      /\ w.prepared = s.prepared
  <2>1. CASE w = x
    BY <1>3, <2>1
  <2>2. CASE w = bumpToBallot(x, h)
    <3> HIDE DEF w
    <3>1. /\ SlotOK(w) /\ SameBook(x, w) /\ w.prepared = x.prepared
          /\ w.commit = x.commit /\ w.highBallot = x.highBallot
      BY SMT, <1>1, <1>3, <2>2, bumpFields
    <3> QED BY <1>3, <3>1 DEF SameBook
  <2> QED BY <2>1, <2>2
<1> HIDE DEF w
<1>5. /\ SlotOK(y) /\ SameBook(w, y) /\ y.phase = "CONFIRM" /\ y.commit = w.commit
      /\ y.highBallot = w.highBallot /\ y.prepared = w.prepared /\ y.preparedPrime = NoBallot
  BY <1>4, NoBallotType DEF SlotOK, SlotStates, SameBook, Phases, PrimeOK
<1> HIDE DEF y
<1>6. s.phase \in {"PREPARE", "CONFIRM"}
  BY DEF SlotOK, SlotStates, Phases
<1>7. /\ SlotOK(z) /\ SameBook(s, z) /\ z.phase = "CONFIRM" /\ z.commit = c
      /\ z.highBallot = h /\ z.prepared = s.prepared
      /\ z.preparedPrime \in {s.preparedPrime, NoBallot}
  <2>1. CASE s.phase # "PREPARE"
    <3>1. z = x /\ s.phase = "CONFIRM"
      BY <1>6, <2>1
    <3> QED BY <1>3, <3>1
  <2>2. CASE s.phase = "PREPARE"
    <3>1. z = y
      BY <2>2
    <3>2. SameBook(s, y)
      BY <1>4, <1>5 DEF SameBook
    <3> QED BY <1>4, <1>5, <3>1, <3>2
  <2> QED BY <2>1, <2>2
<1> HIDE DEF z
<1>8. /\ SlotOK(u) /\ SameBook(z, u)
      /\ u.phase = z.phase /\ u.prepared = z.prepared /\ u.preparedPrime = z.preparedPrime
      /\ u.commit = z.commit /\ u.highBallot = z.highBallot
  <2> HIDE DEF u
  <2> QED BY <1>7, updateIfNeededFields DEF u
<1> HIDE DEF u
<1>9. /\ SameBook(s, u) /\ u.phase = "CONFIRM" /\ u.phase # "EXTERNALIZE" /\ u.commit = Ballot(i, v)
      /\ u.highBallot = Ballot(j, v) /\ u.prepared = s.prepared
      /\ u.preparedPrime \in {s.preparedPrime, NoBallot}
  BY <1>7, <1>8 DEF SameBook, c, h
<1>10. AcceptCommitStep(s, u)
  BY <1>9 DEF AcceptCommitStep
<1>11. CASE t = emitCurrentStateStatement(u)
  <2>1. Ends(u, t)
    BY <1>11 DEF Ends
  <2> QED BY <1>8, <1>9, <1>10, <2>1 DEF Outcome, CoreStep
<1> QED BY <1>2, <1>11 DEF Outcome

LEMMA attemptAcceptCommitOutcome ==
    ASSUME NEW s, SlotOK(s), NEW hint \in Statements,
           NEW t, t = attemptAcceptCommit(s, hint)
    PROVE  Outcome(s, t)
<1> DEFINE value == IF hint.type = "PREPARE" THEN hint.ballot.value ELSE CommitValue(hint)
           B == getCommitBoundariesFromStatements(s, value)
           accepted == {i \in B \X B : AcceptsCommit(s, value, i[1], i[2])}
           interval == findExtendedInterval(B, accepted)
           i1 == interval[1]
           i2 == interval[2]
<1>1. \/ t = s
      \/ /\ t = setAcceptCommit(s, Ballot(i1, value), Ballot(i2, value))
         /\ s.phase # "EXTERNALIZE" /\ i1 # 0
         /\ s.phase = "CONFIRM" => value = s.highBallot.value /\ ~(i2 <= s.highBallot.counter)
  BY DEF attemptAcceptCommit, AcceptsCommit
<1>2. value \in Values
  BY SMTT(30), CommitValueType DEF Values
<1>3. B \subseteq Counters
  BY SMTT(30), BoundariesType
<1>4. CASE /\ t = setAcceptCommit(s, Ballot(i1, value), Ballot(i2, value))
           /\ s.phase # "EXTERNALIZE" /\ i1 # 0
           /\ s.phase = "CONFIRM" => value = s.highBallot.value /\ ~(i2 <= s.highBallot.counter)
  <2>1. /\ i1 \in Counters /\ i2 \in Counters
        /\ <<i1, i2>> \in accepted /\ i1 <= i2
    <3> HIDE DEF value, B, accepted, interval
    <3>1. interval[1] # 0
      BY <1>4
    <3> QED BY <1>3, <3>1, findExtendedIntervalGood DEF interval
  <2> HIDE DEF i1, i2, B, value
  <2>2. AcceptsCommit(s, value, i1, i2)
    <3>1. <<i1, i2>>[1] = i1 /\ <<i1, i2>>[2] = i2
      OBVIOUS
    <3>2. AcceptsCommit(s, value, <<i1, i2>>[1], <<i1, i2>>[2])
      BY <2>1
    <3> QED BY <3>1, <3>2
  <2>3. s.phase = "CONFIRM" => value = s.highBallot.value /\ s.highBallot.counter < i2
    <3>1. s.highBallot \in Ballots
      BY DEF SlotOK, SlotStates
    <3>2. s.highBallot.counter \in Nat /\ i2 \in Nat
      BY <2>1, <3>1, BallotFields, CountersAreNat
    <3> QED BY SMT, <1>4, <3>2
  <2> QED BY <1>2, <1>4, <2>1, <2>2, <2>3, setAcceptCommitOutcome
<1> QED BY <1>1, <1>4 DEF Outcome

LEMMA setConfirmCommitOutcome ==
    ASSUME NEW s, SlotOK(s), s.phase = "CONFIRM", s.stack # << >>,
           NEW v \in Values, NEW i \in Counters, NEW j \in Counters,
           i # 0, i <= j, ConfirmsCommit(s, v, i, j), v = s.commit.value,
           NEW t, t = setConfirmCommit(s, Ballot(i, v), Ballot(j, v))
    PROVE  Outcome(s, t)
<1> DEFINE c == Ballot(i, v)
           h == Ballot(j, v)
           x == [s EXCEPT !.commit = c, !.highBallot = h]
           y == updateCurrentIfNeeded(x)
           u == [y EXCEPT !.phase = "EXTERNALIZE"]
<1>1. c \in Ballots /\ h \in Ballots
  BY BallotType DEF Values
<1>2. t = [emitCurrentStateStatement(u) EXCEPT !.timer = FALSE]
  BY DEF setConfirmCommit
<1> HIDE DEF c, h
<1>3. /\ SlotOK(x) /\ SameBook(s, x) /\ x.commit = c /\ x.highBallot = h
      /\ x.prepared = s.prepared /\ x.preparedPrime = s.preparedPrime
  BY <1>1 DEF SlotOK, SlotStates, SameBook
<1> HIDE DEF x
<1>4. /\ SlotOK(y) /\ SameBook(x, y)
      /\ y.prepared = x.prepared /\ y.preparedPrime = x.preparedPrime
      /\ y.commit = x.commit /\ y.highBallot = x.highBallot
  <2> HIDE DEF y
  <2> QED BY <1>3, updateIfNeededFields DEF y
<1> HIDE DEF y
<1>5. /\ SlotOK(u) /\ SameBook(y, u) /\ u.phase = "EXTERNALIZE"
      /\ u.prepared = y.prepared /\ u.preparedPrime = y.preparedPrime
      /\ u.commit = y.commit /\ u.highBallot = y.highBallot
  BY <1>4 DEF SlotOK, SlotStates, SameBook, Phases
<1> HIDE DEF u
<1>6. /\ SameBook(s, u) /\ u.commit = Ballot(i, v) /\ u.highBallot = Ballot(j, v)
      /\ u.prepared = s.prepared /\ u.preparedPrime = s.preparedPrime
  BY <1>3, <1>4, <1>5 DEF SameBook, c, h
<1>7. ConfirmCommitStep(s, u)
  BY <1>5, <1>6 DEF ConfirmCommitStep
<1>8. Ends(u, t)
  BY <1>2 DEF Ends
<1> QED BY <1>5, <1>6, <1>7, <1>8 DEF Outcome, CoreStep

LEMMA attemptConfirmCommitOutcome ==
    ASSUME NEW s, SlotOK(s), s.stack # << >>, NEW hint \in Statements,
           NEW t, t = attemptConfirmCommit(s, hint)
    PROVE  Outcome(s, t)
<1> DEFINE value == CommitValue(hint)
           B == getCommitBoundariesFromStatements(s, value)
           ratified == {i \in B \X B : ConfirmsCommit(s, value, i[1], i[2])}
           interval == findExtendedInterval(B, ratified)
           i1 == interval[1]
           i2 == interval[2]
<1>1. \/ t = s
      \/ /\ t = setConfirmCommit(s, Ballot(i1, value), Ballot(i2, value))
         /\ s.phase = "CONFIRM" /\ hint.type # "PREPARE" /\ i1 # 0 /\ value = s.commit.value
  BY DEF attemptConfirmCommit, ConfirmsCommit
<1>2. hint.type # "PREPARE" => value \in Values
  BY SMTT(30), CommitValueType DEF Values
<1>3. B \subseteq Counters
  BY SMTT(30), BoundariesType
<1>4. CASE /\ t = setConfirmCommit(s, Ballot(i1, value), Ballot(i2, value))
           /\ s.phase = "CONFIRM" /\ hint.type # "PREPARE" /\ i1 # 0 /\ value = s.commit.value
  <2>1. /\ i1 \in Counters /\ i2 \in Counters
        /\ <<i1, i2>> \in ratified /\ i1 <= i2
    <3> HIDE DEF value, B, ratified, interval
    <3>1. interval[1] # 0
      BY <1>4
    <3> QED BY <1>3, <3>1, findExtendedIntervalGood DEF interval
  <2> HIDE DEF i1, i2, B, value
  <2>2. ConfirmsCommit(s, value, i1, i2)
    <3>1. <<i1, i2>>[1] = i1 /\ <<i1, i2>>[2] = i2
      OBVIOUS
    <3>2. ConfirmsCommit(s, value, <<i1, i2>>[1], <<i1, i2>>[2])
      BY <2>1
    <3> QED BY <3>1, <3>2
  <2> QED BY <1>2, <1>4, <2>1, <2>2, setConfirmCommitOutcome
<1> QED BY <1>1, <1>4 DEF Outcome

LEMMA attemptBumpOutcome ==
    ASSUME NEW s, SlotOK(s), s.failure = "none", NEW t, t = attemptBump(s)
    PROVE  Outcome(s, t)
<1> DEFINE target == s.currentBallot.counter
           all == {target} \cup {StatementCounter(s.latest[m]) :
                                   m \in Pledged(s, LAMBDA st : TRUE)}
           reached == {n \in all : n > target /\ ~VBlockingAhead(s, n)}
           k == Bottom(reached)
<1>1. t = s \/ (t = abandonBallot(s, k) /\ reached # {})
  BY ZenonT(40) DEF attemptBump
<1>2. target \in Counters
  BY SMTT(30) DEF SlotOK, SlotStates, Ballots
<1>3. ASSUME NEW st \in Statements PROVE StatementCounter(st) \in Counters
  <2>1. UINT32_MAX \in Counters
    BY SMT, CounterAssumption DEF Counters
  <2> QED BY <2>1 DEF StatementCounter, Statements, Ballots
<1>4. \A m \in Pledged(s, LAMBDA st : TRUE) : s.latest[m] \in Statements
  <2>1. \A m \in Pledged(s, LAMBDA st : TRUE) : m \in Node /\ s.latest[m] # NoStatement
    BY DEF Pledged
  <2>2. \A m \in Node : s.latest[m] \in Statements \cup {NoStatement}
    BY DEF SlotOK, SlotStates
  <2> QED BY <2>1, <2>2
<1>5. reached \subseteq Counters
  BY SMTT(30), <1>2, <1>3, <1>4
<1> HIDE DEF reached
<1>6. reached # {} => k \in Counters
  BY SMTT(30), <1>5, BottomTopMember
<1> HIDE DEF k
<1>7. CASE t = abandonBallot(s, k) /\ reached # {}
  BY <1>6, <1>7, abandonBallotOutcome
<1> QED BY <1>1, <1>7 DEF Outcome

-----------------------------------------------------------------------------
(* advanceSlot.                                                            *)

LEMMA advanceSlotHistory ==
    ASSUME NEW s, HistoryOK(s), Running(s), NEW t, t = advanceSlot(s)
    PROVE  HistoryOK(t) /\ Advances(s, t) /\ Step(s, t)
<1> DEFINE hint == s.stack[1].hint
<1>0. SlotOK(s) /\ s.failure = "none" /\ s.stack # << >>
  BY DEF HistoryOK, Running
<1>1. t \in {attemptPreparedAccept(Calling(s, 1), hint),
             attemptPreparedConfirmed(Calling(s, 2), hint),
             attemptAcceptCommit(Calling(s, 3), hint),
             attemptConfirmCommit(Calling(s, 4), hint),
             attemptBump(Calling(s, 5)), returnFromAdvanceSlot(s)}
  BY DEF advanceSlot
<1>2. hint \in Statements
  BY <1>0, PopFrame DEF Frames
<1> HIDE DEF hint
<1>3. 1 \in 1..5 /\ 2 \in 1..5 /\ 3 \in 1..5 /\ 4 \in 1..5 /\ 5 \in 1..5
  BY SMT
<1>4. ASSUME NEW k \in 1..5, NEW c, c = Calling(s, k)
      PROVE  SlotOK(c) /\ c.failure = "none" /\ c.stack # << >>
  <2>1. c.failure = s.failure /\ c.stack # << >> /\ HistoryOK(c)
    BY <1>0, <1>4, CallingHistory
  <2> QED BY <1>0, <2>1 DEF HistoryOK
<1>5. CASE t = attemptPreparedAccept(Calling(s, 1), hint)
  <2> DEFINE c == Calling(s, 1)
  <2>1. SlotOK(c) /\ c.failure = "none"
    BY <1>3, <1>4
  <2>2. Outcome(c, t)
    BY <1>2, <1>5, <2>1, attemptPreparedAcceptOutcome
  <2> QED BY <1>0, <1>3, <2>2, AttemptHistory
<1>6. CASE t = attemptPreparedConfirmed(Calling(s, 2), hint)
  <2> DEFINE c == Calling(s, 2)
  <2>1. SlotOK(c) /\ c.failure = "none"
    BY <1>3, <1>4
  <2>2. Outcome(c, t)
    BY <1>2, <1>6, <2>1, attemptPreparedConfirmedOutcome
  <2> QED BY <1>0, <1>3, <2>2, AttemptHistory
<1>7. CASE t = attemptAcceptCommit(Calling(s, 3), hint)
  <2> DEFINE c == Calling(s, 3)
  <2>1. SlotOK(c) /\ c.failure = "none"
    BY <1>3, <1>4
  <2>2. Outcome(c, t)
    BY <1>2, <1>7, <2>1, attemptAcceptCommitOutcome
  <2> QED BY <1>0, <1>3, <2>2, AttemptHistory
<1>8. CASE t = attemptConfirmCommit(Calling(s, 4), hint)
  <2> DEFINE c == Calling(s, 4)
  <2>1. SlotOK(c) /\ c.failure = "none" /\ c.stack # << >>
    BY <1>3, <1>4
  <2>2. Outcome(c, t)
    BY <1>2, <1>8, <2>1, attemptConfirmCommitOutcome
  <2> QED BY <1>0, <1>3, <2>2, AttemptHistory
<1>9. CASE t = attemptBump(Calling(s, 5))
  <2> DEFINE c == Calling(s, 5)
  <2>1. SlotOK(c) /\ c.failure = "none"
    BY <1>3, <1>4
  <2>2. Outcome(c, t)
    BY <1>9, <2>1, attemptBumpOutcome
  <2> QED BY <1>0, <1>3, <2>2, AttemptHistory
<1>10. CASE t = returnFromAdvanceSlot(s)
  <2>1. /\ HistoryOK(t) /\ Advances(s, t) /\ SameCore(s, t) /\ Own(t) = Own(s)
        /\ SendsNothing(s, t) \/ SendsLatest(s, t)
    BY <1>0, <1>10, returnHistory
  <2> QED BY <2>1 DEF Step, CoreStep
<1> QED BY <1>1, <1>5, <1>6, <1>7, <1>8, <1>9, <1>10

-----------------------------------------------------------------------------
(* The steps of the network.                                               *)

HistoryInv == Inv /\ \A n \in Node : HistoryOK(slot[n])

\* A method called from outside advanceSlot, after a change of no import.
LEMMA OuterMoves ==
    ASSUME NEW s, HistoryOK(s), Idle(s), NEW u, SlotOK(u), SameBook(s, u), SameCore(s, u),
           NEW t, Outcome(u, t)
    PROVE  HistoryOK(t) /\ Moves(s, t) /\ t.self = s.self
<1>1. HistoryOK(u)
  BY SameKeepsHistory
<1>2. u.failure = "none" /\ Working(u)
  BY DEF SameBook, Idle, Working
<1>3. HistoryOK(t) /\ Advances(u, t) /\ SendsNothing(u, t) /\ CoreStep(u, t)
  BY <1>1, <1>2, OutcomeHistory
<1>4. Own(u) = Own(s) /\ Made(u) = Made(s)
  BY SameMade DEF SameBook
<1>5. CoreStep(s, t)
  BY <1>3, CoreStepFrom DEF SameBook
<1>6. Advances(s, t)
  BY <1>3, <1>4 DEF Advances, SameBook
<1>7. SendsNothing(s, t)
  BY <1>3 DEF SendsNothing, SameBook
<1> QED BY <1>3, <1>5, <1>6, <1>7 DEF Moves, Step, Advances

\* What a step of Next does to the node that takes it.
Turn(n, t) ==
    /\ Update(n, t) /\ HistoryOK(t) /\ t.self = n /\ slot[n].failure = "none"
    /\ \/ Moves(slot[n], t)
       \/ \E m \in Node \ {n} : \E st \in slot[m].emitted : Receives(slot[n], t, m, st)

LEMMA NextTurns ==
    ASSUME HistoryInv, Next
    PROVE  \E n \in Node : \E t : Turn(n, t)
<1>1. ASSUME NEW n \in Node PROVE HistoryOK(slot[n]) /\ SlotOK(slot[n]) /\ slot[n].self = n
  BY DEF HistoryInv, Inv
<1>2. ASSUME NEW n \in Node, AdvanceSlot(n) PROVE \E t : Turn(n, t)
  <2> DEFINE s == slot[n]
             t == advanceSlot(s)
  <2>1. Running(s) /\ Update(n, t)
    BY <1>2 DEF AdvanceSlot
  <2>2. HistoryOK(s) /\ s.self = n /\ s.failure = "none"
    BY <1>1, <2>1 DEF Running
  <2>3. HistoryOK(t) /\ Advances(s, t) /\ Step(s, t)
    BY <2>1, <2>2, advanceSlotHistory
  <2>4. t.self = n
    BY <2>2, <2>3 DEF Advances
  <2> HIDE DEF t
  <2>5. Turn(n, t)
    BY <2>1, <2>2, <2>3, <2>4 DEF Turn, Moves
  <2> QED BY <2>5
<1>3. ASSUME NEW n \in Node, NEW m \in Node, ReceiveEnvelope(n, m) PROVE \E t : Turn(n, t)
  <2> DEFINE s == slot[n]
  <2>1. PICK st \in slot[m].emitted : Update(n, processEnvelope(slot[n], m, st))
    BY <1>3 DEF ReceiveEnvelope
  <2>2. st \in Statements
    BY <1>1 DEF SlotOK, SlotStates
  <2>3. Idle(s) /\ m # n
    BY <1>3 DEF ReceiveEnvelope
  <2>4. HistoryOK(s) /\ s.self = n /\ m # s.self /\ s.failure = "none"
    BY <1>1, <2>3 DEF Idle
  <2> DEFINE t == processEnvelope(s, m, st)
  <2> HIDE DEF s
  <2>5. HistoryOK(t) /\ Receives(s, t, m, st)
    BY <2>2, <2>3, <2>4, receiveHistory
  <2> HIDE DEF t
  <2>6. t.self = n
    BY <2>4, <2>5 DEF Receives, SameSent
  <2>7. Turn(n, t)
    BY <2>1, <2>3, <2>4, <2>5, <2>6 DEF Turn, s, t
  <2> QED BY <2>7
<1>4. ASSUME NEW n \in Node, UpdatedCandidateValue(n) PROVE \E t : Turn(n, t)
  <2>1. PICK v \in Value :
            Update(n, bumpState([slot[n] EXCEPT !.candidate = v], v, FALSE))
    BY <1>4 DEF UpdatedCandidateValue
  <2> DEFINE s == slot[n]
             u == [s EXCEPT !.candidate = v]
             t == bumpState(u, v, FALSE)
  <2>2. HistoryOK(s) /\ SlotOK(s) /\ s.self = n /\ Idle(s)
    BY <1>1, <1>4 DEF UpdatedCandidateValue
  <2>3. Update(n, t)
    BY <2>1
  <2> HIDE DEF s
  <2>4. SlotOK(u) /\ SameBook(s, u) /\ SameCore(s, u)
    BY <2>2 DEF SlotOK, SlotStates, SameBook, SameCore
  <2> HIDE DEF u
  <2>5. u.failure = "none" /\ s.failure = "none"
    BY <2>2, <2>4 DEF SameBook, Idle
  <2>6. Outcome(u, t)
    BY <2>4, <2>5, bumpStateOutcome
  <2> HIDE DEF t
  <2>7. HistoryOK(t) /\ Moves(s, t) /\ t.self = s.self
    BY <2>2, <2>4, <2>6, OuterMoves
  <2>8. Turn(n, t)
    BY <2>2, <2>3, <2>5, <2>7 DEF Turn, s
  <2> QED BY <2>8
<1>5. ASSUME NEW n \in Node, BallotProtocolTimerExpired(n) PROVE \E t : Turn(n, t)
  <2> DEFINE s == slot[n]
             u == [s EXCEPT !.timer = FALSE]
             t == abandonBallot(u, 0)
  <2>1. Update(n, t) /\ Idle(s)
    BY <1>5 DEF BallotProtocolTimerExpired
  <2>2. HistoryOK(s) /\ SlotOK(s) /\ s.self = n
    BY <1>1
  <2> HIDE DEF s
  <2>3. SlotOK(u) /\ SameBook(s, u) /\ SameCore(s, u)
    BY <2>2 DEF SlotOK, SlotStates, SameBook, SameCore
  <2> HIDE DEF u
  <2>4. u.failure = "none" /\ s.failure = "none"
    BY <2>1, <2>3 DEF SameBook, Idle
  <2>5. 0 \in Counters
    BY SMT, CounterAssumption DEF Counters
  <2>6. Outcome(u, t)
    BY <2>3, <2>4, <2>5, abandonBallotOutcome
  <2> HIDE DEF t
  <2>7. HistoryOK(t) /\ Moves(s, t) /\ t.self = s.self
    BY <2>1, <2>2, <2>3, <2>6, OuterMoves
  <2>8. Turn(n, t)
    BY <2>1, <2>2, <2>4, <2>7 DEF Turn, s
  <2> QED BY <2>8
<1> QED BY <1>2, <1>3, <1>4, <1>5 DEF Next

LEMMA RestartTurns ==
    ASSUME HistoryInv, NEW n \in Node, Restart(n)
    PROVE  \E t : Update(n, t) /\ HistoryOK(t) /\ t.self = n /\ Restarts(slot[n], t)
<1> DEFINE s == slot[n]
           fresh == [InitSlot(n) EXCEPT !.emitted = s.emitted]
           t == IF s.lastEnvelopeEmit = NoStatement THEN fresh
                ELSE setStateFromEnvelope(fresh, s.lastEnvelopeEmit)
<1>1. Update(n, t)
  BY DEF Restart
<1>2. HistoryOK(s) /\ s.self = n
  BY DEF HistoryInv, Inv
<1> HIDE DEF s
<1>3. fresh = [InitSlot(s.self) EXCEPT !.emitted = s.emitted]
  BY <1>2
<1> HIDE DEF fresh
<1>4. HistoryOK(t) /\ Restarts(s, t)
  BY <1>2, <1>3, restartHistory
<1> HIDE DEF t
<1>5. t.self = n
  BY <1>2, <1>4 DEF Restarts
<1> QED BY <1>1, <1>4, <1>5 DEF s

LEMMA UpdateKeepsHistory ==
    ASSUME HistoryInv, NEW n \in Node, NEW t, Update(n, t), HistoryOK(t), t.self = n
    PROVE  /\ HistoryInv'
           /\ \A m \in Node : slot'[m] = IF m = n THEN t ELSE slot[m]
<1>1. Inv /\ SlotOK(t)
  BY DEF HistoryInv, HistoryOK
<1>2. Inv'
  BY <1>1, UpdateKeeps
<1>3. \A m \in Node : slot'[m] = IF m = n THEN t ELSE slot[m]
  BY <1>1 DEF Inv, Update
<1>4. ASSUME NEW m \in Node PROVE HistoryOK(slot'[m])
  BY <1>3 DEF HistoryInv
<1> QED BY <1>2, <1>3, <1>4 DEF HistoryInv

LEMMA NextKeepsHistory ==
    ASSUME HistoryInv, [NextWithRestarts]_vars
    PROVE  HistoryInv'
<1>1. CASE Next
  <2>1. PICK n \in Node : \E t : Turn(n, t)
    BY <1>1, NextTurns
  <2>2. PICK t : Turn(n, t)
    BY <2>1
  <2> QED BY <2>2, UpdateKeepsHistory DEF Turn
<1>2. CASE \E n \in Node : Restart(n)
  <2>1. PICK n \in Node : Restart(n)
    BY <1>2
  <2>2. PICK t : Update(n, t) /\ HistoryOK(t) /\ t.self = n
    BY <2>1, RestartTurns
  <2> QED BY <2>2, UpdateKeepsHistory
<1>3. CASE UNCHANGED vars
  BY <1>3 DEF vars, HistoryInv, Inv
<1> QED BY <1>1, <1>2, <1>3 DEF NextWithRestarts

LEMMA InitHistory == Init => HistoryInv
<1> SUFFICES ASSUME Init PROVE HistoryInv
  OBVIOUS
<1>1. slot = [n \in Node |-> InitSlot(n)]
  BY DEF Init
<1>2. ASSUME NEW n \in Node
      PROVE  HistoryOK(InitSlot(n)) /\ SlotOK(InitSlot(n)) /\ InitSlot(n).self = n
  <2> DEFINE t == InitSlot(n)
  <2>1. {} \in SUBSET Statements
    OBVIOUS
  <2>2. Fresh(t, n, {})
    BY <2>1, InitFields
  <2> HIDE DEF t
  <2>3. HistoryOK(t) /\ SlotOK(t) /\ t.self = n
    BY <2>2, FreshHistory DEF Fresh
  <2> QED BY <2>3 DEF t
<1> QED BY <1>1, <1>2 DEF HistoryInv, Inv

LEMMA HistoryInductive == SpecWithRestarts => []HistoryInv
BY InitHistory, NextKeepsHistory, PTL DEF SpecWithRestarts

-----------------------------------------------------------------------------
(* The theorems.                                                           *)

\* For every network, value set and bound, and over restarts: whenever no
\* handler of a validating node runs, the statement it last sent is the one
\* createStatement would make of its state.  Whatever the nested calls of
\* advanceSlot hold back, sendLatestEnvelope has sent by the time the
\* outermost one returns.
THEOREM PeersAreTold == SpecWithRestarts => []PeersKnowState
<1>1. ASSUME HistoryInv PROVE PeersKnowState
  <2> SUFFICES ASSUME NEW n \in Node, Idle(slot[n]), slot[n].fullyValidated,
                      slot[n].currentBallot # NoBallot
               PROVE  slot[n].lastEnvelopeEmit = createStatement(slot[n])
    BY DEF PeersKnowState
  <2> DEFINE s == slot[n]
  <2>1. SlotOK(s) /\ SyncedOK(s) /\ StackOK(s) /\ s.stack = << >>
    BY <1>1 DEF HistoryInv, HistoryOK, Idle
  <2>2. s.fullyValidated /\ s.currentBallot # NoBallot
    OBVIOUS
  <2> HIDE DEF s
  <2>3. Len(s.stack) = 0
    BY SMT, <2>1
  <2>4. Own(s) = createStatement(s)
    BY <2>1, <2>2 DEF SyncedOK, Pristine
  <2> DEFINE st == createStatement(s)
  <2>5. /\ st \in Statements
        /\ s.phase = "PREPARE" => IsPrepare(st) /\ st.ballot = s.currentBallot
        /\ s.phase # "PREPARE" => ~IsPrepare(st)
    <3> HIDE DEF st
    <3>1. s.phase \in {"PREPARE", "CONFIRM", "EXTERNALIZE"}
      BY <2>1 DEF SlotOK, SlotStates, Phases
    <3> QED BY <2>1, <3>1, CreatedFields DEF st
  <2>6. Sendable(st)
    BY <2>2, <2>5, RankFields DEF Sendable
  <2>7. s.lastEnvelope = Own(s)
    BY <2>1, <2>4, <2>6 DEF StackOK
  <2>8. s.lastEnvelope = s.lastEnvelopeEmit
    BY <2>1, <2>2, <2>3 DEF StackOK
  <2> QED BY <2>4, <2>7, <2>8 DEF s
<1> QED BY <1>1, HistoryInductive, PTL

\* For every network, value set and bound, and over all lives of a node: a
\* statement is newer, in the order of isNewerStatement, than every statement
\* the node sent before, so no peer that is up to date drops it.
THEOREM StatementsOnlyGrow == SpecWithRestarts => EmitsOnlyNewer
<1> DEFINE Newer == \A n \in Node : \A st \in slot'[n].emitted \ slot[n].emitted :
                       \A su \in slot[n].emitted : isNewerStatement(su, st)
<1>1. ASSUME HistoryInv, [NextWithRestarts]_vars PROVE Newer \/ UNCHANGED vars
  <2>1. CASE Next
    <3>1. PICK n \in Node : \E t : Turn(n, t)
      BY <1>1, <2>1, NextTurns
    <3>2. PICK t : Turn(n, t)
      BY <3>1
    <3> DEFINE s == slot[n]
    <3>3. \A m \in Node : slot'[m] = IF m = n THEN t ELSE slot[m]
      BY <1>1, <3>2, UpdateKeepsHistory DEF Turn
    <3>4. SlotOK(s) /\ ChainOK(s)
      BY <1>1 DEF HistoryInv, HistoryOK
    <3>5. t.emitted = s.emitted \/ t.emitted = s.emitted \cup {Own(s)}
      BY <3>2 DEF Turn, Moves, Step, SendsNothing, SendsLatest, Receives, SameSent
    <3> HIDE DEF s
    <3>6. ASSUME NEW st \in t.emitted \ s.emitted, NEW su \in s.emitted
          PROVE  isNewerStatement(su, st)
      <4>1. st = Own(s) /\ su # st /\ su \in Made(s)
        BY <3>4, <3>5, <3>6, MadeTypes
      <4> QED BY <3>4, <4>1 DEF ChainOK, Follows
    <3>7. ASSUME NEW m \in Node, NEW st \in slot'[m].emitted \ slot[m].emitted,
                 NEW su \in slot[m].emitted
          PROVE  isNewerStatement(su, st)
      <4>1. CASE m = n
        BY <3>3, <3>6, <4>1 DEF s
      <4>2. CASE m # n
        BY <3>3, <4>2
      <4> QED BY <4>1, <4>2
    <3> QED BY <3>7
  <2>2. CASE \E n \in Node : Restart(n)
    <3>1. PICK n \in Node : Restart(n)
      BY <2>2
    <3>2. PICK t : Update(n, t) /\ HistoryOK(t) /\ t.self = n /\ Restarts(slot[n], t)
      BY <1>1, <3>1, RestartTurns
    <3>3. \A m \in Node : slot'[m] = IF m = n THEN t ELSE slot[m]
      BY <1>1, <3>2, UpdateKeepsHistory
    <3>4. \A m \in Node : slot'[m].emitted = slot[m].emitted
      BY <3>2, <3>3 DEF Restarts
    <3> QED BY <3>4
  <2> QED BY <1>1, <2>1, <2>2 DEF NextWithRestarts
<1>2. HistoryInv /\ [NextWithRestarts]_vars => [Newer]_vars
  BY <1>1
<1> QED BY <1>2, HistoryInductive, PTL DEF SpecWithRestarts, EmitsOnlyNewer

\* What one step of a record does to what it is committed to.
Committed(s, t) ==
    /\ s.phase = "EXTERNALIZE" =>
          /\ t.phase = "EXTERNALIZE" /\ t.commit = s.commit /\ t.highBallot = s.highBallot
    /\ s.phase = "CONFIRM" =>
          /\ t.phase # "PREPARE" /\ t.commit.value = s.commit.value
          /\ t.prepared.counter >= s.prepared.counter
          /\ t.phase = "CONFIRM" => t.highBallot.counter >= s.highBallot.counter

LEMMA SameCommitted ==
    ASSUME NEW s, NEW t, SlotOK(s), s.phase # "EXTERNALIZE" => t.phase = s.phase,
           t.phase = s.phase, t.commit = s.commit, t.highBallot = s.highBallot,
           t.prepared = s.prepared
    PROVE  Committed(s, t)
<1> DEFINE p == s.prepared.counter
           h == s.highBallot.counter
<1>1. p >= p /\ h >= h
  <2>1. s.prepared \in Ballots /\ s.highBallot \in Ballots
    BY DEF SlotOK, SlotStates
  <2>2. p \in Nat /\ h \in Nat
    BY <2>1, BallotFields
  <2> QED BY SMT, <2>2
<1>2. s.phase = "CONFIRM" => s.phase # "PREPARE"
  OBVIOUS
<1> QED BY <1>1, <1>2 DEF Committed

LEMMA StepCommitted ==
    ASSUME NEW s, NEW t, SlotOK(s), SlotOK(t), Consistent(s), CoreStep(s, t)
    PROVE  Committed(s, t)
<1>1. CASE SameCore(s, t)
  BY <1>1, SameCommitted DEF SameCore
<1>2. CASE BumpStep(s, t)
  BY <1>2, SameCommitted DEF BumpStep
<1> DEFINE p == s.prepared
           q == t.prepared
           h == s.highBallot
           k == t.highBallot
<1>3. p \in Ballots /\ q \in Ballots /\ h \in Ballots /\ k \in Ballots
  BY DEF SlotOK, SlotStates
<1>4. p.counter \in Nat /\ q.counter \in Nat /\ h.counter \in Nat /\ k.counter \in Nat
  BY <1>3, BallotFields
<1> HIDE DEF p, q, h, k
<1>5. p.counter >= p.counter /\ h.counter >= h.counter
  BY SMT, <1>4
<1>6. CASE AcceptPreparedStep(s, t)
  <2>1. /\ s.phase # "EXTERNALIZE" /\ t.phase = s.phase /\ k = h
        /\ s.phase = "CONFIRM" => areBallotsLessAndCompatible(p, q)
        /\ s.phase # "PREPARE" => t.commit = s.commit
    BY <1>6 DEF AcceptPreparedStep, p, q, h, k
  <2>2. s.phase = "CONFIRM" => q.counter >= p.counter /\ t.phase # "PREPARE"
                               /\ s.phase # "PREPARE"
    BY SMT, <1>4, <2>1 DEF areBallotsLessAndCompatible, LessEq, Less
  <2> QED BY <1>5, <2>1, <2>2 DEF Committed, p, q, h, k
<1>7. CASE ConfirmPreparedStep(s, t)
  <2>1. s.phase # "EXTERNALIZE" /\ s.phase # "CONFIRM"
    BY <1>7 DEF ConfirmPreparedStep
  <2> QED BY <2>1 DEF Committed
<1>8. ASSUME s.phase = "CONFIRM"
      PROVE  t.phase # "PREPARE" /\ t.commit.value = s.commit.value
  <2>1. s.phase # "PREPARE"
    BY <1>8
  <2> QED BY <2>1, StepKeepsValue
<1>9. CASE AcceptCommitStep(s, t)
  <2>1. PICK j \in Counters : /\ s.phase # "EXTERNALIZE" /\ q = p
                              /\ s.phase = "CONFIRM" => k.counter = j /\ h.counter < j
    <3>1. PICK v \in Values, i \in Counters, j \in Counters :
             /\ s.phase # "EXTERNALIZE" /\ q = p /\ k = Ballot(j, v)
             /\ s.phase = "CONFIRM" => h.counter < j
      BY <1>9 DEF AcceptCommitStep, p, q, h, k
    <3>2. k.counter = j
      BY <3>1 DEF Ballot
    <3> QED BY <3>1, <3>2
  <2>2. s.phase = "CONFIRM" => k.counter >= h.counter
    BY SMT, <1>4, <2>1
  <2> QED BY <1>5, <1>8, <2>1, <2>2 DEF Committed, p, q, h, k
<1>10. CASE ConfirmCommitStep(s, t)
  <2>1. s.phase # "EXTERNALIZE" /\ t.phase # "CONFIRM" /\ q = p
    <3>1. s.phase = "CONFIRM" /\ t.phase = "EXTERNALIZE" /\ q = p
      BY <1>10 DEF ConfirmCommitStep, p, q
    <3> QED BY <3>1
  <2> QED BY <1>5, <1>8, <2>1 DEF Committed, p, q
<1> QED BY <1>1, <1>2, <1>6, <1>7, <1>9, <1>10 DEF CoreStep

\* For every network, value set and bound: in one life a node that accepted
\* a commit keeps its value, never returns to PREPARE and never lowers p or,
\* before it externalizes, h; and nothing changes c and h of an externalized
\* slot, whatever statements, timers or candidates come later.
THEOREM CommitmentIsKept == Spec => CommitmentKept
<1> DEFINE Keep == \A n \in Node : Committed(slot[n], slot'[n])
<1>1. ASSUME HistoryInv, [Next]_vars PROVE [Keep]_vars
  <2>1. CASE Next
    <3>1. PICK n \in Node : \E t : Turn(n, t)
      BY <1>1, <2>1, NextTurns
    <3>2. PICK t : Turn(n, t)
      BY <3>1
    <3>3. \A m \in Node : slot'[m] = IF m = n THEN t ELSE slot[m]
      BY <1>1, <3>2, UpdateKeepsHistory DEF Turn
    <3>4. ASSUME NEW m \in Node PROVE SlotOK(slot[m])
      BY <1>1 DEF HistoryInv, HistoryOK
    <3> DEFINE s == slot[n]
    <3>5. /\ SlotOK(s) /\ SlotOK(t) /\ SyncedOK(s)
          /\ CoreStep(s, t) \/ SameCore(s, t)
      BY <1>1, <3>2 DEF Turn, HistoryInv, HistoryOK, Moves, Step, Receives
    <3> HIDE DEF s
    <3>6. Committed(s, t)
      <4>1. CASE Pristine(s)
        <5>1. s.phase # "CONFIRM" /\ s.phase # "EXTERNALIZE"
          BY <4>1 DEF Pristine
        <5> QED BY <5>1 DEF Committed
      <4>2. CASE Consistent(s)
        BY <3>5, <4>2, StepCommitted DEF CoreStep
      <4> QED BY <3>5, <4>1, <4>2 DEF SyncedOK
    <3>7. ASSUME NEW m \in Node PROVE Committed(slot[m], slot'[m])
      <4>1. CASE m = n
        BY <3>3, <3>6, <4>1 DEF s
      <4>2. CASE m # n
        BY <3>3, <3>4, <4>2, SameCommitted
      <4> QED BY <4>1, <4>2
    <3> QED BY <3>7
  <2>2. CASE UNCHANGED vars
    BY <2>2
  <2> QED BY <1>1, <2>1, <2>2
<1>2. [Next]_vars => [NextWithRestarts]_vars
  BY DEF NextWithRestarts
<1>3. Spec => SpecWithRestarts
  BY <1>2, PTL DEF Spec, SpecWithRestarts
<1> DEFINE Kept ==
      \A n \in Node :
          /\ slot[n].phase = "EXTERNALIZE" =>
                /\ slot'[n].phase = "EXTERNALIZE"
                /\ slot'[n].commit = slot[n].commit
                /\ slot'[n].highBallot = slot[n].highBallot
          /\ slot[n].phase = "CONFIRM" =>
                /\ slot'[n].phase # "PREPARE"
                /\ slot'[n].commit.value = slot[n].commit.value
                /\ slot'[n].prepared.counter >= slot[n].prepared.counter
                /\ slot'[n].phase = "CONFIRM" =>
                      slot'[n].highBallot.counter >= slot[n].highBallot.counter
<1>4. ASSUME HistoryInv, [Next]_vars PROVE [Kept]_vars
  <2>1. [Keep]_vars
    BY <1>1, <1>4
  <2> QED BY <2>1 DEF Committed
<1> QED BY <1>3, <1>4, HistoryInductive, PTL DEF Spec, CommitmentKept

=============================================================================
