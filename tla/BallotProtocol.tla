--------------------------- MODULE BallotProtocol ---------------------------
(***************************************************************************)
(* The ballot protocol of one slot, run by every node                      *)
(* (src/src/scp/BallotProtocol.cpp).                                       *)
(*                                                                         *)
(* A node's state is a record.  The functions of the C++ class are         *)
(* operators from a record to a record, in the order the code calls them.  *)
(* advanceSlot recurses: every set* method emits a statement that the node *)
(* processes itself before the method returns.  The recursion is the stack *)
(* of the record: one frame per active advanceSlot call.  A node with a    *)
(* non-empty stack runs alone until the stack is empty again (the code is  *)
(* single threaded, and nothing leaves the node before the outermost call  *)
(* returns), so a handler is one uninterrupted run of steps.               *)
(***************************************************************************)
EXTENDS LocalNode

CONSTANTS
    Node,             \* the nodes, validators or watchers
    MaxValue,         \* how many values nomination may produce
    QSetOf,           \* QSetOf[n]: the quorum set of node n
    Validator,        \* nodes with NODE_IS_VALIDATOR
    ValidateValue,    \* ValidateValue[n][v]: what the driver of n says of v
    UINT32_MAX,       \* the largest counter
    MAX_ADVANCE_SLOT_RECURSION,
    CandidateSteps,   \* CandidateSteps[n]: pairs <<u, v>>, composite u may become v
    Hears,            \* Hears[n]: the nodes whose statements reach n
    BumpLimit         \* model bound: BumpLimit[n] is the last counter that n's
                      \* timers move it to

\* The values, numbered in the order in which the code compares them.
Value == 1..MaxValue

ValidationLevels == {"kInvalidValue", "kMaybeValidValue", "kFullyValidatedValue"}

ASSUME ValueAssumption == MaxValue \in Nat
ASSUME CounterAssumption == UINT32_MAX \in Nat \ {0}
ASSUME RecursionAssumption == MAX_ADVANCE_SLOT_RECURSION \in Nat
ASSUME BumpAssumption == BumpLimit \in [Node -> Nat]
ASSUME HearsAssumption == Hears \in [Node -> SUBSET Node]
ASSUME ValidateAssumption == ValidateValue \in [Node -> [Value -> ValidationLevels]]

VARIABLE slot         \* slot[n]: the Slot and BallotProtocol objects of node n

vars == <<slot>>

-----------------------------------------------------------------------------
(* Ballots.  NoBallot is the null pointer and the default SCPBallot().     *)

NoValue  == 0
NoBallot == [counter |-> 0, value |-> NoValue]

Ballot(n, v) == [counter |-> n, value |-> v]
Counters == 0..UINT32_MAX
Ballots == [counter : Counters, value : Value \cup {NoValue}]

\* compareBallots(b1, b2) < 0
Less(b1, b2) ==
    \/ b1.counter < b2.counter
    \/ b1.counter = b2.counter /\ b1.value < b2.value

LessEq(b1, b2) == Less(b1, b2) \/ b1 = b2

areBallotsCompatible(b1, b2) == b1.value = b2.value

areBallotsLessAndIncompatible(b1, b2) ==
    LessEq(b1, b2) /\ ~areBallotsCompatible(b1, b2)

areBallotsLessAndCompatible(b1, b2) ==
    LessEq(b1, b2) /\ areBallotsCompatible(b1, b2)

Highest(S) == CHOOSE b \in S : \A x \in S : LessEq(x, b)
Lowest(S)  == CHOOSE b \in S : \A x \in S : LessEq(b, x)
Top(S)     == CHOOSE k \in S : \A x \in S : x <= k
Bottom(S)  == CHOOSE k \in S : \A x \in S : k <= x

-----------------------------------------------------------------------------
(* Statements.                                                             *)

Prepare(b, p, pp, nC, nH) ==
    [type |-> "PREPARE", ballot |-> b, prepared |-> p, preparedPrime |-> pp,
     nC |-> nC, nH |-> nH]
Confirm(b, nPrepared, nCommit, nH) ==
    [type |-> "CONFIRM", ballot |-> b, nPrepared |-> nPrepared,
     nCommit |-> nCommit, nH |-> nH]
Externalize(commit, nH) ==
    [type |-> "EXTERNALIZE", commit |-> commit, nH |-> nH]

NoStatement == [type |-> "NONE"]

Statements ==
    [type : {"PREPARE"}, ballot : Ballots, prepared : Ballots,
     preparedPrime : Ballots, nC : Counters, nH : Counters]
    \cup [type : {"CONFIRM"}, ballot : Ballots, nPrepared : Counters,
          nCommit : Counters, nH : Counters]
    \cup [type : {"EXTERNALIZE"}, commit : Ballots, nH : Counters]

getWorkingBallot(st) ==
    CASE st.type = "PREPARE"     -> st.ballot
      [] st.type = "CONFIRM"     -> Ballot(st.nCommit, st.ballot.value)
      [] st.type = "EXTERNALIZE" -> st.commit

\* The value a CONFIRM or an EXTERNALIZE statement commits to.
CommitValue(st) ==
    IF st.type = "CONFIRM" THEN st.ballot.value ELSE st.commit.value

Rank(st) == CASE st.type = "NONE" -> 0 [] st.type = "PREPARE" -> 1
              [] st.type = "CONFIRM" -> 2 [] st.type = "EXTERNALIZE" -> 3

\* The total order of the statements of one node; nC and nCommit are not
\* part of it.
isNewerStatement(old, st) ==
    \/ Rank(old) < Rank(st)
    \/ /\ old.type = "CONFIRM" /\ st.type = "CONFIRM"
       /\ \/ Less(old.ballot, st.ballot)
          \/ /\ old.ballot = st.ballot
             /\ \/ old.nPrepared < st.nPrepared
                \/ old.nPrepared = st.nPrepared /\ old.nH < st.nH
    \/ /\ old.type = "PREPARE" /\ st.type = "PREPARE"
       /\ \/ Less(old.ballot, st.ballot)
          \/ /\ old.ballot = st.ballot
             /\ \/ Less(old.prepared, st.prepared)
                \/ /\ old.prepared = st.prepared
                   /\ \/ Less(old.preparedPrime, st.preparedPrime)
                      \/ /\ old.preparedPrime = st.preparedPrime
                         /\ old.nH < st.nH

isStatementSane(st, self) ==
    CASE st.type = "PREPARE" ->
            /\ self \/ st.ballot.counter > 0
            /\ st.preparedPrime # NoBallot /\ st.prepared # NoBallot =>
                  areBallotsLessAndIncompatible(st.preparedPrime, st.prepared)
            /\ st.nH = 0 \/ (st.prepared # NoBallot /\ st.nH <= st.prepared.counter)
            /\ st.nC = 0 \/ (/\ st.nH # 0
                             /\ st.ballot.counter >= st.nH /\ st.nH >= st.nC)
      [] st.type = "CONFIRM" ->
            /\ st.ballot.counter > 0
            /\ st.nH <= st.ballot.counter
            /\ st.nCommit <= st.nH
      [] st.type = "EXTERNALIZE" ->
            st.commit.counter > 0 /\ st.nH >= st.commit.counter

-----------------------------------------------------------------------------
(* Local state.  A frame is an active advanceSlot(hint): pc is the next    *)
(* attempt* method to call, own tells that the hint is the node's own      *)
(* statement (the caller is then emitCurrentStateStatement).               *)

Frame(hint, own) == [hint |-> hint, own |-> own, pc |-> 1, didWork |-> FALSE]

InitSlot(n) ==
    [self |-> n, phase |-> "PREPARE",
     currentBallot |-> NoBallot, prepared |-> NoBallot,
     preparedPrime |-> NoBallot, highBallot |-> NoBallot, commit |-> NoBallot,
     heardFromQuorum |-> TRUE, timer |-> FALSE,
     latest |-> [m \in Node |-> NoStatement],
     lastEnvelope |-> NoStatement, lastEnvelopeEmit |-> NoStatement,
     fullyValidated |-> n \in Validator, candidate |-> NoValue,
     stack |-> << >>, failure |-> "none", emitted |-> {}]

Running(s) == s.stack # << >> /\ s.failure = "none"
Idle(s)    == s.stack = << >> /\ s.failure = "none"

abort(s) == [s EXCEPT !.failure = "dbgAssert"]

-----------------------------------------------------------------------------
(* Federated voting over the latest statements a node knows.               *)

Slices == [n \in Node |-> {U \in SUBSET Node : isQuorumSlice(QSetOf[n], U)}]
VBlockingSets == [n \in Node |-> {U \in SUBSET Node : isVBlocking(QSetOf[n], U)}]
SingletonSlices ==
    [n \in Node |-> {U \in SUBSET Node : isQuorumSlice(buildSingletonQSet(n), U)}]

\* The slices of the quorum set each known statement refers to.
getQuorumSetFromStatement(s) ==
    [m \in Node |-> IF s.latest[m].type = "EXTERNALIZE"
                      THEN SingletonSlices[m] ELSE Slices[m]]

\* The nodes whose latest statement passes a filter.
Pledged(s, Filter(_)) ==
    {m \in Node : s.latest[m] # NoStatement /\ Filter(s.latest[m])}

\* Wrong: what a v-blocking set votes for is taken as ratified.
federatedRatifyLoose(s, voted) ==
    \/ voted \in VBlockingSets[s.self]
    \/ isQuorum(Slices[s.self], getQuorumSetFromStatement(s), voted)

federatedRatify(s, voted) ==
    isQuorum(Slices[s.self], getQuorumSetFromStatement(s), voted)

federatedAccept(s, voted, accepted) ==
    accepted \in VBlockingSets[s.self] \/ federatedRatify(s, accepted \cup voted)

\* The values a statement names, and the level of the last one in value
\* order that is not fully validated.
validateValues(n, st) ==
    LET values == CASE st.type = "PREPARE" ->
                          {b.value : b \in {st.ballot, st.prepared} \ {NoBallot}}
                    [] OTHER -> {CommitValue(st)}
        doubtful == {v \in values : ValidateValue[n][v] # "kFullyValidatedValue"}
    IN  IF doubtful = {} THEN "kFullyValidatedValue"
        ELSE ValidateValue[n][Top(doubtful)]

-----------------------------------------------------------------------------
(* Emission.                                                               *)

checkInvariants(s) ==
    /\ s.currentBallot # NoBallot => s.currentBallot.counter # 0
    /\ s.prepared # NoBallot /\ s.preparedPrime # NoBallot =>
          areBallotsLessAndIncompatible(s.preparedPrime, s.prepared)
    /\ s.commit # NoBallot =>
          /\ s.currentBallot # NoBallot
          /\ areBallotsLessAndCompatible(s.commit, s.highBallot)
          /\ areBallotsLessAndCompatible(s.highBallot, s.currentBallot)
    /\ s.phase # "PREPARE" => s.commit # NoBallot
    /\ s.phase = "EXTERNALIZE" => s.highBallot # NoBallot

createStatement(s) ==
    CASE s.phase = "PREPARE" ->
            Prepare(s.currentBallot, s.prepared, s.preparedPrime,
                    s.commit.counter, s.highBallot.counter)
      [] s.phase = "CONFIRM" ->
            Confirm(s.currentBallot, s.prepared.counter, s.commit.counter,
                    s.highBallot.counter)
      [] s.phase = "EXTERNALIZE" -> Externalize(s.commit, s.highBallot.counter)

sendLatestEnvelope(s) ==
    IF /\ s.stack = << >>
       /\ s.lastEnvelope # NoStatement /\ s.fullyValidated
       /\ s.lastEnvelope # s.lastEnvelopeEmit
    THEN [s EXCEPT !.lastEnvelopeEmit = s.lastEnvelope,
                   !.emitted = @ \cup {s.lastEnvelope}]
    ELSE s

\* The end of emitCurrentStateStatement, once its statement was processed.
recordLastEnvelope(s, st) ==
    IF /\ st.type = "PREPARE" => st.ballot # NoBallot
       /\ isNewerStatement(s.lastEnvelope, st)
    THEN sendLatestEnvelope([s EXCEPT !.lastEnvelope = st])
    ELSE s

\* Wrong: nobody notices the quorum.
enterAdvanceSlotDeaf(s, st, own) ==
    IF Len(s.stack) + 1 >= MAX_ADVANCE_SLOT_RECURSION
    THEN [s EXCEPT !.failure = "maxTransitions"]
    ELSE [s EXCEPT !.stack = <<Frame(st, own)>> \o @]

\* advanceSlot up to the first attempt: one level deeper, and a chance to
\* notice that a quorum reached the current counter.
enterAdvanceSlot(s, st, own) ==
    LET heard == \/ s.heardFromQuorum
                 \/ /\ s.currentBallot # NoBallot
                    /\ federatedRatify(s, Pledged(s, LAMBDA x :
                          x.type = "PREPARE" =>
                             s.currentBallot.counter <= x.ballot.counter))
    IN  IF Len(s.stack) + 1 >= MAX_ADVANCE_SLOT_RECURSION
        THEN [s EXCEPT !.failure = "maxTransitions"]
        ELSE [s EXCEPT !.stack = <<Frame(st, own)>> \o @,
                       !.heardFromQuorum = heard]

recordEnvelope(s, m, st) == [s EXCEPT !.latest[m] = st]

\* processEnvelope answers VALID exactly when this holds.
Acceptable(s, m, st) ==
    /\ isStatementSane(st, m = s.self)
    /\ isNewerStatement(s.latest[m], st)
    /\ validateValues(s.self, st) # "kInvalidValue"
    /\ s.phase = "EXTERNALIZE" => s.commit.value = getWorkingBallot(st).value

processEnvelope(s, m, st) ==
    LET known == recordEnvelope(s, m, st)
    IN  IF s.phase = "EXTERNALIZE" THEN known
        ELSE enterAdvanceSlot(
                [known EXCEPT !.fullyValidated =
                    @ /\ validateValues(s.self, st) # "kMaybeValidValue"],
                st, m = s.self)

emitCurrentStateStatement(s) ==
    LET st == createStatement(s)
    IN  IF ~checkInvariants(s) \/ (s.phase = "CONFIRM" /\ s.prepared = NoBallot)
        THEN abort(s)
        ELSE IF st = s.latest[s.self] THEN s
        ELSE IF ~Acceptable(s, s.self, st)
        THEN [s EXCEPT !.failure = "badState"]
        ELSE IF s.phase = "EXTERNALIZE"
        THEN recordLastEnvelope(processEnvelope(s, s.self, st), st)
        ELSE processEnvelope(s, s.self, st)

-----------------------------------------------------------------------------
(* The current ballot.                                                     *)

bumpToBallot(s, ballot) ==
    [s EXCEPT !.currentBallot = ballot, !.heardFromQuorum = FALSE,
              !.timer = @ \/ s.currentBallot # ballot]

updateCurrentIfNeeded(s) ==
    IF s.currentBallot = NoBallot \/ Less(s.currentBallot, s.highBallot)
    THEN bumpToBallot(s, s.highBallot) ELSE s

updateCurrentValue(s, ballot) ==
    LET t == IF s.currentBallot = ballot THEN s ELSE bumpToBallot(s, ballot)
    IN  IF s.currentBallot # NoBallot /\ ~LessEq(s.currentBallot, ballot)
        THEN abort(s)
        ELSE IF /\ s.currentBallot # NoBallot /\ s.commit # NoBallot
                /\ ~areBallotsCompatible(s.commit, ballot)
        THEN s
        ELSE IF checkInvariants(t) THEN t ELSE abort(t)

\* bumpState(value, n)
bumpStateTo(s, value, n) ==
    IF s.phase = "EXTERNALIZE" THEN s
    ELSE LET v == IF s.highBallot # NoBallot THEN s.highBallot.value ELSE value
             t == updateCurrentValue(s, Ballot(n, v))
         IN  IF t = s \/ t.failure # "none" THEN t
             ELSE emitCurrentStateStatement(t)

\* bumpState(value, force): the next counter, a 32 bit unsigned sum.
bumpState(s, value, force) ==
    IF ~force /\ s.currentBallot # NoBallot THEN s
    ELSE bumpStateTo(s, value, (s.currentBallot.counter + 1) % (UINT32_MAX + 1))

abandonBallot(s, n) ==
    LET v == IF s.candidate # NoValue THEN s.candidate ELSE s.currentBallot.value
    IN  IF v = NoValue THEN s
        ELSE IF n = 0 THEN bumpState(s, v, TRUE) ELSE bumpStateTo(s, v, n)

-----------------------------------------------------------------------------
(* Accepting and confirming prepared ballots.                              *)

HintBallots(hint) ==
    CASE hint.type = "PREPARE" ->
            {hint.ballot} \cup ({hint.prepared, hint.preparedPrime} \ {NoBallot})
      [] hint.type = "CONFIRM" ->
            {Ballot(hint.nPrepared, hint.ballot.value),
             Ballot(UINT32_MAX, hint.ballot.value)}
      [] hint.type = "EXTERNALIZE" -> {Ballot(UINT32_MAX, hint.commit.value)}

\* What statement st adds to the candidates below topVote.
CandidatesIn(st, topVote) ==
    CASE st.type = "PREPARE" ->
            {b \in {st.ballot} \cup ({st.prepared, st.preparedPrime} \ {NoBallot}) :
                areBallotsLessAndCompatible(b, topVote)}
      [] st.type = "NONE" -> {}
      [] OTHER ->
            IF CommitValue(st) # topVote.value THEN {}
            ELSE {topVote} \cup
                 (IF st.type = "CONFIRM" /\ st.nPrepared < topVote.counter
                  THEN {Ballot(st.nPrepared, topVote.value)} ELSE {})

getPrepareCandidates(s, hint) ==
    UNION {CandidatesIn(s.latest[m], t) : m \in Node, t \in HintBallots(hint)}

hasPreparedBallot(ballot, st) ==
    CASE st.type = "PREPARE" ->
            \E p \in {st.prepared, st.preparedPrime} \ {NoBallot} :
                areBallotsLessAndCompatible(ballot, p)
      [] st.type = "CONFIRM" ->
            areBallotsLessAndCompatible(ballot, Ballot(st.nPrepared, st.ballot.value))
      [] st.type = "EXTERNALIZE" -> areBallotsCompatible(ballot, st.commit)

\* Wrong: a vote for a higher ballot counts whatever its value.
votesPreparedAnyValue(ballot, st) ==
    CASE st.type = "PREPARE" -> LessEq(ballot, st.ballot)
      [] OTHER -> ballot.value = CommitValue(st)

votesPrepared(ballot, st) ==
    CASE st.type = "PREPARE" -> areBallotsLessAndCompatible(ballot, st.ballot)
      [] OTHER -> ballot.value = CommitValue(st)

\* Wrong: p' takes the old p even when that is compatible with the new one.
setPreparedKeepAll(s, ballot) ==
    IF s.prepared = NoBallot THEN [s EXCEPT !.prepared = ballot]
    ELSE IF Less(s.prepared, ballot)
    THEN [s EXCEPT !.preparedPrime = s.prepared, !.prepared = ballot]
    ELSE [s EXCEPT !.preparedPrime = ballot]

setPrepared(s, ballot) ==
    IF s.prepared = NoBallot THEN [s EXCEPT !.prepared = ballot]
    ELSE IF Less(s.prepared, ballot)
    THEN [s EXCEPT !.preparedPrime =
                        IF areBallotsCompatible(s.prepared, ballot) THEN @ ELSE s.prepared,
                   !.prepared = ballot]
    ELSE IF /\ Less(ballot, s.prepared)
            /\ s.preparedPrime = NoBallot \/ Less(s.preparedPrime, ballot)
    THEN [s EXCEPT !.preparedPrime = ballot]
    ELSE s

setPreparedAccept(s, ballot) ==
    LET t == setPrepared(s, ballot)
        clear == /\ t.commit # NoBallot /\ t.highBallot # NoBallot
                 /\ \E p \in {t.prepared, t.preparedPrime} \ {NoBallot} :
                        areBallotsLessAndIncompatible(t.highBallot, p)
        u == IF clear THEN [t EXCEPT !.commit = NoBallot] ELSE t
    IN  IF clear /\ s.phase # "PREPARE" THEN abort(t)
        ELSE IF u = s THEN s ELSE emitCurrentStateStatement(u)

attemptPreparedAccept(s, hint) ==
    LET considered ==
            {b \in getPrepareCandidates(s, hint) :
                s.phase = "CONFIRM" => areBallotsLessAndCompatible(s.prepared, b)}
        useful ==
            {b \in considered :
                /\ s.preparedPrime = NoBallot \/ Less(s.preparedPrime, b)
                /\ s.prepared = NoBallot \/ ~areBallotsLessAndCompatible(b, s.prepared)}
        accepted ==
            {b \in useful :
                federatedAccept(s, Pledged(s, LAMBDA st : votesPrepared(b, st)),
                                   Pledged(s, LAMBDA st : hasPreparedBallot(b, st)))}
    IN  IF s.phase = "EXTERNALIZE" THEN s
        ELSE IF s.phase = "CONFIRM" /\ \E b \in considered : ~areBallotsCompatible(s.commit, b)
        THEN abort(s)
        ELSE IF accepted = {} THEN s ELSE setPreparedAccept(s, Highest(accepted))

setPreparedConfirmed(s, newC, newH) ==
    LET t == [s EXCEPT !.highBallot = IF Less(@, newH) THEN newH ELSE @,
                       !.commit = IF newC.counter # 0 THEN newC ELSE @]
    IN  IF t = s THEN s ELSE emitCurrentStateStatement(updateCurrentIfNeeded(t))

attemptPreparedConfirmed(s, hint) ==
    LET candidates == getPrepareCandidates(s, hint)
        Ratified(b) == federatedRatify(s, Pledged(s, LAMBDA st : hasPreparedBallot(b, st)))
        raising == {b \in candidates : Less(s.highBallot, b) /\ Ratified(b)}
        newH == Highest(raising)
        mayCommit == /\ s.commit = NoBallot
                     /\ \A p \in {s.prepared, s.preparedPrime} \ {NoBallot} :
                            ~areBallotsLessAndIncompatible(newH, p)
        \* from newH downwards, not below the current ballot, while ratified
        below == {b \in candidates :
                    /\ LessEq(b, newH) /\ LessEq(s.currentBallot, b)
                    /\ \A x \in candidates :
                          LessEq(b, x) /\ LessEq(x, newH) => Ratified(x)}
        newC == IF mayCommit /\ below # {} THEN Lowest(below) ELSE NoBallot
    IN  IF s.phase # "PREPARE" \/ s.prepared = NoBallot \/ raising = {} THEN s
        ELSE setPreparedConfirmed(s, newC, newH)

-----------------------------------------------------------------------------
(* Accepting and confirming commits.  An interval is <<first, second>>.    *)

NoInterval == <<0, 0>>

\* Boundaries are scanned from the top: the first that is good alone is the
\* high end, and the interval grows downwards while it is good.
findExtendedInterval(boundaries, good) ==
    LET alone == {b \in boundaries : <<b, b>> \in good}
        high  == Top(alone)
        lows  == {b \in boundaries :
                    /\ b <= high
                    /\ \A x \in boundaries : b <= x /\ x <= high => <<x, high>> \in good}
    IN  IF alone = {} THEN NoInterval ELSE <<Bottom(lows), high>>

getCommitBoundariesFromStatements(s, value) ==
    LET Bounds(st) ==
            CASE st.type = "PREPARE" ->
                    IF st.ballot.value = value /\ st.nC # 0 THEN {st.nC, st.nH} ELSE {}
              [] st.type = "NONE" -> {}
              [] OTHER ->
                    IF CommitValue(st) # value THEN {}
                    ELSE IF st.type = "CONFIRM" THEN {st.nCommit, st.nH}
                    ELSE {st.commit.counter, st.nH, UINT32_MAX}
    IN  UNION {Bounds(s.latest[m]) : m \in Node}

\* Wrong: only CONFIRM statements accept a commit.
commitPredicateConfirmOnly(value, first, second, st) ==
    /\ st.type = "CONFIRM" /\ st.ballot.value = value
    /\ st.nCommit <= first /\ second <= st.nH

commitPredicate(value, first, second, st) ==
    CASE st.type = "PREPARE" -> FALSE
      [] st.type = "CONFIRM" ->
            st.ballot.value = value /\ st.nCommit <= first /\ second <= st.nH
      [] st.type = "EXTERNALIZE" ->
            st.commit.value = value /\ st.commit.counter <= first

votesCommit(value, first, second, st) ==
    CASE st.type = "PREPARE" ->
            /\ st.ballot.value = value /\ st.nC # 0
            /\ st.nC <= first /\ second <= st.nH
      [] st.type = "CONFIRM" -> st.ballot.value = value /\ st.nCommit <= first
      [] st.type = "EXTERNALIZE" ->
            st.commit.value = value /\ st.commit.counter <= first

setAcceptCommit(s, c, h) ==
    LET t == [s EXCEPT !.commit = c, !.highBallot = h]
        u == IF s.phase # "PREPARE" THEN t
             ELSE [(IF /\ s.currentBallot # NoBallot
                       /\ ~areBallotsLessAndCompatible(h, s.currentBallot)
                    THEN bumpToBallot(t, h) ELSE t)
                     EXCEPT !.phase = "CONFIRM", !.preparedPrime = NoBallot]
    IN  IF u = s THEN s ELSE emitCurrentStateStatement(updateCurrentIfNeeded(u))

\* Wrong: goes on after the slot externalized.
attemptAcceptCommitLate(s, hint) ==
    LET value == IF hint.type = "PREPARE" THEN hint.ballot.value ELSE CommitValue(hint)
        boundaries == getCommitBoundariesFromStatements(s, value)
        accepted ==
            {i \in boundaries \X boundaries :
                federatedAccept(s,
                    Pledged(s, LAMBDA st : votesCommit(value, i[1], i[2], st)),
                    Pledged(s, LAMBDA st : commitPredicate(value, i[1], i[2], st)))}
        interval == findExtendedInterval(boundaries, accepted)
    IN  IF \/ hint.type = "PREPARE" /\ hint.nC = 0
           \/ s.phase = "CONFIRM" /\ value # s.highBallot.value
           \/ interval[1] = 0
           \/ s.phase = "CONFIRM" /\ interval[2] <= s.highBallot.counter
        THEN s
        ELSE setAcceptCommit(s, Ballot(interval[1], value), Ballot(interval[2], value))

attemptAcceptCommit(s, hint) ==
    LET value == IF hint.type = "PREPARE" THEN hint.ballot.value ELSE CommitValue(hint)
        boundaries == getCommitBoundariesFromStatements(s, value)
        accepted ==
            {i \in boundaries \X boundaries :
                federatedAccept(s,
                    Pledged(s, LAMBDA st : votesCommit(value, i[1], i[2], st)),
                    Pledged(s, LAMBDA st : commitPredicate(value, i[1], i[2], st)))}
        interval == findExtendedInterval(boundaries, accepted)
    IN  IF \/ s.phase = "EXTERNALIZE"
           \/ hint.type = "PREPARE" /\ hint.nC = 0
           \/ s.phase = "CONFIRM" /\ value # s.highBallot.value
           \/ interval[1] = 0
           \/ s.phase = "CONFIRM" /\ interval[2] <= s.highBallot.counter
        THEN s
        ELSE setAcceptCommit(s, Ballot(interval[1], value), Ballot(interval[2], value))

\* Ends with stopNomination and the driver's valueExternalized, which
\* cancels the timers of the slot.
setConfirmCommit(s, c, h) ==
    LET t == updateCurrentIfNeeded([s EXCEPT !.commit = c, !.highBallot = h])
    IN  [emitCurrentStateStatement([t EXCEPT !.phase = "EXTERNALIZE"])
            EXCEPT !.timer = FALSE]

attemptConfirmCommit(s, hint) ==
    LET value == CommitValue(hint)
        boundaries == getCommitBoundariesFromStatements(s, value)
        ratified ==
            {i \in boundaries \X boundaries :
                federatedRatify(s,
                    Pledged(s, LAMBDA st : commitPredicate(value, i[1], i[2], st)))}
        interval == findExtendedInterval(boundaries, ratified)
    IN  IF \/ s.phase # "CONFIRM"
           \/ s.highBallot = NoBallot \/ s.commit = NoBallot
           \/ hint.type = "PREPARE"
           \/ value # s.commit.value
           \/ interval[1] = 0
        THEN s
        ELSE setConfirmCommit(s, Ballot(interval[1], value), Ballot(interval[2], value))

-----------------------------------------------------------------------------
(* Catching up with the counters of a v-blocking set.                      *)

StatementCounter(st) ==
    IF st.type = "EXTERNALIZE" THEN UINT32_MAX ELSE st.ballot.counter

VBlockingAhead(s, n) ==
    Pledged(s, LAMBDA st : n < StatementCounter(st)) \in VBlockingSets[s.self]

\* The scan starts at the lowest counter and gives up at once when that is
\* below the current one.
attemptBump(s) ==
    LET target == s.currentBallot.counter
        all == {target} \cup {StatementCounter(s.latest[m]) :
                                m \in Pledged(s, LAMBDA st : TRUE)}
        reached == {n \in all : n > target /\ ~VBlockingAhead(s, n)}
    IN  IF \/ s.phase = "EXTERNALIZE"
           \/ Bottom(all) < target
           \/ ~VBlockingAhead(s, target)
           \/ reached = {}
        THEN s ELSE abandonBallot(s, Bottom(reached))

-----------------------------------------------------------------------------
(* advanceSlot: the attempts in order, the bump only at the outermost      *)
(* level and as often as it succeeds, then the return to the caller.       *)

\* The state of the caller while attempt k runs and does work.
Calling(s, k) ==
    [s EXCEPT !.stack[1].pc = IF k = 5 THEN 5 ELSE k + 1,
              !.stack[1].didWork = TRUE]

\* Wrong: the outermost call sends nothing.
returnWithoutSending(s) ==
    LET f == s.stack[1]
        t == [s EXCEPT !.stack = Tail(@)]
    IN  IF f.own THEN recordLastEnvelope(t, f.hint) ELSE t

returnFromAdvanceSlot(s) ==
    LET f == s.stack[1]
        t == [s EXCEPT !.stack = Tail(@)]
        u == IF f.didWork THEN sendLatestEnvelope(t) ELSE t
    IN  IF f.own THEN recordLastEnvelope(u, f.hint) ELSE u

\* The first attempt that changes something, or the return.
advanceSlot(s) ==
    LET hint == s.stack[1].hint
        accepted  == attemptPreparedAccept(Calling(s, 1), hint)
        confirmed == attemptPreparedConfirmed(Calling(s, 2), hint)
        commit    == attemptAcceptCommit(Calling(s, 3), hint)
        decided   == attemptConfirmCommit(Calling(s, 4), hint)
        bumped    == attemptBump(Calling(s, 5))
        Works(k, t) == s.stack[1].pc <= k /\ t # Calling(s, k)
    IN  IF Works(1, accepted) THEN accepted
        ELSE IF Works(2, confirmed) THEN confirmed
        ELSE IF Works(3, commit) THEN commit
        ELSE IF Works(4, decided) THEN decided
        ELSE IF Len(s.stack) = 1 /\ Works(5, bumped) THEN bumped
        ELSE returnFromAdvanceSlot(s)

-----------------------------------------------------------------------------
(* The events of a slot.                                                   *)

Update(n, s) == slot' = [slot EXCEPT ![n] = s]

AdvanceSlot(n) == Running(slot[n]) /\ Update(n, advanceSlot(slot[n]))

NoneRunning == \A n \in Node : ~Running(slot[n])

\* A statement of m reaches n: first time, again, late or out of order.
ReceiveEnvelope(n, m) ==
    /\ NoneRunning /\ Idle(slot[n])
    /\ m \in Hears[n] \ {n}
    /\ \E st \in slot[m].emitted :
          /\ Acceptable(slot[n], m, st)
          /\ Update(n, processEnvelope(slot[n], m, st))

\* Nomination has a new composite candidate and starts the ballot protocol
\* with it; it is stopped once the slot externalizes.
UpdatedCandidateValue(n) ==
    /\ NoneRunning /\ Idle(slot[n])
    /\ slot[n].phase # "EXTERNALIZE"
    /\ \E v \in Value :
          /\ <<slot[n].candidate, v>> \in CandidateSteps[n]
          /\ Update(n, bumpState([slot[n] EXCEPT !.candidate = v], v, FALSE))

\* A timer that fires before a quorum was heard is only set again.
MayAbandon(s) ==
    /\ s.timer /\ s.heardFromQuorum
    /\ s.currentBallot.counter < BumpLimit[s.self] \/ s.currentBallot.counter = UINT32_MAX

BallotProtocolTimerExpired(n) ==
    /\ NoneRunning /\ Idle(slot[n])
    /\ MayAbandon(slot[n])
    /\ Update(n, abandonBallot([slot[n] EXCEPT !.timer = FALSE], 0))

\* Wrong: only the ballot is restored.
setStateFromBallot(s, st) ==
    bumpToBallot(s, IF st.type = "EXTERNALIZE" THEN Ballot(UINT32_MAX, st.commit.value)
                    ELSE st.ballot)

\* The state that setStateFromEnvelope rebuilds from the statement the node
\* last emitted, which emitEnvelope saves before it broadcasts it.
setStateFromEnvelope(s, st) ==
    LET t == [recordEnvelope(s, s.self, st)
                EXCEPT !.lastEnvelope = st, !.lastEnvelopeEmit = st]
    IN  CASE st.type = "PREPARE" ->
                [bumpToBallot(t, st.ballot) EXCEPT
                    !.prepared = st.prepared, !.preparedPrime = st.preparedPrime,
                    !.highBallot = IF st.nH # 0 THEN Ballot(st.nH, st.ballot.value) ELSE @,
                    !.commit = IF st.nC # 0 THEN Ballot(st.nC, st.ballot.value) ELSE @]
          [] st.type = "CONFIRM" ->
                LET v == st.ballot.value
                IN  [bumpToBallot(t, st.ballot) EXCEPT
                        !.prepared = Ballot(st.nPrepared, v),
                        !.highBallot = Ballot(st.nH, v),
                        !.commit = Ballot(st.nCommit, v),
                        !.phase = "CONFIRM"]
          [] st.type = "EXTERNALIZE" ->
                LET v == st.commit.value
                IN  [bumpToBallot(t, Ballot(UINT32_MAX, v)) EXCEPT
                        !.prepared = Ballot(UINT32_MAX, v),
                        !.highBallot = Ballot(st.nH, v),
                        !.commit = st.commit,
                        !.phase = "EXTERNALIZE"]

\* The process stops at any point between two handlers, or because of an
\* exception or an assertion, and starts again from the saved statement.
Restart(n) ==
    /\ NoneRunning
    /\ LET fresh == [InitSlot(n) EXCEPT !.emitted = slot[n].emitted]
           saved == slot[n].lastEnvelopeEmit
       IN  Update(n, IF saved = NoStatement THEN fresh
                     ELSE setStateFromEnvelope(fresh, saved))

Init == slot = [n \in Node |-> InitSlot(n)]

Next ==
    \E n \in Node :
        \/ AdvanceSlot(n)
        \/ \E m \in Node : ReceiveEnvelope(n, m)
        \/ UpdatedCandidateValue(n)
        \/ BallotProtocolTimerExpired(n)

Spec == Init /\ [][Next]_vars

\* The same network with processes that stop and start again.
NextWithRestarts == Next \/ \E n \in Node : Restart(n)

SpecWithRestarts == Init /\ [][NextWithRestarts]_vars

\* Weak fairness of Next, with ENABLED <<Next>>_vars spelled out (TLC is slow
\* on it): as long as a handler is to be finished, a statement to be accepted
\* by a peer (peers flood them, and the herder sends its last ones again), a
\* candidate to be produced or a timer to fire, one of them happens.
CanStep ==
    \E n \in Node :
        \/ Running(slot[n])
        \/ /\ NoneRunning /\ Idle(slot[n])
           /\ \/ \E m \in Hears[n] \ {n} : \E st \in slot[m].emitted :
                    Acceptable(slot[n], m, st)
              \/ slot[n].phase # "EXTERNALIZE"
                 /\ \E v \in Value : <<slot[n].candidate, v>> \in CandidateSteps[n]
              \/ MayAbandon(slot[n])

FairSpec == Spec /\ ([]<>(~CanStep) \/ []<><<Next>>_vars)

-----------------------------------------------------------------------------
(* Properties.                                                             *)

\* Sets that hold a slice of every member, and one of some node.  Agreement
\* takes for granted that any two have a node in common.
QuorumSets ==
    {U \in SUBSET Node : (\E n \in Node : U \in Slices[n]) /\ \A n \in U : U \in Slices[n]}
QuorumIntersection == \A U, W \in QuorumSets : U \cap W # {}

Phases == {"PREPARE", "CONFIRM", "EXTERNALIZE"}
Failures == {"none", "dbgAssert", "badState", "maxTransitions"}
Frames == [hint : Statements, own : BOOLEAN, pc : 1..5, didWork : BOOLEAN]
SlotStates ==
    [self : Node, phase : Phases,
     currentBallot : Ballots, prepared : Ballots, preparedPrime : Ballots,
     highBallot : Ballots, commit : Ballots,
     heardFromQuorum : BOOLEAN, timer : BOOLEAN,
     latest : [Node -> Statements \cup {NoStatement}],
     lastEnvelope : Statements \cup {NoStatement},
     lastEnvelopeEmit : Statements \cup {NoStatement},
     fullyValidated : BOOLEAN, candidate : Value \cup {NoValue},
     stack : Seq(Frames), failure : Failures, emitted : SUBSET Statements]

\* Every slot object holds ballots and statements whose counters fit 32 bits
\* and whose values nomination produced, whatever assertion has failed.
TypeOK == slot \in [Node -> SlotStates] /\ \A n \in Node : slot[n].self = n

\* No two nodes externalize different values for the slot
\* (setConfirmCommit hands the value to the driver).
Agreement ==
    \A n, m \in Node :
        slot[n].phase = "EXTERNALIZE" /\ slot[m].phase = "EXTERNALIZE" =>
            slot[n].commit.value = slot[m].commit.value

\* Once a node has accepted the commit of a value (setAcceptCommit), no node
\* has accepted as prepared a ballot of another value above the lowest
\* committed ballot (setPrepared): what Agreement rests on.
CommitProtected ==
    \A n, m \in Node :
        slot[n].phase # "PREPARE" =>
            \A q \in {slot[m].prepared, slot[m].preparedPrime} \ {NoBallot} :
                areBallotsCompatible(q, slot[n].commit) \/ Less(q, slot[n].commit)

\* The assertions of the class hold: checkInvariants, the order in
\* updateCurrentValue, the compatibility with c in attemptPreparedAccept and
\* setPreparedAccept, and the pointers that createStatement follows.
NoAssertionFails == \A n \in Node : slot[n].failure # "dbgAssert"

\* No handler ends in a failure: no assertion fails,
\* emitCurrentStateStatement never throws "moved to a bad state" (every
\* statement a node makes of its state is sane and newer than its last one),
\* and advanceSlot never reaches MAX_ADVANCE_SLOT_RECURSION.
NeverFails == \A n \in Node : slot[n].failure = "none"

\* p and p' are never both set and compatible or out of order, not even
\* between the steps of a handler (setPrepared, setStateFromEnvelope).
PreparedOrder ==
    \A n \in Node :
        slot[n].preparedPrime # NoBallot =>
            /\ slot[n].prepared # NoBallot
            /\ areBallotsLessAndIncompatible(slot[n].preparedPrime, slot[n].prepared)

\* When no handler runs, what a validating node last told its peers
\* (sendLatestEnvelope, at the outermost level only) is the state it is in.
PeersKnowState ==
    \A n \in Node :
        Idle(slot[n]) /\ slot[n].fullyValidated /\ slot[n].currentBallot # NoBallot =>
            slot[n].lastEnvelopeEmit = createStatement(slot[n])

\* A statement a node sends is newer (isNewerStatement) than everything it
\* sent before, over all its lives: no peer drops it as stale and no two
\* peers are left with different statements of the node.
EmitsOnlyNewer ==
    [][\A n \in Node : \A st \in slot'[n].emitted \ slot[n].emitted :
          \A su \in slot[n].emitted : isNewerStatement(su, st)]_vars

\* A node in CONFIRM commits to one value and never goes back, p only grows,
\* and so does h until the slot externalizes (setAcceptCommit, setPrepared);
\* an externalized slot keeps c and h, whatever arrives later.
CommitmentKept ==
    [][\A n \in Node :
          /\ slot[n].phase = "EXTERNALIZE" =>
                /\ slot'[n].phase = "EXTERNALIZE"
                /\ slot'[n].commit = slot[n].commit
                /\ slot'[n].highBallot = slot[n].highBallot
          /\ slot[n].phase = "CONFIRM" =>
                /\ slot'[n].phase # "PREPARE"
                /\ slot'[n].commit.value = slot[n].commit.value
                /\ slot'[n].prepared.counter >= slot[n].prepared.counter
                /\ slot'[n].phase = "CONFIRM" =>
                      slot'[n].highBallot.counter >= slot[n].highBallot.counter]_vars

\* Once some node externalizes, all do: its EXTERNALIZE statement and the
\* CONFIRM statements behind it are enough for the others.
ExternalizeSpreads ==
    (\E n \in Node : slot[n].phase = "EXTERNALIZE")
        ~> (\A n \in Node : slot[n].phase = "EXTERNALIZE")

\* The slot is decided, or some node goes on to the last counter the model
\* lets it try: nobody waits for ever with all timers stopped.
Progress ==
    <>(\/ \A n \in Node : slot[n].phase = "EXTERNALIZE"
       \/ \E n \in Node : slot[n].currentBallot.counter >= BumpLimit[n])

\* attemptBump: a node at rest is not behind a v-blocking set of its peers
\* ("if so, we move to that smallest counter").
NotBehindVBlocking ==
    \A n \in Node :
        /\ Idle(slot[n]) /\ slot[n].phase # "EXTERNALIZE"
        /\ slot[n].currentBallot # NoBallot
        => ~VBlockingAhead(slot[n], slot[n].currentBallot.counter)
=============================================================================
