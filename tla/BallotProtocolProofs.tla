------------------------ MODULE BallotProtocolProofs ------------------------
(***************************************************************************)
(* What is proved of BallotProtocol for every network, value set and       *)
(* bound: the type invariant, and the order of p and p' in every state,    *)
(* over restarts and after failed assertions. One lemma per method says    *)
(* that it keeps both.                                                     *)
(***************************************************************************)
EXTENDS BallotFacts, WellFoundedInduction

-----------------------------------------------------------------------------
(* Least and greatest elements exist in bounded sets of counters and of    *)
(* ballots, so that the CHOOSE of Bottom, Top, Highest and Lowest chooses. *)

LEMMA LessThanIsWellFounded ==
    IsWellFoundedOn({ss \in Nat \X Nat : ss[1] < ss[2]}, Nat)
BY NatLessThanWellFounded, Zenon DEF OpToRel

\* Every non-empty set of naturals has a least element.
LEMMA LeastNatural ==
    ASSUME NEW T \in SUBSET Nat, T # {}
    PROVE  \E x \in T : \A y \in T : x <= y
<1> DEFINE R == {ss \in Nat \X Nat : ss[1] < ss[2]}
<1>1. IsWellFoundedOn(R, Nat)
  BY LessThanIsWellFounded
<1>2. \E x \in T : \A y \in T : ~(<<y, x>> \in R)
  <2> HIDE DEF R
  <2> QED BY Zenon, <1>1, WFMin
<1>3. PICK x \in T : \A y \in T : ~(y < x)
  BY Zenon, <1>2
<1> QED BY <1>3

\* A non-empty set of naturals below a bound has a greatest element.
LEMMA GreatestNatural ==
    ASSUME NEW m \in Nat, NEW T \in SUBSET (0..m), T # {}
    PROVE  \E x \in T : \A y \in T : y <= x
<1> DEFINE U == {m - y : y \in T}
<1>1. U \in SUBSET Nat /\ U # {}
  <2>1. \A y \in T : m - y \in Nat
    OBVIOUS
  <2> QED BY Zenon, <2>1
<1>2. PICK u \in U : \A w \in U : u <= w
  <2> HIDE DEF U
  <2> QED BY <1>1, LeastNatural
<1>3. PICK x \in T : u = m - x
  BY <1>2
<1>4. ASSUME NEW y \in T PROVE y <= x
  <2>1. m - y \in U
    OBVIOUS
  <2> QED BY <2>1, <1>2, <1>3
<1> QED BY <1>4

\* Bottom and Top return members of a non-empty set of counters.
LEMMA BottomTopMember ==
    ASSUME NEW T \in SUBSET Counters, T # {}
    PROVE  Bottom(T) \in T /\ Top(T) \in T
<1>1. \E k \in T : \A x \in T : k <= x
  BY LeastNatural, CounterAssumption DEF Counters
<1>2. \E k \in T : \A x \in T : x <= k
  BY Zenon, GreatestNatural, CounterAssumption DEF Counters
<1> QED BY <1>1, <1>2 DEF Bottom, Top

\* Highest and Lowest return members of a non-empty set of ballots.
LEMMA HighestMember ==
    ASSUME NEW S \in SUBSET Ballots, S # {}
    PROVE  Highest(S) \in S
<1> DEFINE C == {b.counter : b \in S}
<1>1. C \in SUBSET (0..UINT32_MAX) /\ C # {}
  BY DEF Ballots, Counters
<1>2. PICK c \in C : \A d \in C : d <= c
  <2> HIDE DEF C
  <2> QED BY <1>1, GreatestNatural, CounterAssumption
<1> DEFINE V == {b.value : b \in {x \in S : x.counter = c}}
<1>3. V \in SUBSET (0..MaxValue) /\ V # {}
  BY <1>2, ValueAssumption DEF Ballots, Value, NoValue
<1>4. PICK v \in V : \A w \in V : w <= v
  <2> HIDE DEF V
  <2> QED BY Zenon, <1>3, GreatestNatural, ValueAssumption
<1>5. PICK b \in S : b.counter = c /\ b.value = v
  BY <1>4
<1>6. ASSUME NEW x \in S PROVE LessEq(x, b)
  <2>1. x.counter \in C /\ x.counter <= c
    BY <1>2
  <2>2. x.counter \in Nat /\ c \in Nat /\ x.value \in Nat /\ v \in Nat
    BY <1>1, <1>3, <1>4, <1>5, ValueAssumption DEF Ballots, Counters, Value, NoValue
  <2>3. CASE x.counter < c
    BY <2>3, <1>5 DEF LessEq, Less
  <2>4. CASE x.counter = c
    <3>1. x.value <= v
      BY <2>4, <1>4
    <3>2. CASE x.value < v
      BY <3>2, <2>4, <1>5 DEF LessEq, Less
    <3>3. CASE x.value = v
      BY <3>3, <2>4, <1>5 DEF LessEq, Ballots
    <3> QED BY <3>1, <3>2, <3>3, <2>2
  <2> QED BY <2>1, <2>2, <2>3, <2>4
<1> QED BY <1>6, Zenon DEF Highest

LEMMA LowestMember ==
    ASSUME NEW S \in SUBSET Ballots, S # {}
    PROVE  Lowest(S) \in S
<1> DEFINE C == {b.counter : b \in S}
<1>1. C \in SUBSET Nat /\ C # {}
  BY CounterAssumption DEF Ballots, Counters
<1>2. PICK c \in C : \A d \in C : c <= d
  <2> HIDE DEF C
  <2> QED BY <1>1, LeastNatural
<1> DEFINE V == {b.value : b \in {x \in S : x.counter = c}}
<1>3. V \in SUBSET Nat /\ V # {}
  BY <1>2, ValueAssumption DEF Ballots, Value, NoValue
<1>4. PICK v \in V : \A w \in V : v <= w
  <2> HIDE DEF V
  <2> QED BY Zenon, <1>3, LeastNatural
<1>5. PICK b \in S : b.counter = c /\ b.value = v
  BY <1>4
<1>6. ASSUME NEW x \in S PROVE LessEq(b, x)
  <2>1. x.counter \in C /\ c <= x.counter
    BY <1>2
  <2>2. x.counter \in Nat /\ c \in Nat /\ x.value \in Nat /\ v \in Nat
    BY <1>1, <1>3, <1>4, <1>5, ValueAssumption DEF Ballots, Counters, Value, NoValue
  <2>3. CASE c < x.counter
    BY <2>3, <1>5 DEF LessEq, Less
  <2>4. CASE x.counter = c
    <3>1. v <= x.value
      BY <2>4, <1>4
    <3>2. CASE v < x.value
      BY <3>2, <2>4, <1>5 DEF LessEq, Less
    <3>3. CASE x.value = v
      BY <3>3, <2>4, <1>5 DEF LessEq, Ballots
    <3> QED BY <3>1, <3>2, <3>3, <2>2
  <2> QED BY <2>1, <2>2, <2>3, <2>4
<1> QED BY <1>6, Zenon DEF Lowest

-----------------------------------------------------------------------------
(* The inductive invariant.  The order of p and p' is kept by a restart    *)
(* only because the saved statement has it, which the own statements on    *)
(* the stack bring there.                                                  *)

\* What every operation does to the record of a node.
Keeps(s, t) == SlotOK(t) /\ t.self = s.self

LEMMA abortKeeps ==
    ASSUME NEW s, SlotOK(s)
    PROVE  Keeps(s, abort(s))
BY Zenon DEF abort, Keeps, SlotOK, SlotStates, Failures

LEMMA sendLatestEnvelopeKeeps ==
    ASSUME NEW s, SlotOK(s)
    PROVE  Keeps(s, sendLatestEnvelope(s))
BY Zenon DEF sendLatestEnvelope, Keeps, SlotOK, SlotStates

LEMMA recordLastEnvelopeKeeps ==
    ASSUME NEW s, SlotOK(s), NEW st \in Statements, StatementOK(st)
    PROVE  Keeps(s, recordLastEnvelope(s, st))
<1> DEFINE t == [s EXCEPT !.lastEnvelope = st]
<1>1. SlotOK(t) /\ t.self = s.self
  BY SMTT(30) DEF SlotOK, SlotStates
<1>2. Keeps(t, sendLatestEnvelope(t))
  BY <1>1, sendLatestEnvelopeKeeps
<1>3. Keeps(s, s)
  BY DEF Keeps
<1> QED BY <1>1, <1>2, <1>3 DEF recordLastEnvelope, Keeps

\* A new frame, if its hint is an own statement, has an ordered one.
LEMMA PushFrame ==
    ASSUME NEW s, SlotOK(s), NEW f \in Frames, f.own => StatementOK(f.hint)
    PROVE  Keeps(s, [s EXCEPT !.stack = <<f>> \o @])
<1> DEFINE t == [s EXCEPT !.stack = <<f>> \o @]
<1>1. s.stack \in Seq(Frames) /\ <<f>> \in Seq(Frames) /\ Len(<<f>>) = 1 /\ <<f>>[1] = f
  BY DEF SlotOK, SlotStates
<1>2. /\ t.stack \in Seq(Frames) /\ Len(t.stack) = 1 + Len(s.stack)
      /\ \A i \in 1..(1 + Len(s.stack)) :
            t.stack[i] = IF i <= 1 THEN f ELSE s.stack[i - 1]
  <2>1. t.stack = <<f>> \o s.stack
    BY DEF SlotOK, SlotStates
  <2> QED BY <1>1, <2>1, StackPush
<1>3. Len(s.stack) \in Nat
  BY <1>1, StackLength
<1>4. \A i \in 1..Len(t.stack) : t.stack[i].own => StatementOK(t.stack[i].hint)
  <2> SUFFICES ASSUME NEW i \in 1..Len(t.stack), t.stack[i].own
               PROVE  StatementOK(t.stack[i].hint)
    OBVIOUS
  <2>1. CASE i = 1
    BY <2>1, <1>2, <1>3
  <2>2. CASE i # 1
    <3>1. i - 1 \in 1..Len(s.stack) /\ t.stack[i] = s.stack[i - 1]
      BY <2>2, <1>2, <1>3
    <3> QED BY <3>1 DEF SlotOK
  <2> QED BY <2>1, <2>2
<1>5. t \in SlotStates
  BY Zenon, <1>2 DEF SlotOK, SlotStates
<1> QED BY <1>4, <1>5 DEF Keeps, SlotOK

LEMMA PopFrame ==
    ASSUME NEW s, SlotOK(s), s.stack # << >>
    PROVE  /\ Keeps(s, [s EXCEPT !.stack = Tail(@)])
           /\ s.stack[1] \in Frames
           /\ s.stack[1].own => StatementOK(s.stack[1].hint)
<1> DEFINE t == [s EXCEPT !.stack = Tail(@)]
<1>1. s.stack \in Seq(Frames)
  BY DEF SlotOK, SlotStates
<1>2. Len(s.stack) \in Nat \ {0}
  BY <1>1, StackLength
<1>3. /\ t.stack \in Seq(Frames) /\ Len(t.stack) = Len(s.stack) - 1
      /\ \A i \in 1..Len(t.stack) : t.stack[i] = s.stack[i + 1]
  <2>1. t.stack = Tail(s.stack)
    BY DEF SlotOK, SlotStates
  <2> QED BY <1>1, <2>1, StackPop
<1>4. \A i \in 1..Len(t.stack) : t.stack[i].own => StatementOK(t.stack[i].hint)
  BY <1>2, <1>3 DEF SlotOK
<1>5. t \in SlotStates
  BY Zenon, <1>3 DEF SlotOK, SlotStates
<1>6. s.stack[1] \in Frames
  BY <1>1, <1>2, StackElement
<1> QED BY <1>2, <1>4, <1>5, <1>6 DEF Keeps, SlotOK

LEMMA CallingKeeps ==
    ASSUME NEW s, SlotOK(s), s.stack # << >>, NEW k \in 1..5
    PROVE  Keeps(s, Calling(s, k))
<1> DEFINE f == [s.stack[1] EXCEPT !.pc = IF k = 5 THEN 5 ELSE k + 1, !.didWork = TRUE]
           q == [s.stack EXCEPT ![1] = f]
           t == [s EXCEPT !.stack = q]
<1>1. s.stack \in Seq(Frames) /\ s.stack[1] \in Frames /\ 1 \in 1..Len(s.stack)
  BY PopFrame, StackLength DEF SlotOK, SlotStates
<1>2. f \in Frames /\ f.own = s.stack[1].own /\ f.hint = s.stack[1].hint
  <2> DEFINE p == IF k = 5 THEN 5 ELSE k + 1
  <2>1. p \in 1..5
    OBVIOUS
  <2> HIDE DEF p
  <2>2. [s.stack[1] EXCEPT !.pc = p, !.didWork = TRUE] \in Frames
    BY Zenon, <1>1, <2>1 DEF Frames
  <2>3. f = [s.stack[1] EXCEPT !.pc = p, !.didWork = TRUE]
    BY DEF p
  <2> QED BY <1>1, <2>2, <2>3 DEF Frames
<1>3. /\ q \in Seq(Frames) /\ Len(q) = Len(s.stack)
      /\ \A j \in 1..Len(s.stack) : q[j] = IF j = 1 THEN f ELSE s.stack[j]
  BY <1>1, <1>2, StackUpdate
<1>4. Calling(s, k) = t
  BY Zenon, <1>1 DEF Calling, SlotOK, SlotStates
<1>5. t \in SlotStates /\ t.stack = q
  BY Zenon, <1>3 DEF SlotOK, SlotStates
<1>6. \A i \in 1..Len(t.stack) : t.stack[i].own => StatementOK(t.stack[i].hint)
  BY <1>1, <1>2, <1>3, <1>5 DEF SlotOK
<1> QED BY <1>4, <1>5, <1>6 DEF Keeps, SlotOK

-----------------------------------------------------------------------------
(* Emission.                                                               *)

LEMMA enterAdvanceSlotKeeps ==
    ASSUME NEW s, SlotOK(s), NEW st \in Statements, NEW own \in BOOLEAN,
           own => StatementOK(st)
    PROVE  Keeps(s, enterAdvanceSlot(s, st, own))
<1> DEFINE heard == \/ s.heardFromQuorum
                    \/ /\ s.currentBallot # NoBallot
                       /\ federatedRatify(s, Pledged(s, LAMBDA x :
                             x.type = "PREPARE" =>
                                s.currentBallot.counter <= x.ballot.counter))
           f == Frame(st, own)
           t == [s EXCEPT !.stack = <<f>> \o @]
<1>1. heard \in BOOLEAN
  OBVIOUS
<1>2. f \in Frames /\ f.own = own /\ f.hint = st
  BY DEF Frame, Frames
<1>3. Keeps(s, t)
  BY <1>2, PushFrame
<1> HIDE DEF f
<1>4. Keeps(s, [s EXCEPT !.failure = "maxTransitions"])
  BY Zenon DEF Keeps, SlotOK, SlotStates, Failures
<1>5. enterAdvanceSlot(s, st, own) \in
        {[s EXCEPT !.failure = "maxTransitions"],
         [s EXCEPT !.stack = <<f>> \o @, !.heardFromQuorum = heard]}
  BY Zenon DEF enterAdvanceSlot, f
<1> HIDE DEF heard
<1>6. Keeps(s, [s EXCEPT !.stack = <<f>> \o @, !.heardFromQuorum = heard])
  <2> DEFINE u == [s EXCEPT !.stack = <<f>> \o @, !.heardFromQuorum = heard]
  <2>1. u = [t EXCEPT !.heardFromQuorum = heard]
    OBVIOUS
  <2> HIDE DEF t, u
  <2>2. Keeps(s, u)
    BY Zenon, <1>1, <1>3, <2>1 DEF Keeps, SlotOK, SlotStates
  <2> QED BY <2>2 DEF u
<1> QED BY <1>4, <1>5, <1>6

LEMMA processEnvelopeKeeps ==
    ASSUME NEW s, SlotOK(s), NEW m \in Node, NEW st \in Statements,
           m = s.self => StatementOK(st)
    PROVE  Keeps(s, processEnvelope(s, m, st))
<1> DEFINE known == recordEnvelope(s, m, st)
           fv == known.fullyValidated
                    /\ validateValues(s.self, st) # "kMaybeValidValue"
           t == [known EXCEPT !.fullyValidated = fv]
<1>1. Keeps(s, known)
  BY Zenon DEF Keeps, SlotOK, SlotStates, recordEnvelope
<1>2. Keeps(s, t)
  <2>1. fv \in BOOLEAN
    OBVIOUS
  <2> HIDE DEF fv, known
  <2> QED BY Zenon, <1>1, <2>1 DEF Keeps, SlotOK, SlotStates
<1>3. Keeps(t, enterAdvanceSlot(t, st, m = s.self))
  <2> HIDE DEF t
  <2> QED BY Zenon, <1>2, enterAdvanceSlotKeeps DEF Keeps
<1>4. processEnvelope(s, m, st) \in {known, enterAdvanceSlot(t, st, m = s.self)}
  BY Zenon DEF processEnvelope
<1> HIDE DEF known, t
<1> QED BY <1>1, <1>2, <1>3, <1>4 DEF Keeps

LEMMA emitCurrentStateStatementKeeps ==
    ASSUME NEW s, SlotOK(s)
    PROVE  Keeps(s, emitCurrentStateStatement(s))
<1> DEFINE st == createStatement(s)
           t == processEnvelope(s, s.self, st)
<1>1. st \in Statements /\ StatementOK(st)
  BY createStatementType
<1>2. s.self \in Node
  BY DEF SlotOK, SlotStates
<1>3. Keeps(s, t)
  <2> HIDE DEF st
  <2> QED BY <1>1, <1>2, processEnvelopeKeeps
<1>4. Keeps(t, recordLastEnvelope(t, st))
  <2> HIDE DEF st, t
  <2> QED BY <1>1, <1>3, recordLastEnvelopeKeeps DEF Keeps
<1>5. Keeps(s, [s EXCEPT !.failure = "badState"])
  BY DEF Keeps, SlotOK, SlotStates, Failures
<1>6. Keeps(s, abort(s)) /\ Keeps(s, s)
  BY abortKeeps DEF Keeps
<1>7. emitCurrentStateStatement(s) \in
        {abort(s), s, [s EXCEPT !.failure = "badState"], t, recordLastEnvelope(t, st)}
  BY Zenon DEF emitCurrentStateStatement
<1> HIDE DEF st, t
<1> QED BY Zenon, <1>3, <1>4, <1>5, <1>6, <1>7 DEF Keeps

-----------------------------------------------------------------------------
(* The current ballot.                                                     *)

LEMMA bumpToBallotKeeps ==
    ASSUME NEW s, SlotOK(s), NEW b \in Ballots
    PROVE  Keeps(s, bumpToBallot(s, b))
<1> DEFINE tm == s.timer \/ s.currentBallot # b
<1>1. tm \in BOOLEAN
  OBVIOUS
<1>2. bumpToBallot(s, b) = [s EXCEPT !.currentBallot = b, !.heardFromQuorum = FALSE,
                                      !.timer = tm]
  BY DEF bumpToBallot
<1> HIDE DEF tm
<1> QED BY Zenon, <1>1, <1>2 DEF Keeps, SlotOK, SlotStates

LEMMA updateCurrentIfNeededKeeps ==
    ASSUME NEW s, SlotOK(s)
    PROVE  Keeps(s, updateCurrentIfNeeded(s))
<1>1. s.highBallot \in Ballots
  BY DEF SlotOK, SlotStates
<1> QED BY <1>1, bumpToBallotKeeps DEF updateCurrentIfNeeded, Keeps

LEMMA updateCurrentValueKeeps ==
    ASSUME NEW s, SlotOK(s), NEW b \in Ballots
    PROVE  Keeps(s, updateCurrentValue(s, b))
<1> DEFINE t == IF s.currentBallot = b THEN s ELSE bumpToBallot(s, b)
<1>1. Keeps(s, t) /\ Keeps(s, s) /\ Keeps(s, abort(s))
  BY bumpToBallotKeeps, abortKeeps DEF Keeps
<1>2. Keeps(t, abort(t))
  <2> HIDE DEF t
  <2> QED BY <1>1, abortKeeps DEF Keeps
<1>3. updateCurrentValue(s, b) \in {s, abort(s), t, abort(t)}
  BY Zenon DEF updateCurrentValue
<1> HIDE DEF t
<1> QED BY <1>1, <1>2, <1>3 DEF Keeps

LEMMA bumpStateToKeeps ==
    ASSUME NEW s, SlotOK(s), NEW v \in Value \cup {NoValue}, NEW c \in Counters
    PROVE  Keeps(s, bumpStateTo(s, v, c))
<1> DEFINE w == IF s.highBallot # NoBallot THEN s.highBallot.value ELSE v
           t == updateCurrentValue(s, Ballot(c, w))
<1>1. w \in Value \cup {NoValue}
  BY DEF SlotOK, SlotStates, Ballots
<1>2. Keeps(s, t)
  <2> HIDE DEF w
  <2> QED BY <1>1, BallotType, updateCurrentValueKeeps
<1>3. Keeps(t, emitCurrentStateStatement(t))
  <2> HIDE DEF t
  <2> QED BY <1>2, emitCurrentStateStatementKeeps DEF Keeps
<1>4. bumpStateTo(s, v, c) \in {s, t, emitCurrentStateStatement(t)}
  BY Zenon DEF bumpStateTo
<1> HIDE DEF t
<1> QED BY <1>2, <1>3, <1>4 DEF Keeps

\* The counter after the current one fits 32 bits: it wraps.
LEMMA NextCounterType ==
    ASSUME NEW c \in Counters
    PROVE  (c + 1) % (UINT32_MAX + 1) \in Counters
BY CounterAssumption DEF Counters

LEMMA bumpStateKeeps ==
    ASSUME NEW s, SlotOK(s), NEW v \in Value \cup {NoValue}, NEW force \in BOOLEAN
    PROVE  Keeps(s, bumpState(s, v, force))
<1> DEFINE c == (s.currentBallot.counter + 1) % (UINT32_MAX + 1)
<1>1. c \in Counters
  BY NextCounterType DEF SlotOK, SlotStates, Ballots
<1>2. bumpState(s, v, force) \in {s, bumpStateTo(s, v, c)}
  BY Zenon DEF bumpState
<1> HIDE DEF c
<1> QED BY <1>1, <1>2, bumpStateToKeeps DEF Keeps

LEMMA abandonBallotKeeps ==
    ASSUME NEW s, SlotOK(s), NEW c \in Counters
    PROVE  Keeps(s, abandonBallot(s, c))
<1> DEFINE v == IF s.candidate # NoValue THEN s.candidate ELSE s.currentBallot.value
<1>1. v \in Value \cup {NoValue}
  BY DEF SlotOK, SlotStates, Ballots
<1>2. abandonBallot(s, c) \in {s, bumpState(s, v, TRUE), bumpStateTo(s, v, c)}
  BY Zenon DEF abandonBallot
<1> HIDE DEF v
<1>3. Keeps(s, s) /\ Keeps(s, bumpStateTo(s, v, c))
  BY <1>1, bumpStateToKeeps DEF Keeps
<1>4. Keeps(s, bumpState(s, v, TRUE))
  BY Zenon, <1>1, bumpStateKeeps
<1> QED BY Zenon, <1>2, <1>3, <1>4

-----------------------------------------------------------------------------
(* Accepting and confirming prepared ballots.                              *)

LEMMA CandidatesType ==
    ASSUME NEW st \in Statements \cup {NoStatement}, NEW t \in Ballots
    PROVE  CandidatesIn(st, t) \subseteq Ballots
<1>1. CASE st.type = "PREPARE"
  <2>1. st.ballot \in Ballots /\ st.prepared \in Ballots /\ st.preparedPrime \in Ballots
    BY <1>1 DEF Statements, NoStatement
  <2> QED BY <1>1, <2>1 DEF CandidatesIn
<1>2. CASE st.type = "NONE"
  BY <1>2 DEF CandidatesIn
<1>3. CASE st.type \in {"CONFIRM", "EXTERNALIZE"}
  <2>1. st.type = "CONFIRM" => st.nPrepared \in Counters
    BY DEF Statements, NoStatement
  <2>2. t.value \in Value \cup {NoValue}
    BY DEF Ballots
  <2>3. st.type = "CONFIRM" => Ballot(st.nPrepared, t.value) \in Ballots
    BY <2>1, <2>2, BallotType
  <2> QED BY <1>3, <2>3 DEF CandidatesIn
<1> QED BY <1>1, <1>2, <1>3 DEF Statements, NoStatement

LEMMA HintBallotsType ==
    ASSUME NEW st \in Statements
    PROVE  HintBallots(st) \subseteq Ballots
<1>1. CASE st.type = "PREPARE"
  BY <1>1 DEF HintBallots, Statements
<1>2. CASE st.type = "CONFIRM"
  <2>1. st.nPrepared \in Counters /\ st.ballot.value \in Value \cup {NoValue}
    BY <1>2 DEF Statements, Ballots
  <2>2. UINT32_MAX \in Counters
    BY CounterAssumption DEF Counters
  <2> QED BY <1>2, <2>1, <2>2, BallotType DEF HintBallots
<1>3. CASE st.type = "EXTERNALIZE"
  <2>1. st.commit.value \in Value \cup {NoValue}
    BY <1>3 DEF Statements, Ballots
  <2>2. UINT32_MAX \in Counters
    BY CounterAssumption DEF Counters
  <2> QED BY <1>3, <2>1, <2>2, BallotType DEF HintBallots
<1> QED BY <1>1, <1>2, <1>3 DEF Statements

LEMMA getPrepareCandidatesType ==
    ASSUME NEW s, SlotOK(s), NEW hint \in Statements
    PROVE  getPrepareCandidates(s, hint) \subseteq Ballots
<1> SUFFICES ASSUME NEW m \in Node, NEW t \in HintBallots(hint)
             PROVE  CandidatesIn(s.latest[m], t) \subseteq Ballots
  BY DEF getPrepareCandidates
<1>1. s.latest[m] \in Statements \cup {NoStatement}
  BY DEF SlotOK, SlotStates
<1> QED BY <1>1, HintBallotsType, CandidatesType

LEMMA LessFromLessEq ==
    ASSUME NEW a \in Ballots, NEW b \in Ballots, NEW c \in Ballots,
           LessEq(a, b), Less(b, c)
    PROVE  Less(a, c) /\ c # NoBallot
<1>1. /\ a.counter \in Nat /\ a.value \in Nat /\ b.counter \in Nat /\ b.value \in Nat
      /\ c.counter \in Nat /\ c.value \in Nat
  BY BallotFields
<1>2. CASE a = b
  BY <1>1, <1>2 DEF Less, NoBallot, NoValue
<1>3. CASE Less(a, b)
  BY SMTT(30), <1>1, <1>3 DEF Less, NoBallot, NoValue
<1> QED BY <1>2, <1>3 DEF LessEq

\* p' stays below and incompatible with p, for a ballot that p does not
\* already cover.
LEMMA setPreparedKeeps ==
    ASSUME NEW s, SlotOK(s), NEW b \in Ballots,
           s.prepared = NoBallot \/ ~areBallotsLessAndCompatible(b, s.prepared)
    PROVE  Keeps(s, setPrepared(s, b))
<1> DEFINE p == s.prepared
           q == s.preparedPrime
           With(x, y) == [s EXCEPT !.preparedPrime = y, !.prepared = x]
<1>1. p \in Ballots /\ q \in Ballots /\ PrimeOK(q, p)
  BY Zenon DEF SlotOK, SlotStates
<1>2. ASSUME NEW x \in Ballots, NEW y \in Ballots, PrimeOK(y, x)
      PROVE  Keeps(s, With(x, y))
  BY Zenon, <1>2 DEF Keeps, SlotOK, SlotStates
<1>3. /\ [s EXCEPT !.prepared = b] = With(b, q)
      /\ [s EXCEPT !.preparedPrime = b] = With(p, b)
  BY Zenon DEF SlotOK, SlotStates
<1>4. CASE p = NoBallot
  <2>1. setPrepared(s, b) = With(b, q)
    BY Zenon, <1>3, <1>4 DEF setPrepared
  <2>2. PrimeOK(q, b)
    BY Zenon, <1>1, <1>4 DEF PrimeOK
  <2> HIDE DEF p, q, With
  <2> QED BY Zenon, <1>1, <1>2, <2>1, <2>2
<1>5. CASE p # NoBallot /\ Less(p, b)
  <2> DEFINE y == IF areBallotsCompatible(p, b) THEN q ELSE p
  <2>1. setPrepared(s, b) = With(b, y)
    BY Zenon, <1>5 DEF setPrepared
  <2> HIDE DEF p, q, With
  <2>2. b # NoBallot
    BY <1>1, <1>5, LessFromLessEq DEF LessEq
  <2>3. CASE areBallotsCompatible(p, b)
    <3>1. ASSUME q # NoBallot PROVE areBallotsLessAndIncompatible(q, b)
      <4>1. LessEq(q, p) /\ ~areBallotsCompatible(q, p)
        BY Zenon, <1>1, <3>1 DEF PrimeOK, areBallotsLessAndIncompatible
      <4>2. Less(q, b)
        BY Zenon, <1>1, <1>5, <4>1, LessFromLessEq
      <4>3. ~areBallotsCompatible(q, b)
        BY Zenon, <4>1, <2>3 DEF areBallotsCompatible
      <4> QED BY Zenon, <4>2, <4>3 DEF areBallotsLessAndIncompatible, LessEq
    <3>2. PrimeOK(q, b)
      BY Zenon, <2>2, <3>1 DEF PrimeOK
    <3> QED BY Zenon, <1>1, <1>2, <2>1, <2>3, <3>2
  <2>4. CASE ~areBallotsCompatible(p, b)
    <3>1. PrimeOK(p, b)
      BY Zenon, <1>5, <2>2, <2>4 DEF PrimeOK, areBallotsLessAndIncompatible, LessEq
    <3> QED BY Zenon, <1>1, <1>2, <2>1, <2>4, <3>1
  <2> QED BY Zenon, <2>3, <2>4
<1>6. CASE p # NoBallot /\ ~Less(p, b)
  <2>1. CASE /\ Less(b, p)
             /\ q = NoBallot \/ Less(q, b)
    <3>1. PrimeOK(b, p)
      BY Zenon, <1>6, <2>1 DEF PrimeOK, areBallotsLessAndIncompatible,
            areBallotsLessAndCompatible, LessEq
    <3>2. setPrepared(s, b) = With(p, b)
      BY Zenon, <1>3, <1>6, <2>1 DEF setPrepared
    <3> HIDE DEF p, q, With
    <3> QED BY Zenon, <1>1, <1>2, <3>1, <3>2
  <2>2. CASE ~(/\ Less(b, p)
               /\ q = NoBallot \/ Less(q, b))
    BY Zenon, <1>6, <2>2 DEF setPrepared, Keeps
  <2> QED BY Zenon, <2>1, <2>2
<1> QED BY Zenon, <1>4, <1>5, <1>6

LEMMA setPreparedAcceptKeeps ==
    ASSUME NEW s, SlotOK(s), NEW b \in Ballots,
           s.prepared = NoBallot \/ ~areBallotsLessAndCompatible(b, s.prepared)
    PROVE  Keeps(s, setPreparedAccept(s, b))
<1> DEFINE t == setPrepared(s, b)
           v == [t EXCEPT !.commit = NoBallot]
<1>1. Keeps(s, s) /\ Keeps(s, t)
  BY Zenon, setPreparedKeeps DEF Keeps
<1>2. setPreparedAccept(s, b) \in
        {s, abort(t), emitCurrentStateStatement(t), emitCurrentStateStatement(v)}
  BY Zenon DEF setPreparedAccept
<1> HIDE DEF t
<1>3. Keeps(s, v)
  BY SMTT(30), <1>1, NoBallotType DEF Keeps, SlotOK, SlotStates
<1>4. Keeps(t, abort(t)) /\ Keeps(t, emitCurrentStateStatement(t))
  BY Zenon, <1>1, abortKeeps, emitCurrentStateStatementKeeps DEF Keeps
<1> HIDE DEF v
<1>5. Keeps(v, emitCurrentStateStatement(v))
  BY Zenon, <1>3, emitCurrentStateStatementKeeps DEF Keeps
<1> QED BY Zenon, <1>1, <1>2, <1>3, <1>4, <1>5 DEF Keeps

LEMMA attemptPreparedAcceptKeeps ==
    ASSUME NEW s, SlotOK(s), NEW hint \in Statements
    PROVE  Keeps(s, attemptPreparedAccept(s, hint))
<1> DEFINE considered ==
               {b \in getPrepareCandidates(s, hint) :
                   s.phase = "CONFIRM" => areBallotsLessAndCompatible(s.prepared, b)}
           useful ==
               {b \in considered :
                   /\ s.preparedPrime = NoBallot \/ Less(s.preparedPrime, b)
                   /\ s.prepared = NoBallot \/ ~areBallotsLessAndCompatible(b, s.prepared)}
           accepted ==
               {b \in useful :
                   federatedAccept(s, Pledged(s, LAMBDA st : votesPrepared(b, st)),
                                      Pledged(s, LAMBDA st : hasPreparedBallot(b, st)))}
           b0 == Highest(accepted)
<1>1. /\ attemptPreparedAccept(s, hint) \in {s, abort(s), setPreparedAccept(s, b0)}
      /\ attemptPreparedAccept(s, hint) # s =>
            attemptPreparedAccept(s, hint) = abort(s) \/ accepted # {}
  BY Zenon DEF attemptPreparedAccept
<1>2. accepted \subseteq useful
  BY Zenon
<1> HIDE DEF accepted
<1>3. useful \subseteq Ballots
  BY Zenon, getPrepareCandidatesType
<1>4. Keeps(s, s) /\ Keeps(s, abort(s))
  BY Zenon, abortKeeps DEF Keeps
<1>5. CASE accepted # {}
  <2>1. b0 \in accepted /\ b0 \in useful /\ b0 \in Ballots
    <3> HIDE DEF useful
    <3> QED BY Zenon, <1>2, <1>3, <1>5, HighestMember
  <2>2. s.prepared = NoBallot \/ ~areBallotsLessAndCompatible(b0, s.prepared)
    BY Zenon, <2>1
  <2> HIDE DEF b0
  <2>3. Keeps(s, setPreparedAccept(s, b0))
    BY Zenon, <2>1, <2>2, setPreparedAcceptKeeps
  <2> QED BY Zenon, <1>1, <1>4, <2>3
<1> QED BY Zenon, <1>1, <1>4, <1>5

LEMMA setPreparedConfirmedKeeps ==
    ASSUME NEW s, SlotOK(s), NEW c \in Ballots, NEW h \in Ballots
    PROVE  Keeps(s, setPreparedConfirmed(s, c, h))
<1> DEFINE t == [s EXCEPT !.highBallot = IF Less(@, h) THEN h ELSE @,
                          !.commit = IF c.counter # 0 THEN c ELSE @]
           u == updateCurrentIfNeeded(t)
<1>1. Keeps(s, t) /\ Keeps(s, s)
  BY Zenon DEF Keeps, SlotOK, SlotStates
<1>2. setPreparedConfirmed(s, c, h) \in {s, emitCurrentStateStatement(u)}
  BY Zenon DEF setPreparedConfirmed
<1> HIDE DEF t
<1>3. Keeps(t, u)
  BY Zenon, <1>1, updateCurrentIfNeededKeeps DEF Keeps
<1> HIDE DEF u
<1>4. Keeps(u, emitCurrentStateStatement(u))
  BY Zenon, <1>3, emitCurrentStateStatementKeeps DEF Keeps
<1> QED BY Zenon, <1>1, <1>2, <1>3, <1>4 DEF Keeps

LEMMA attemptPreparedConfirmedKeeps ==
    ASSUME NEW s, SlotOK(s), NEW hint \in Statements
    PROVE  Keeps(s, attemptPreparedConfirmed(s, hint))
<1> DEFINE candidates == getPrepareCandidates(s, hint)
           Ratified(b) == federatedRatify(s, Pledged(s, LAMBDA st : hasPreparedBallot(b, st)))
           raising == {b \in candidates : Less(s.highBallot, b) /\ Ratified(b)}
           newH == Highest(raising)
           mayCommit == /\ s.commit = NoBallot
                        /\ \A p \in {s.prepared, s.preparedPrime} \ {NoBallot} :
                               ~areBallotsLessAndIncompatible(newH, p)
           below == {b \in candidates :
                       /\ LessEq(b, newH) /\ LessEq(s.currentBallot, b)
                       /\ \A x \in candidates :
                             LessEq(b, x) /\ LessEq(x, newH) => Ratified(x)}
           newC == IF mayCommit /\ below # {} THEN Lowest(below) ELSE NoBallot
<1>1. /\ attemptPreparedConfirmed(s, hint) \in {s, setPreparedConfirmed(s, newC, newH)}
      /\ attemptPreparedConfirmed(s, hint) # s => raising # {}
  BY Zenon DEF attemptPreparedConfirmed
<1>2. candidates \subseteq Ballots
  BY SMTT(30), getPrepareCandidatesType
<1>3. raising \subseteq Ballots /\ below \subseteq Ballots
  <2> HIDE DEF candidates, Ratified, newH
  <2> QED BY <1>2
<1> HIDE DEF raising, below, candidates, Ratified
<1>4. Keeps(s, s)
  BY SMTT(30) DEF Keeps
<1>5. CASE raising # {}
  <2>1. newH \in Ballots
    BY SMTT(30), <1>3, <1>5, HighestMember
  <2>2. newC \in Ballots
    <3>1. below # {} => Lowest(below) \in Ballots
      BY SMTT(30), <1>3, LowestMember
    <3> HIDE DEF mayCommit
    <3> QED BY SMTT(30), <3>1, NoBallotType
  <2> HIDE DEF newH, newC
  <2>3. Keeps(s, setPreparedConfirmed(s, newC, newH))
    BY SMTT(30), <2>1, <2>2, setPreparedConfirmedKeeps
  <2> QED BY SMTT(30), <1>1, <1>4, <2>3
<1> QED BY Zenon, <1>1, <1>4, <1>5

-----------------------------------------------------------------------------
(* Accepting and confirming commits.                                       *)

LEMMA BoundariesType ==
    ASSUME NEW s, SlotOK(s), NEW v
    PROVE  getCommitBoundariesFromStatements(s, v) \subseteq Counters
<1> DEFINE Bounds(st) ==
               CASE st.type = "PREPARE" ->
                       IF st.ballot.value = v /\ st.nC # 0 THEN {st.nC, st.nH} ELSE {}
                 [] st.type = "NONE" -> {}
                 [] OTHER ->
                       IF CommitValue(st) # v THEN {}
                       ELSE IF st.type = "CONFIRM" THEN {st.nCommit, st.nH}
                       ELSE {st.commit.counter, st.nH, UINT32_MAX}
<1>1. ASSUME NEW st \in Statements \cup {NoStatement}
      PROVE  Bounds(st) \subseteq Counters
  <2>1. CASE st.type = "PREPARE"
    BY <2>1 DEF Statements, NoStatement
  <2>2. CASE st.type = "NONE"
    BY <2>2
  <2>3. CASE st.type = "CONFIRM"
    BY <2>3 DEF Statements, NoStatement
  <2>4. CASE st.type = "EXTERNALIZE"
    <3>1. UINT32_MAX \in Counters
      BY SMTT(30), CounterAssumption DEF Counters
    <3>2. st.commit.counter \in Counters /\ st.nH \in Counters
      BY SMTT(30), <2>4 DEF Statements, NoStatement, Ballots
    <3> QED BY SMTT(30), <2>4, <3>1, <3>2
  <2> QED BY <2>1, <2>2, <2>3, <2>4 DEF Statements, NoStatement
<1>2. \A m \in Node : s.latest[m] \in Statements \cup {NoStatement}
  BY DEF SlotOK, SlotStates
<1>3. getCommitBoundariesFromStatements(s, v) = UNION {Bounds(s.latest[m]) : m \in Node}
  BY Zenon DEF getCommitBoundariesFromStatements
<1> HIDE DEF Bounds
<1> QED BY <1>1, <1>2, <1>3

LEMMA CommitValueType ==
    ASSUME NEW st \in Statements
    PROVE  /\ st.type = "PREPARE" => st.ballot.value \in Value \cup {NoValue}
           /\ st.type # "PREPARE" => CommitValue(st) \in Value \cup {NoValue}
BY SMTT(30) DEF Statements, Ballots, CommitValue

LEMMA setAcceptCommitKeeps ==
    ASSUME NEW s, SlotOK(s), NEW c \in Ballots, NEW h \in Ballots
    PROVE  Keeps(s, setAcceptCommit(s, c, h))
<1> DEFINE t == [s EXCEPT !.commit = c, !.highBallot = h]
           w == IF /\ s.currentBallot # NoBallot
                   /\ ~areBallotsLessAndCompatible(h, s.currentBallot)
                THEN bumpToBallot(t, h) ELSE t
           v == [w EXCEPT !.phase = "CONFIRM", !.preparedPrime = NoBallot]
           u == IF s.phase # "PREPARE" THEN t ELSE v
           x == updateCurrentIfNeeded(u)
<1>1. Keeps(s, t) /\ Keeps(s, s)
  BY Zenon DEF Keeps, SlotOK, SlotStates
<1>2. setAcceptCommit(s, c, h) \in {s, emitCurrentStateStatement(x)}
  BY Zenon DEF setAcceptCommit
<1> HIDE DEF t
<1>3. Keeps(s, w)
  BY <1>1, bumpToBallotKeeps DEF Keeps
<1> HIDE DEF w
<1>4. Keeps(s, v)
  BY Zenon, <1>3, NoBallotType DEF Keeps, SlotOK, SlotStates, Phases, PrimeOK
<1> HIDE DEF v
<1>5. Keeps(s, u)
  BY SMTT(30), <1>1, <1>4
<1> HIDE DEF u
<1>6. Keeps(u, x)
  BY SMTT(30), <1>5, updateCurrentIfNeededKeeps DEF Keeps
<1> HIDE DEF x
<1>7. Keeps(x, emitCurrentStateStatement(x))
  BY SMTT(30), <1>6, emitCurrentStateStatementKeeps DEF Keeps
<1> QED BY <1>1, <1>2, <1>5, <1>6, <1>7 DEF Keeps

LEMMA setConfirmCommitKeeps ==
    ASSUME NEW s, SlotOK(s), NEW c \in Ballots, NEW h \in Ballots
    PROVE  Keeps(s, setConfirmCommit(s, c, h))
<1> DEFINE t == [s EXCEPT !.commit = c, !.highBallot = h]
           u == updateCurrentIfNeeded(t)
           v == [u EXCEPT !.phase = "EXTERNALIZE"]
           x == emitCurrentStateStatement(v)
           y == [x EXCEPT !.timer = FALSE]
<1>1. Keeps(s, t)
  BY Zenon DEF Keeps, SlotOK, SlotStates
<1>2. setConfirmCommit(s, c, h) = y
  BY Zenon DEF setConfirmCommit
<1> HIDE DEF t
<1>3. Keeps(t, u)
  BY Zenon, <1>1, updateCurrentIfNeededKeeps DEF Keeps
<1> HIDE DEF u
<1>4. Keeps(u, v)
  BY <1>3 DEF Keeps, SlotOK, SlotStates, Phases
<1> HIDE DEF v
<1>5. Keeps(v, x)
  BY <1>4, emitCurrentStateStatementKeeps DEF Keeps
<1> HIDE DEF x
<1>6. Keeps(x, y)
  BY Zenon, <1>5 DEF Keeps, SlotOK, SlotStates
<1> HIDE DEF y
<1> QED BY SMTT(30), <1>1, <1>2, <1>3, <1>4, <1>5, <1>6 DEF Keeps

\* Both ends of the interval are counters: of two boundaries, or 0.
LEMMA findExtendedIntervalType ==
    ASSUME NEW B \in SUBSET Counters, NEW good
    PROVE  /\ findExtendedInterval(B, good)[1] \in Counters
           /\ findExtendedInterval(B, good)[2] \in Counters
<1> DEFINE alone == {b \in B : <<b, b>> \in good}
           high  == Top(alone)
           lows  == {b \in B :
                       /\ b <= high
                       /\ \A x \in B : b <= x /\ x <= high => <<x, high>> \in good}
           interval == IF alone = {} THEN NoInterval ELSE <<Bottom(lows), high>>
<1>1. findExtendedInterval(B, good) = interval
  BY Zenon DEF findExtendedInterval
<1>2. CASE alone = {}
  <2>1. interval = <<0, 0>>
    BY <1>2, Zenon DEF NoInterval
  <2>2. 0 \in Counters
    BY SMTT(30), CounterAssumption DEF Counters
  <2> HIDE DEF interval
  <2> QED BY <1>1, <2>1, <2>2
<1>3. CASE alone # {}
  <2>1. alone \subseteq Counters /\ lows \subseteq Counters
    BY SMTT(30)
  <2>2. high \in alone
    <3> HIDE DEF alone
    <3> QED BY SMTT(30), <1>3, <2>1, BottomTopMember
  <2>3. high \in lows
    <3>1. high \in Nat /\ \A x \in B : x \in Nat
      <4>1. \A x \in Counters : x \in Nat
        BY CounterAssumption DEF Counters
      <4> HIDE DEF alone, high, lows
      <4> QED BY Zenon, <4>1, <2>1, <2>2
    <3>2. high \in B /\ <<high, high>> \in good
      BY <2>2
    <3> HIDE DEF high
    <3>3. \A x \in B : high <= x /\ x <= high => x = high
      BY SMTT(30), <3>1
    <3>4. \A x \in B : high <= x /\ x <= high => <<x, high>> \in good
      BY Zenon, <3>2, <3>3
    <3>5. high <= high
      BY SMTT(30), <3>1
    <3> QED BY Zenon, <3>2, <3>4, <3>5
  <2>4. Bottom(lows) \in Counters
    <3> HIDE DEF lows
    <3> QED BY SMTT(30), <2>1, <2>3, BottomTopMember
  <2>5. interval = <<Bottom(lows), high>>
    BY <1>3, Zenon
  <2> HIDE DEF interval, lows, high
  <2> QED BY SMTT(30), <1>1, <2>1, <2>2, <2>4, <2>5
<1> QED BY Zenon, <1>2, <1>3

LEMMA attemptAcceptCommitKeeps ==
    ASSUME NEW s, SlotOK(s), NEW hint \in Statements
    PROVE  Keeps(s, attemptAcceptCommit(s, hint))
<1> DEFINE value == IF hint.type = "PREPARE" THEN hint.ballot.value ELSE CommitValue(hint)
           B == getCommitBoundariesFromStatements(s, value)
           accepted ==
               {i \in B \X B :
                   federatedAccept(s,
                       Pledged(s, LAMBDA st : votesCommit(value, i[1], i[2], st)),
                       Pledged(s, LAMBDA st : commitPredicate(value, i[1], i[2], st)))}
           interval == findExtendedInterval(B, accepted)
           c == Ballot(interval[1], value)
           h == Ballot(interval[2], value)
<1>1. attemptAcceptCommit(s, hint) \in {s, setAcceptCommit(s, c, h)}
  BY Zenon DEF attemptAcceptCommit
<1>2. value \in Value \cup {NoValue}
  BY SMTT(30), CommitValueType
<1>3. B \subseteq Counters
  BY SMTT(30), BoundariesType
<1> HIDE DEF value, B, accepted
<1>4. interval[1] \in Counters /\ interval[2] \in Counters
  BY Zenon, <1>3, findExtendedIntervalType
<1> HIDE DEF interval
<1>5. c \in Ballots /\ h \in Ballots
  BY SMTT(30), <1>2, <1>4, BallotType
<1> HIDE DEF c, h
<1>6. Keeps(s, s) /\ Keeps(s, setAcceptCommit(s, c, h))
  BY SMTT(30), <1>5, setAcceptCommitKeeps DEF Keeps
<1> QED BY <1>1, <1>6

LEMMA attemptConfirmCommitKeeps ==
    ASSUME NEW s, SlotOK(s), NEW hint \in Statements
    PROVE  Keeps(s, attemptConfirmCommit(s, hint))
<1> DEFINE value == CommitValue(hint)
           B == getCommitBoundariesFromStatements(s, value)
           ratified ==
               {i \in B \X B :
                   federatedRatify(s,
                       Pledged(s, LAMBDA st : commitPredicate(value, i[1], i[2], st)))}
           interval == findExtendedInterval(B, ratified)
           c == Ballot(interval[1], value)
           h == Ballot(interval[2], value)
<1>1. /\ attemptConfirmCommit(s, hint) \in {s, setConfirmCommit(s, c, h)}
      /\ attemptConfirmCommit(s, hint) # s => hint.type # "PREPARE"
  BY Zenon DEF attemptConfirmCommit
<1>2. hint.type # "PREPARE" => value \in Value \cup {NoValue}
  BY SMTT(30), CommitValueType
<1>3. B \subseteq Counters
  BY SMTT(30), BoundariesType
<1> HIDE DEF value, B, ratified
<1>4. interval[1] \in Counters /\ interval[2] \in Counters
  BY Zenon, <1>3, findExtendedIntervalType
<1> HIDE DEF interval
<1>5. hint.type # "PREPARE" => c \in Ballots /\ h \in Ballots
  BY SMTT(30), <1>2, <1>4, BallotType
<1> HIDE DEF c, h
<1>6. Keeps(s, s) /\ (hint.type # "PREPARE" => Keeps(s, setConfirmCommit(s, c, h)))
  BY SMTT(30), <1>5, setConfirmCommitKeeps DEF Keeps
<1> QED BY <1>1, <1>6

-----------------------------------------------------------------------------
(* advanceSlot.                                                            *)

LEMMA attemptBumpKeeps ==
    ASSUME NEW s, SlotOK(s)
    PROVE  Keeps(s, attemptBump(s))
<1> DEFINE target == s.currentBallot.counter
           all == {target} \cup {StatementCounter(s.latest[m]) :
                                   m \in Pledged(s, LAMBDA st : TRUE)}
           reached == {n \in all : n > target /\ ~VBlockingAhead(s, n)}
           k == Bottom(reached)
<1>1. /\ attemptBump(s) \in {s, abandonBallot(s, k)}
      /\ attemptBump(s) # s => reached # {}
  BY ZenonT(40) DEF attemptBump
<1>2. target \in Counters
  BY SMTT(30) DEF SlotOK, SlotStates, Ballots
<1>3. ASSUME NEW st \in Statements PROVE StatementCounter(st) \in Counters
  <2>1. UINT32_MAX \in Counters
    BY CounterAssumption DEF Counters
  <2> QED BY <2>1 DEF StatementCounter, Statements, Ballots
<1>4. \A m \in Pledged(s, LAMBDA st : TRUE) : s.latest[m] \in Statements
  <2>1. \A m \in Pledged(s, LAMBDA st : TRUE) : m \in Node /\ s.latest[m] # NoStatement
    BY Zenon DEF Pledged
  <2>2. \A m \in Node : s.latest[m] \in Statements \cup {NoStatement}
    BY DEF SlotOK, SlotStates
  <2> QED BY <2>1, <2>2
<1>5. reached \subseteq Counters
  BY SMTT(30), <1>2, <1>3, <1>4
<1> HIDE DEF reached
<1>6. reached # {} => k \in Counters
  BY SMTT(30), <1>5, BottomTopMember
<1> HIDE DEF k
<1>7. Keeps(s, s) /\ (reached # {} => Keeps(s, abandonBallot(s, k)))
  BY SMTT(30), <1>6, abandonBallotKeeps DEF Keeps
<1> QED BY <1>1, <1>7

LEMMA returnFromAdvanceSlotKeeps ==
    ASSUME NEW s, SlotOK(s), s.stack # << >>
    PROVE  Keeps(s, returnFromAdvanceSlot(s))
<1> DEFINE f == s.stack[1]
           t == [s EXCEPT !.stack = Tail(@)]
           u == IF f.didWork THEN sendLatestEnvelope(t) ELSE t
<1>1. Keeps(s, t) /\ f \in Frames /\ (f.own => StatementOK(f.hint))
  BY PopFrame
<1>2. returnFromAdvanceSlot(s) = IF f.own THEN recordLastEnvelope(u, f.hint) ELSE u
  BY Zenon DEF returnFromAdvanceSlot
<1> HIDE DEF t
<1>3. Keeps(s, u)
  BY Zenon, <1>1, sendLatestEnvelopeKeeps DEF Keeps
<1> HIDE DEF u, f
<1>4. f.hint \in Statements
  BY SMTT(30), <1>1 DEF Frames
<1>5. f.own => Keeps(u, recordLastEnvelope(u, f.hint))
  BY <1>1, <1>3, <1>4, recordLastEnvelopeKeeps DEF Keeps
<1> QED BY <1>2, <1>3, <1>5 DEF Keeps

LEMMA KeepsTransitive ==
    ASSUME NEW s, NEW t, NEW u, Keeps(s, t), Keeps(t, u)
    PROVE  Keeps(s, u)
BY Zenon DEF Keeps

LEMMA advanceSlotKeeps ==
    ASSUME NEW s, SlotOK(s), s.stack # << >>
    PROVE  Keeps(s, advanceSlot(s))
<1> DEFINE hint == s.stack[1].hint
<1>1. advanceSlot(s) \in {attemptPreparedAccept(Calling(s, 1), hint),
                          attemptPreparedConfirmed(Calling(s, 2), hint),
                          attemptAcceptCommit(Calling(s, 3), hint),
                          attemptConfirmCommit(Calling(s, 4), hint),
                          attemptBump(Calling(s, 5)), returnFromAdvanceSlot(s)}
  BY Zenon DEF advanceSlot
<1>2. hint \in Statements
  BY Zenon, PopFrame DEF Frames
<1> HIDE DEF hint
<1>3. /\ Keeps(s, Calling(s, 1)) /\ Keeps(s, Calling(s, 2)) /\ Keeps(s, Calling(s, 3))
      /\ Keeps(s, Calling(s, 4)) /\ Keeps(s, Calling(s, 5))
  <2>1. 1 \in 1..5 /\ 2 \in 1..5 /\ 3 \in 1..5 /\ 4 \in 1..5 /\ 5 \in 1..5
    OBVIOUS
  <2> QED BY Zenon, <2>1, CallingKeeps
<1>4. Keeps(s, attemptPreparedAccept(Calling(s, 1), hint))
  <2>1. SlotOK(Calling(s, 1))
    BY Zenon, <1>3 DEF Keeps
  <2>2. Keeps(Calling(s, 1), attemptPreparedAccept(Calling(s, 1), hint))
    BY Zenon, <1>2, <2>1, attemptPreparedAcceptKeeps
  <2> QED BY Zenon, <1>3, <2>2, KeepsTransitive
<1>5. Keeps(s, attemptPreparedConfirmed(Calling(s, 2), hint))
  <2>1. SlotOK(Calling(s, 2))
    BY Zenon, <1>3 DEF Keeps
  <2>2. Keeps(Calling(s, 2), attemptPreparedConfirmed(Calling(s, 2), hint))
    BY Zenon, <1>2, <2>1, attemptPreparedConfirmedKeeps
  <2> QED BY Zenon, <1>3, <2>2, KeepsTransitive
<1>6. Keeps(s, attemptAcceptCommit(Calling(s, 3), hint))
  <2>1. SlotOK(Calling(s, 3))
    BY Zenon, <1>3 DEF Keeps
  <2>2. Keeps(Calling(s, 3), attemptAcceptCommit(Calling(s, 3), hint))
    BY Zenon, <1>2, <2>1, attemptAcceptCommitKeeps
  <2> QED BY Zenon, <1>3, <2>2, KeepsTransitive
<1>7. Keeps(s, attemptConfirmCommit(Calling(s, 4), hint))
  <2>1. SlotOK(Calling(s, 4))
    BY Zenon, <1>3 DEF Keeps
  <2>2. Keeps(Calling(s, 4), attemptConfirmCommit(Calling(s, 4), hint))
    BY Zenon, <1>2, <2>1, attemptConfirmCommitKeeps
  <2> QED BY Zenon, <1>3, <2>2, KeepsTransitive
<1>8. Keeps(s, attemptBump(Calling(s, 5)))
  <2>1. SlotOK(Calling(s, 5))
    BY Zenon, <1>3 DEF Keeps
  <2>2. Keeps(Calling(s, 5), attemptBump(Calling(s, 5)))
    BY Zenon, <2>1, attemptBumpKeeps
  <2> QED BY Zenon, <1>3, <2>2, KeepsTransitive
<1>9. Keeps(s, returnFromAdvanceSlot(s))
  BY Zenon, returnFromAdvanceSlotKeeps
<1> QED BY <1>1, <1>4, <1>5, <1>6, <1>7, <1>8, <1>9, Zenon

-----------------------------------------------------------------------------
(* Starting and starting again.                                            *)

LEMMA InitSlotOK ==
    ASSUME NEW n \in Node, NEW e \in SUBSET Statements
    PROVE  LET s == [InitSlot(n) EXCEPT !.emitted = e]
           IN  SlotOK(s) /\ s.self = n /\ SlotOK(InitSlot(n)) /\ InitSlot(n).self = n
<1> DEFINE v == n \in Validator
           l == [m \in Node |-> NoStatement]
           b == NoBallot
           ns == NoStatement
           q == << >>
<1>1. v \in BOOLEAN
  OBVIOUS
<1>2. b \in Ballots
  BY NoBallotType
<1>3. q \in Seq(Frames) /\ Len(q) = 0
  OBVIOUS
<1>4. l \in [Node -> Statements \cup {NoStatement}]
  BY SMTT(30)
<1>5. StatementOK(ns) /\ PrimeOK(b, b)
  BY SMTT(30) DEF StatementOK, NoStatement, PrimeOK
<1>6. InitSlot(n) =
        [self |-> n, phase |-> "PREPARE", currentBallot |-> b, prepared |-> b,
         preparedPrime |-> b, highBallot |-> b, commit |-> b,
         heardFromQuorum |-> TRUE, timer |-> FALSE, latest |-> l,
         lastEnvelope |-> ns, lastEnvelopeEmit |-> ns,
         fullyValidated |-> v, candidate |-> NoValue,
         stack |-> q, failure |-> "none", emitted |-> {}]
  BY Zenon DEF InitSlot
<1>7. /\ "PREPARE" \in Phases /\ "none" \in Failures
      /\ NoValue \in Value \cup {NoValue} /\ {} \in SUBSET Statements
      /\ ns \in Statements \cup {NoStatement}
      /\ TRUE \in BOOLEAN /\ FALSE \in BOOLEAN
  BY ZenonT(40) DEF Phases, Failures
<1> HIDE DEF v, l, b, ns, q
<1>8. /\ InitSlot(n) \in SlotStates /\ InitSlot(n).self = n
      /\ InitSlot(n).prepared = b /\ InitSlot(n).preparedPrime = b
      /\ InitSlot(n).lastEnvelope = ns /\ InitSlot(n).lastEnvelopeEmit = ns
      /\ InitSlot(n).stack = q
  BY SMTT(30), <1>1, <1>2, <1>3, <1>4, <1>6, <1>7 DEF SlotStates
<1>9. \A k \in 1..Len(q) : FALSE
  BY <1>3
<1>10. SlotOK(InitSlot(n)) /\ InitSlot(n).self = n
  BY Zenon, <1>5, <1>8, <1>9 DEF SlotOK
<1> DEFINE i == InitSlot(n)
<1> HIDE DEF i
<1>11. SlotOK(i) /\ i.self = n
  BY <1>10 DEF i
<1>12. SlotOK([i EXCEPT !.emitted = e]) /\ [i EXCEPT !.emitted = e].self = n
  BY Zenon, <1>11 DEF SlotOK, SlotStates
<1> QED BY <1>10, <1>12 DEF i

LEMMA setStateFromEnvelopeKeeps ==
    ASSUME NEW s, SlotOK(s), NEW st \in Statements, StatementOK(st),
           s.preparedPrime = NoBallot
    PROVE  Keeps(s, setStateFromEnvelope(s, st))
<1> DEFINE t == [recordEnvelope(s, s.self, st)
                   EXCEPT !.lastEnvelope = st, !.lastEnvelopeEmit = st]
<1>1. Keeps(s, t) /\ t.preparedPrime = NoBallot
  BY Zenon DEF Keeps, SlotOK, SlotStates, recordEnvelope
<1> HIDE DEF t
<1>2. ASSUME NEW b \in Ballots
      PROVE  Keeps(s, bumpToBallot(t, b)) /\ bumpToBallot(t, b).preparedPrime = NoBallot
  <2>1. Keeps(t, bumpToBallot(t, b))
    BY <1>1, bumpToBallotKeeps DEF Keeps
  <2>2. bumpToBallot(t, b).preparedPrime = NoBallot
    BY SMTT(30), <1>1 DEF bumpToBallot, Keeps, SlotOK, SlotStates
  <2> QED BY SMTT(30), <1>1, <2>1, <2>2 DEF Keeps
<1>3. CASE st.type = "PREPARE"
  <2> DEFINE u == bumpToBallot(t, st.ballot)
             h == IF st.nH # 0 THEN Ballot(st.nH, st.ballot.value) ELSE u.highBallot
             c == IF st.nC # 0 THEN Ballot(st.nC, st.ballot.value) ELSE u.commit
             x == [u EXCEPT !.prepared = st.prepared,
                            !.preparedPrime = st.preparedPrime,
                            !.highBallot = h, !.commit = c]
  <2>1. /\ st.ballot \in Ballots /\ st.prepared \in Ballots /\ st.preparedPrime \in Ballots
        /\ st.nC \in Counters /\ st.nH \in Counters
        /\ st.ballot.value \in Value \cup {NoValue}
    BY SMTT(30), <1>3 DEF Statements, Ballots
  <2>2. Keeps(s, u)
    BY <1>2, <2>1
  <2>3. setStateFromEnvelope(s, st) = x
    BY <1>3, Zenon DEF setStateFromEnvelope, t
  <2> HIDE DEF u
  <2>4. h \in Ballots /\ c \in Ballots
    <3>1. Ballot(st.nH, st.ballot.value) \in Ballots /\ Ballot(st.nC, st.ballot.value) \in Ballots
      BY SMTT(30), <2>1, BallotType
    <3> QED BY Zenon, <3>1, <2>2 DEF Keeps, SlotOK, SlotStates
  <2> HIDE DEF h, c
  <2>5. PrimeOK(st.preparedPrime, st.prepared)
    BY <1>3 DEF StatementOK
  <2> DEFINE pp == st.preparedPrime
             p == st.prepared
  <2>6. x = [u EXCEPT !.prepared = p, !.preparedPrime = pp, !.highBallot = h, !.commit = c]
    BY SMTT(30)
  <2>7. pp \in Ballots /\ p \in Ballots /\ PrimeOK(pp, p)
    BY <2>1, <2>5
  <2> HIDE DEF x, pp, p
  <2>8. Keeps(s, x)
    BY Zenon, <2>2, <2>4, <2>6, <2>7 DEF Keeps, SlotOK, SlotStates
  <2> QED BY SMTT(30), <2>3, <2>8
<1>4. CASE st.type = "CONFIRM"
  <2> DEFINE v == st.ballot.value
             u == bumpToBallot(t, st.ballot)
             p == Ballot(st.nPrepared, v)
             h == Ballot(st.nH, v)
             c == Ballot(st.nCommit, v)
             x == [u EXCEPT !.prepared = p, !.highBallot = h, !.commit = c,
                            !.phase = "CONFIRM"]
  <2>1. /\ st.ballot \in Ballots /\ v \in Value \cup {NoValue}
        /\ st.nPrepared \in Counters /\ st.nH \in Counters /\ st.nCommit \in Counters
    BY Zenon, <1>4 DEF Statements, Ballots
  <2>2. Keeps(s, u) /\ u.preparedPrime = NoBallot
    BY <1>2, <2>1
  <2>3. setStateFromEnvelope(s, st) = x
    BY <1>4, Zenon DEF setStateFromEnvelope, t
  <2>4. p \in Ballots /\ h \in Ballots /\ c \in Ballots
    BY <2>1, BallotType
  <2> HIDE DEF u, p, h, c
  <2>5. Keeps(s, x)
    BY Zenon, <2>2, <2>4 DEF Keeps, SlotOK, SlotStates, Phases, PrimeOK
  <2> QED BY <2>3, <2>5
<1>5. CASE st.type = "EXTERNALIZE"
  <2> DEFINE v == st.commit.value
             u == bumpToBallot(t, Ballot(UINT32_MAX, v))
             p == Ballot(UINT32_MAX, v)
             h == Ballot(st.nH, v)
             c == st.commit
             x == [u EXCEPT !.prepared = p, !.highBallot = h, !.commit = c,
                            !.phase = "EXTERNALIZE"]
  <2>1. /\ c \in Ballots /\ v \in Value \cup {NoValue} /\ st.nH \in Counters
        /\ UINT32_MAX \in Counters
    BY <1>5, CounterAssumption DEF Statements, Ballots, Counters
  <2>2. Ballot(UINT32_MAX, v) \in Ballots /\ p \in Ballots /\ h \in Ballots
    BY SMTT(30), <2>1, BallotType
  <2>3. Keeps(s, u) /\ u.preparedPrime = NoBallot
    BY <1>2, <2>2
  <2>4. setStateFromEnvelope(s, st) = x
    BY <1>5, Zenon DEF setStateFromEnvelope, t
  <2> HIDE DEF u, p, h, c
  <2>5. Keeps(s, x)
    BY Zenon, <2>1, <2>2, <2>3 DEF Keeps, SlotOK, SlotStates, Phases, PrimeOK
  <2> QED BY <2>4, <2>5
<1> QED BY <1>3, <1>4, <1>5 DEF Statements

-----------------------------------------------------------------------------
(* The theorems.                                                           *)

\* Only the domain of slot is stated apart from what holds of each record.
Inv ==
    /\ slot = [n \in Node |-> slot[n]]
    /\ \A n \in Node : SlotOK(slot[n]) /\ slot[n].self = n

LEMMA UpdateKeeps ==
    ASSUME Inv, NEW n \in Node, NEW t, SlotOK(t), t.self = n, Update(n, t)
    PROVE  Inv'
<1> USE DEF Inv, Update
<1>1. \A m \in Node : slot'[m] = IF m = n THEN t ELSE slot[m]
  OBVIOUS
<1>2. slot' = [m \in Node |-> slot'[m]]
  BY SMTT(30)
<1>3. ASSUME NEW m \in Node PROVE SlotOK(slot'[m]) /\ slot'[m].self = m
  <2>1. CASE m = n
    BY SMTT(30), <1>1, <2>1
  <2>2. CASE m # n
    BY SMTT(30), <1>1, <2>2
  <2> QED BY SMTT(30), <2>1, <2>2
<1> QED BY <1>2, <1>3

LEMMA NextKeeps ==
    ASSUME Inv, NextWithRestarts
    PROVE  Inv'
<1>1. ASSUME NEW n \in Node PROVE SlotOK(slot[n]) /\ slot[n].self = n
  BY SMTT(30) DEF Inv
<1>2. ASSUME NEW n \in Node, AdvanceSlot(n) PROVE Inv'
  <2>1. Keeps(slot[n], advanceSlot(slot[n]))
    BY Zenon, <1>1, <1>2, advanceSlotKeeps DEF AdvanceSlot, Running
  <2> QED BY Zenon, <1>1, <1>2, <2>1, UpdateKeeps DEF AdvanceSlot, Keeps
<1>3. ASSUME NEW n \in Node, NEW m \in Node, ReceiveEnvelope(n, m) PROVE Inv'
  <2>1. PICK st \in slot[m].emitted : Update(n, processEnvelope(slot[n], m, st))
    BY Zenon, <1>3 DEF ReceiveEnvelope
  <2>2. st \in Statements
    BY Zenon, <1>1 DEF SlotOK, SlotStates
  <2>3. m # slot[n].self
    BY SMTT(30), <1>1, <1>3 DEF ReceiveEnvelope
  <2>4. Keeps(slot[n], processEnvelope(slot[n], m, st))
    BY SMTT(30), <1>1, <2>2, <2>3, processEnvelopeKeeps
  <2> QED BY SMTT(30), <1>1, <2>1, <2>4, UpdateKeeps DEF Keeps
<1>4. ASSUME NEW n \in Node, UpdatedCandidateValue(n) PROVE Inv'
  <2>1. PICK v \in Value :
            Update(n, bumpState([slot[n] EXCEPT !.candidate = v], v, FALSE))
    BY Zenon, <1>4 DEF UpdatedCandidateValue
  <2> DEFINE s == slot[n]
             t == [s EXCEPT !.candidate = v]
  <2>2. SlotOK(s) /\ s.self = n
    BY <1>1
  <2>3. SlotOK(t) /\ t.self = n
    <3> HIDE DEF s
    <3> QED BY SMTT(30), <2>2 DEF SlotOK, SlotStates
  <2> HIDE DEF t
  <2>4. Keeps(t, bumpState(t, v, FALSE))
    BY Zenon, <2>3, bumpStateKeeps
  <2>5. Update(n, bumpState(t, v, FALSE))
    BY Zenon, <2>1 DEF t
  <2> QED BY Zenon, <2>3, <2>4, <2>5, UpdateKeeps DEF Keeps
<1>5. ASSUME NEW n \in Node, BallotProtocolTimerExpired(n) PROVE Inv'
  <2> DEFINE s == slot[n]
             t == [s EXCEPT !.timer = FALSE]
  <2>1. SlotOK(s) /\ s.self = n
    BY <1>1
  <2>2. SlotOK(t) /\ t.self = n
    <3> HIDE DEF s
    <3> QED BY Zenon, <2>1 DEF SlotOK, SlotStates
  <2>3. Update(n, abandonBallot(t, 0))
    BY <1>5 DEF BallotProtocolTimerExpired
  <2> HIDE DEF t
  <2>4. 0 \in Counters
    BY CounterAssumption DEF Counters
  <2>5. Keeps(t, abandonBallot(t, 0))
    BY <2>2, <2>4, abandonBallotKeeps
  <2> QED BY <2>2, <2>3, <2>5, UpdateKeeps DEF Keeps
<1>6. ASSUME NEW n \in Node, Restart(n) PROVE Inv'
  <2> DEFINE fresh == [InitSlot(n) EXCEPT !.emitted = slot[n].emitted]
             saved == slot[n].lastEnvelopeEmit
             t == IF saved = NoStatement THEN fresh ELSE setStateFromEnvelope(fresh, saved)
  <2>1. Update(n, t)
    BY <1>6, Zenon DEF Restart
  <2>2. /\ slot[n].emitted \in SUBSET Statements
        /\ saved \in Statements \cup {NoStatement} /\ StatementOK(saved)
    BY <1>1 DEF SlotOK, SlotStates
  <2>3. SlotOK(fresh) /\ fresh.self = n
    BY <2>2, InitSlotOK
  <2>4. fresh.preparedPrime = NoBallot
    BY SMTT(30) DEF InitSlot
  <2> HIDE DEF fresh, saved
  <2>5. saved # NoStatement => Keeps(fresh, setStateFromEnvelope(fresh, saved))
    BY SMTT(30), <2>2, <2>3, <2>4, setStateFromEnvelopeKeeps
  <2>6. SlotOK(t) /\ t.self = n
    BY <2>3, <2>5 DEF Keeps
  <2> HIDE DEF t
  <2> QED BY <2>1, <2>6, UpdateKeeps
<1> QED BY SMTT(30), <1>2, <1>3, <1>4, <1>5, <1>6 DEF NextWithRestarts, Next

LEMMA InvInductive == SpecWithRestarts => []Inv
<1>1. Init => Inv
  <2> SUFFICES ASSUME Init PROVE Inv
    OBVIOUS
  <2>1. slot = [n \in Node |-> InitSlot(n)]
    BY DEF Init
  <2>2. \A n \in Node : SlotOK(InitSlot(n)) /\ InitSlot(n).self = n
    BY Zenon, InitSlotOK
  <2> QED BY <2>1, <2>2 DEF Inv
<1>2. Inv /\ [NextWithRestarts]_vars => Inv'
  <2> SUFFICES ASSUME Inv, [NextWithRestarts]_vars PROVE Inv'
    OBVIOUS
  <2>1. CASE NextWithRestarts
    BY <2>1, NextKeeps
  <2>2. CASE UNCHANGED vars
    BY <2>2 DEF vars, Inv
  <2> QED BY <2>1, <2>2
<1> QED BY <1>1, <1>2, PTL DEF SpecWithRestarts

\* For every network, value set and bound: whatever statements arrive, in
\* whatever order, and however often a node starts again, the fields of every
\* slot object stay in range (the counters in 32 bits, the values among those
\* that nomination produced), after failed assertions too.
THEOREM TypeCorrect == SpecWithRestarts => []TypeOK
<1>1. Inv => TypeOK
  BY SMTT(30) DEF Inv, TypeOK, SlotOK
<1> QED BY <1>1, InvInductive, PTL

\* For every network, value set and bound: setPrepared and
\* setStateFromEnvelope keep p' below and incompatible with p, over restarts
\* and between the nested calls of advanceSlot.
THEOREM PreparedStayOrdered == SpecWithRestarts => []PreparedOrder
<1>1. Inv => PreparedOrder
  BY DEF Inv, PreparedOrder, SlotOK, PrimeOK
<1> QED BY <1>1, InvInductive, PTL

-----------------------------------------------------------------------------
(* What a node brings back when it starts again.                           *)

USE Zenon

\* A process that starts and has emitted nothing yet.
LEMMA FreshHistory ==
    ASSUME NEW t, SlotOK(t), Pristine(t), t.stack = << >>, t.emitted = {},
           t.lastEnvelope = NoStatement, t.lastEnvelopeEmit = NoStatement, Own(t) = NoStatement
    PROVE  HistoryOK(t) /\ Made(t) = {}
<1>1. Len(t.stack) = 0 /\ \A i \in 1..Len(t.stack) : FALSE
  BY SMT
<1>2. /\ \A i \in 1..(Len(t.stack) - 1) : FALSE
      /\ \A i \in 2..Len(t.stack) : FALSE
  BY SMT, <1>1
<1>3. OwnHints(t) = {}
  BY <1>1 DEF OwnHints
<1>4. Made(t) = {}
  BY <1>3 DEF Made
<1>5. ChainOK(t) /\ SentOK(t) /\ SyncedOK(t)
  BY <1>4 DEF ChainOK, SentOK, SyncedOK
<1>6. StackOK(t)
  BY <1>2 DEF StackOK
<1> QED BY <1>4, <1>5, <1>6 DEF HistoryOK

Fresh(t, n, e) ==
    /\ SlotOK(t) /\ t.self = n /\ Pristine(t) /\ t.stack = << >> /\ t.emitted = e
    /\ t.lastEnvelope = NoStatement /\ t.lastEnvelopeEmit = NoStatement
    /\ t.latest = [m \in Node |-> NoStatement] /\ Own(t) = NoStatement
    /\ t.failure = "none"

LEMMA InitFields ==
    ASSUME NEW n \in Node, NEW e \in SUBSET Statements, NEW t,
           \/ t = [InitSlot(n) EXCEPT !.emitted = e]
           \/ t = InitSlot(n) /\ e = {}
    PROVE  Fresh(t, n, e)
<1>0. SlotOK(InitSlot(n)) /\ InitSlot(n).self = n
  BY InitSlotOK
<1>1. SlotOK(t) /\ t.self = n
  <2>1. CASE t = InitSlot(n)
    BY <1>0, <2>1
  <2>2. CASE t = [InitSlot(n) EXCEPT !.emitted = e]
    BY <2>2, InitSlotOK
  <2> QED BY <2>1, <2>2
<1> DEFINE l == [m \in Node |-> NoStatement]
           b == NoBallot
           v == n \in Validator
           ns == NoStatement
<1>2. InitSlot(n) =
        [self |-> n, phase |-> "PREPARE", currentBallot |-> b, prepared |-> b,
         preparedPrime |-> b, highBallot |-> b, commit |-> b,
         heardFromQuorum |-> TRUE, timer |-> FALSE, latest |-> l,
         lastEnvelope |-> ns, lastEnvelopeEmit |-> ns,
         fullyValidated |-> v, candidate |-> NoValue,
         stack |-> << >>, failure |-> "none", emitted |-> {}]
  BY DEF InitSlot
<1>3. l[n] = ns
  OBVIOUS
<1> HIDE DEF l, b, v, ns
<1> DEFINE Fields(x, y) ==
              /\ x.phase = "PREPARE" /\ x.currentBallot = b /\ x.prepared = b
              /\ x.preparedPrime = b /\ x.commit = b /\ x.highBallot = b
              /\ x.stack = << >> /\ x.emitted = y /\ x.lastEnvelope = ns
              /\ x.lastEnvelopeEmit = ns /\ x.latest = l /\ x.failure = "none"
<1>4. Fields(t, e)
  <2> DEFINE i == InitSlot(n)
  <2>1. Fields(i, {})
    BY SMT, <1>2
  <2>2. CASE t = InitSlot(n) /\ e = {}
    BY <2>1, <2>2
  <2>3. CASE t = [InitSlot(n) EXCEPT !.emitted = e]
    <3>1. SlotOK(i) /\ t = [i EXCEPT !.emitted = e]
      BY <1>0, <2>3
    <3> HIDE DEF i
    <3> QED BY <2>1, <3>1 DEF SlotOK, SlotStates
  <2> QED BY <2>2, <2>3
<1> QED BY <1>1, <1>3, <1>4 DEF l, b, ns, Pristine, Own, Fresh

StateSet(s, t, st) ==
    /\ Restored(t, st) /\ t.self = s.self
    /\ t.latest = [s.latest EXCEPT ![s.self] = st]
    /\ t.lastEnvelope = st /\ t.lastEnvelopeEmit = st /\ t.emitted = s.emitted
    /\ t.stack = s.stack /\ t.failure = s.failure

LEMMA setStateFields ==
    ASSUME NEW s, SlotOK(s), Pristine(s), NEW st \in Statements,
           NEW t, t = setStateFromEnvelope(s, st)
    PROVE  StateSet(s, t, st)
<1> DEFINE r == [recordEnvelope(s, s.self, st)
                   EXCEPT !.lastEnvelope = st, !.lastEnvelopeEmit = st]
           Kept(x) == /\ x.self = s.self /\ x.latest = [s.latest EXCEPT ![s.self] = st]
                      /\ x.lastEnvelope = st /\ x.lastEnvelopeEmit = st
                      /\ x.emitted = s.emitted /\ x.stack = s.stack /\ x.failure = s.failure
           Bumped(x, b) ==
              /\ x \in SlotStates /\ Kept(x) /\ x.phase = "PREPARE" /\ x.prepared = NoBallot
              /\ x.preparedPrime = NoBallot /\ x.commit = NoBallot
              /\ x.highBallot = NoBallot /\ x.currentBallot = b
<1>1. /\ r \in SlotStates /\ Kept(r) /\ r.phase = "PREPARE" /\ r.prepared = NoBallot
      /\ r.preparedPrime = NoBallot /\ r.commit = NoBallot /\ r.highBallot = NoBallot
  BY DEF SlotOK, SlotStates, recordEnvelope, Pristine
<1> HIDE DEF r
<1>2. ASSUME NEW b \in Ballots, NEW u, u = bumpToBallot(r, b)
      PROVE  Bumped(u, b)
  <2> DEFINE x == r.timer \/ r.currentBallot # b
  <2>1. u = [r EXCEPT !.currentBallot = b, !.heardFromQuorum = FALSE, !.timer = x]
    BY <1>2 DEF bumpToBallot
  <2>2. x \in BOOLEAN
    OBVIOUS
  <2> HIDE DEF x
  <2> QED BY <1>1, <2>1, <2>2 DEF SlotStates
<1> HIDE DEF Bumped
<1>3. /\ st.type \in {"PREPARE", "CONFIRM", "EXTERNALIZE"}
      /\ st.type \in {"PREPARE", "CONFIRM"} => st.ballot \in Ballots
      /\ st.type = "EXTERNALIZE" => st.commit \in Ballots
  BY SMT DEF Statements
<1>4. \A b \in Ballots : Ballot(UINT32_MAX, b.value) \in Ballots
  <2>1. UINT32_MAX \in Counters
    BY SMT, CounterAssumption DEF Counters
  <2> QED BY SMT, <2>1, BallotType DEF Ballots
<1>5. CASE st.type = "PREPARE"
  <2> DEFINE u == bumpToBallot(r, st.ballot)
             h == IF st.nH # 0 THEN Ballot(st.nH, st.ballot.value) ELSE u.highBallot
             c == IF st.nC # 0 THEN Ballot(st.nC, st.ballot.value) ELSE u.commit
             p == st.prepared
             pp == st.preparedPrime
  <2>1. t = [u EXCEPT !.prepared = p, !.preparedPrime = pp, !.highBallot = h, !.commit = c]
    BY <1>5 DEF setStateFromEnvelope, r
  <2>2. /\ u \in SlotStates /\ Kept(u) /\ u.phase = "PREPARE" /\ u.commit = NoBallot
        /\ u.highBallot = NoBallot /\ u.currentBallot = st.ballot
    <3>1. Bumped(u, st.ballot)
      BY <1>2, <1>3, <1>5
    <3> HIDE DEF u
    <3> QED BY <3>1 DEF Bumped
  <2>3. /\ h = IF st.nH # 0 THEN Ballot(st.nH, st.ballot.value) ELSE NoBallot
        /\ c = IF st.nC # 0 THEN Ballot(st.nC, st.ballot.value) ELSE NoBallot
    BY <2>2
  <2> HIDE DEF u, h, c, p, pp
  <2>4. /\ Kept(t) /\ t.phase = "PREPARE" /\ t.currentBallot = st.ballot
        /\ t.prepared = p /\ t.preparedPrime = pp /\ t.highBallot = h /\ t.commit = c
    BY <2>1, <2>2 DEF SlotStates
  <2>5. IsPrepare(st) /\ st.type # "CONFIRM" /\ st.type # "EXTERNALIZE"
    BY <1>5 DEF IsPrepare
  <2> QED BY <2>3, <2>4, <2>5 DEF Restored, StateSet, p, pp
<1>6. CASE st.type = "CONFIRM"
  <2> DEFINE v == st.ballot.value
             u == bumpToBallot(r, st.ballot)
             p == Ballot(st.nPrepared, v)
             h == Ballot(st.nH, v)
             c == Ballot(st.nCommit, v)
  <2>1. t = [u EXCEPT !.prepared = p, !.highBallot = h, !.commit = c, !.phase = "CONFIRM"]
    BY <1>6 DEF setStateFromEnvelope, r
  <2>2. u \in SlotStates /\ Kept(u) /\ u.preparedPrime = NoBallot /\ u.currentBallot = st.ballot
    <3>1. Bumped(u, st.ballot)
      BY <1>2, <1>3, <1>6
    <3> HIDE DEF u
    <3> QED BY <3>1 DEF Bumped
  <2> HIDE DEF u, h, c, p
  <2>3. /\ Kept(t) /\ t.phase = "CONFIRM" /\ t.currentBallot = st.ballot
        /\ t.prepared = p /\ t.preparedPrime = NoBallot /\ t.highBallot = h /\ t.commit = c
    BY <2>1, <2>2 DEF SlotStates
  <2>4. ~IsPrepare(st) /\ st.type # "EXTERNALIZE"
    BY <1>6 DEF IsPrepare
  <2> QED BY <2>3, <2>4 DEF Restored, StateSet, p, h, c
<1>7. CASE st.type = "EXTERNALIZE"
  <2> DEFINE v == st.commit.value
             u == bumpToBallot(r, Ballot(UINT32_MAX, v))
             p == Ballot(UINT32_MAX, v)
             h == Ballot(st.nH, v)
             c == st.commit
  <2>1. t = [u EXCEPT !.prepared = p, !.highBallot = h, !.commit = c,
                      !.phase = "EXTERNALIZE"]
    BY <1>7 DEF setStateFromEnvelope, r
  <2>2. p \in Ballots
    BY <1>3, <1>4, <1>7
  <2>3. u \in SlotStates /\ Kept(u) /\ u.preparedPrime = NoBallot /\ u.currentBallot = p
    <3>1. Bumped(u, p)
      BY <1>2, <2>2
    <3> HIDE DEF u
    <3> QED BY <3>1 DEF Bumped
  <2> HIDE DEF u, h, c, p
  <2>4. /\ Kept(t) /\ t.phase = "EXTERNALIZE" /\ t.currentBallot = p
        /\ t.prepared = p /\ t.preparedPrime = NoBallot /\ t.highBallot = h /\ t.commit = c
    BY <2>1, <2>3 DEF SlotStates
  <2>5. ~IsPrepare(st) /\ st.type # "CONFIRM"
    BY <1>7 DEF IsPrepare
  <2> QED BY <2>4, <2>5 DEF Restored, StateSet, p, h, c
<1> QED BY <1>3, <1>5, <1>6, <1>7

\* The restored state is consistent and says what the statement said.
LEMMA RestoredSynced ==
    ASSUME NEW t, SlotOK(t), NEW st \in Statements, Sound(st), Restored(t, st)
    PROVE  createStatement(t) = st /\ Consistent(t)
<1>1. /\ NoBallot.counter = 0
      /\ \A c, v : Ballot(c, v).counter = c /\ Ballot(c, v).value = v
  BY SMT DEF NoBallot, Ballot
<1>2. CASE st.type = "PREPARE"
  <2> DEFINE b == st.ballot
             h == t.highBallot
             c == t.commit
  <2>1. /\ t.phase = "PREPARE" /\ t.currentBallot = b
        /\ t.prepared = st.prepared /\ t.preparedPrime = st.preparedPrime
        /\ h = IF st.nH # 0 THEN Ballot(st.nH, b.value) ELSE NoBallot
        /\ c = IF st.nC # 0 THEN Ballot(st.nC, b.value) ELSE NoBallot
    BY <1>2 DEF Restored, IsPrepare
  <2>2. /\ st = Prepare(b, st.prepared, st.preparedPrime, st.nC, st.nH)
        /\ b \in Ballots /\ b.counter \in Nat /\ st.nC \in Nat /\ st.nH \in Nat
        /\ st.nC # 0 => st.nC <= st.nH /\ st.nH <= b.counter
    <3>1. /\ st = Prepare(b, st.prepared, st.preparedPrime, st.nC, st.nH)
          /\ b \in Ballots /\ st.nC \in Counters /\ st.nH \in Counters
      BY SMT, <1>2 DEF Statements, Prepare
    <3>2. b.counter \in Nat
      BY <3>1, BallotFields
    <3>3. st.nC \in Nat /\ st.nH \in Nat
      BY <3>1, CountersAreNat
    <3>4. st.nC # 0 => st.nC <= st.nH /\ st.nH <= b.counter
      BY <1>2 DEF Sound, IsPrepare
    <3> QED BY <3>1, <3>2, <3>3, <3>4
  <2> HIDE DEF b, h, c
  <2>3. h.counter = st.nH /\ c.counter = st.nC
    BY SMT, <1>1, <2>1
  <2>4. createStatement(t) = st
    BY <2>1, <2>2, <2>3 DEF createStatement, h, c
  <2>5. c # NoBallot => areBallotsLessAndCompatible(c, h) /\ areBallotsLessAndCompatible(h, b)
    <3> SUFFICES ASSUME c # NoBallot
                 PROVE  areBallotsLessAndCompatible(c, h) /\ areBallotsLessAndCompatible(h, b)
      OBVIOUS
    <3>1. st.nC # 0 /\ c = Ballot(st.nC, b.value)
      BY <2>1
    <3>2. st.nH # 0
      BY SMT, <2>2, <3>1
    <3>3. h = Ballot(st.nH, b.value)
      BY <2>1, <3>2
    <3> QED BY SMT, <2>2, <3>1, <3>3
       DEF areBallotsLessAndCompatible, areBallotsCompatible, LessEq, Less, Ballot, Ballots
  <2> QED BY <2>1, <2>4, <2>5 DEF Consistent, h, c
<1>3. CASE st.type = "CONFIRM"
  <2> DEFINE b == st.ballot
             h == Ballot(st.nH, b.value)
             c == Ballot(st.nCommit, b.value)
             p == Ballot(st.nPrepared, b.value)
  <2>1. /\ t.phase = "CONFIRM" /\ t.currentBallot = b /\ t.prepared = p
        /\ t.highBallot = h /\ t.commit = c
    BY <1>3 DEF Restored
  <2>2. /\ st = Confirm(b, st.nPrepared, st.nCommit, st.nH)
        /\ b \in Ballots /\ st.nCommit \in Counters /\ st.nH \in Counters
    BY SMT, <1>3 DEF Statements, Confirm
  <2>3. b.counter \in Nat /\ st.nCommit \in Nat /\ st.nH \in Nat
    BY <2>2, BallotFields, CountersAreNat
  <2>4. st.nCommit <= st.nH /\ st.nH <= b.counter /\ c # NoBallot
    BY <1>3 DEF Sound
  <2>5. p.counter = st.nPrepared /\ h.counter = st.nH /\ c.counter = st.nCommit
    BY <1>1
  <2>6. createStatement(t) = st
    <3> HIDE DEF p, h, c
    <3>1. t.phase # "PREPARE"
      BY <2>1
    <3> QED BY <2>1, <2>2, <2>5, <3>1 DEF createStatement
  <2>7. areBallotsLessAndCompatible(c, h) /\ areBallotsLessAndCompatible(h, b)
    <3> HIDE DEF b
    <3> QED BY SMT, <2>2, <2>3, <2>4
       DEF areBallotsLessAndCompatible, areBallotsCompatible, LessEq, Less, Ballot, NoBallot, Ballots
  <2> QED BY <2>1, <2>4, <2>6, <2>7 DEF Consistent
<1>4. CASE st.type = "EXTERNALIZE"
  <2> DEFINE c == st.commit
             b == Ballot(UINT32_MAX, c.value)
             h == Ballot(st.nH, c.value)
  <2>1. t.phase = "EXTERNALIZE" /\ t.currentBallot = b /\ t.highBallot = h /\ t.commit = c
    BY <1>4 DEF Restored
  <2>2. st = Externalize(c, st.nH) /\ c \in Ballots /\ st.nH \in Counters
    BY SMT, <1>4 DEF Statements, Externalize
  <2>3. /\ c.counter \in Nat /\ st.nH \in Nat /\ UINT32_MAX \in Nat /\ st.nH <= UINT32_MAX
    BY SMT, <2>2, BallotFields, CounterAssumption DEF Counters
  <2>4. c.counter <= st.nH /\ c # NoBallot
    BY <1>4 DEF Sound
  <2>5. h.counter = st.nH
    BY <1>1
  <2>6. createStatement(t) = st
    <3> HIDE DEF b, h, c
    <3>1. t.phase # "PREPARE" /\ t.phase # "CONFIRM"
      BY <2>1
    <3> QED BY <2>1, <2>2, <2>5, <3>1 DEF createStatement
  <2>7. areBallotsLessAndCompatible(c, h) /\ areBallotsLessAndCompatible(h, b)
    <3> HIDE DEF c
    <3> QED BY SMT, <2>2, <2>3, <2>4
       DEF areBallotsLessAndCompatible, areBallotsCompatible, LessEq, Less, Ballot, NoBallot, Ballots
  <2> QED BY <2>1, <2>4, <2>6, <2>7 DEF Consistent
<1> QED BY <1>2, <1>3, <1>4 DEF Statements

LEMMA restartHistory ==
    ASSUME NEW s, HistoryOK(s), NEW fresh, NEW t,
           fresh = [InitSlot(s.self) EXCEPT !.emitted = s.emitted],
           t = IF s.lastEnvelopeEmit = NoStatement THEN fresh
               ELSE setStateFromEnvelope(fresh, s.lastEnvelopeEmit)
    PROVE  HistoryOK(t) /\ Restarts(s, t)
<1> DEFINE saved == s.lastEnvelopeEmit
<1>0. SlotOK(s) /\ ChainOK(s) /\ SentOK(s)
  BY DEF HistoryOK
<1>1. /\ s.self \in Node /\ s.emitted \in SUBSET Statements
      /\ saved \in Statements \cup {NoStatement} /\ StatementOK(saved)
  BY <1>0 DEF SlotOK, SlotStates
<1>2. /\ SlotOK(fresh) /\ fresh.self = s.self /\ Pristine(fresh) /\ fresh.stack = << >>
      /\ fresh.emitted = s.emitted /\ fresh.lastEnvelope = NoStatement
      /\ fresh.lastEnvelopeEmit = NoStatement /\ fresh.latest = [m \in Node |-> NoStatement]
      /\ Own(fresh) = NoStatement /\ fresh.failure = "none"
  <2>1. Fresh(fresh, s.self, s.emitted)
    BY <1>1, InitFields
  <2> QED BY <2>1 DEF Fresh
<1>3. s.emitted \subseteq Made(s) /\ NoStatement \notin s.emitted /\ NoStatement \notin Statements
  BY <1>0, <1>1, MadeTypes, RankFields
<1>4. CASE saved = NoStatement
  <2>1. t = fresh
    BY <1>4
  <2>2. s.emitted = {}
    <3> SUFFICES ASSUME NEW a \in s.emitted PROVE FALSE
      OBVIOUS
    <3>1. a \in Statements /\ isNewerStatement(a, NoStatement)
      BY <1>0, <1>1, <1>3, <1>4 DEF SentOK, Follows
    <3> QED BY SMT, <3>1, RankFields DEF isNewerStatement, NoStatement
  <2>3. HistoryOK(t) /\ Made(t) = {}
    BY <1>2, <2>1, <2>2, FreshHistory
  <2> QED BY <1>2, <1>4, <2>1, <2>2, <2>3 DEF Restarts
<1>5. CASE saved # NoStatement
  <2>1. t = setStateFromEnvelope(fresh, saved) /\ saved \in Statements
    BY <1>1, <1>5
  <2>2. saved \in s.emitted /\ saved \in Made(s) /\ Sound(saved) /\ Sendable(saved)
    BY <1>0, <1>3, <1>5 DEF SentOK, ChainOK
  <2> HIDE DEF saved
  <2>3. /\ Restored(t, saved) /\ t.self = s.self
        /\ t.latest = [fresh.latest EXCEPT ![s.self] = saved]
        /\ t.lastEnvelope = saved /\ t.lastEnvelopeEmit = saved /\ t.emitted = s.emitted
        /\ t.stack = << >> /\ t.failure = "none"
    <3>1. StateSet(fresh, t, saved)
      BY <1>2, <2>1, setStateFields
    <3> QED BY <1>2, <3>1 DEF StateSet
  <2>4. SlotOK(t)
    <3>1. fresh.preparedPrime = NoBallot
      BY <1>2 DEF Pristine
    <3>2. StatementOK(saved)
      BY <1>1 DEF saved
    <3>3. Keeps(fresh, setStateFromEnvelope(fresh, saved))
      BY <1>2, <2>1, <3>1, <3>2, setStateFromEnvelopeKeeps
    <3> QED BY <2>1, <3>3 DEF Keeps
  <2>5. createStatement(t) = saved /\ Consistent(t)
    BY <2>1, <2>2, <2>3, <2>4, RestoredSynced
  <2>6. /\ Own(t) = saved
        /\ \A m \in Node \ {s.self} : t.latest[m] = NoStatement
    <3> DEFINE l == [m \in Node |-> NoStatement]
    <3>1. t.latest = [l EXCEPT ![s.self] = saved]
      BY <1>2, <2>3
    <3>2. /\ [l EXCEPT ![s.self] = saved][s.self] = saved
          /\ \A m \in Node \ {s.self} : [l EXCEPT ![s.self] = saved][m] = NoStatement
      BY SMT, <1>1
    <3> HIDE DEF l
    <3>3. Own(t) = saved
      BY <2>3, <3>1, <3>2 DEF Own
    <3>4. \A m \in Node \ {s.self} : t.latest[m] = NoStatement
      BY <3>1, <3>2
    <3> QED BY <3>3, <3>4
  <2>7. /\ Len(t.stack) = 0
        /\ \A i \in 1..Len(t.stack) : FALSE
        /\ \A i \in 1..(Len(t.stack) - 1) : FALSE
        /\ \A i \in 2..Len(t.stack) : FALSE
    BY ONLY <2>3
  <2>8. OwnHints(t) = {}
    BY <2>7 DEF OwnHints
  <2>9. Made(t) = s.emitted
    <3>1. Made(t) = (s.emitted \cup {saved, saved} \cup {}) \ {NoStatement}
      BY <2>3, <2>6, <2>8 DEF Made
    <3> QED BY <1>3, <2>2, <3>1
  <2>10. \A a \in s.emitted : a = saved \/ Follows(a, saved)
    BY <1>0 DEF SentOK, saved
  <2>11. ChainOK(t)
    BY <1>0, <1>3, <2>6, <2>9, <2>10 DEF ChainOK
  <2>12. SentOK(t)
    BY <2>2, <2>3, <2>10 DEF SentOK
  <2>13. SyncedOK(t) /\ StackOK(t)
    BY <2>3, <2>5, <2>6, <2>7 DEF SyncedOK, StackOK
  <2>14. HistoryOK(t)
    BY <2>4, <2>11, <2>12, <2>13 DEF HistoryOK
  <2> QED BY <1>5, <2>3, <2>6, <2>9, <2>14 DEF Restarts, saved
<1> QED BY <1>4, <1>5

=============================================================================
