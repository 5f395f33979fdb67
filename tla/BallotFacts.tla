---------------------------- MODULE BallotFacts -----------------------------
(***************************************************************************)
(* What the proofs about BallotProtocol share: the notions they are stated *)
(* in and first facts about them.                                          *)
(*                                                                         *)
(* SlotOK is the type of one node's record. Own(s) is the latest statement *)
(* a node made, Made(s) all that it made and may still have to record or   *)
(* send. HistoryOK says how these statements follow each other and how the *)
(* node's state relates to the last one. CoreStep lists the ways in which  *)
(* one method changes (phase, b, p, p', c, h), Moves, Receives and         *)
(* Restarts what an event does to a node.                                  *)
(***************************************************************************)
EXTENDS BallotProtocol, TLAPS

-----------------------------------------------------------------------------
(* The stack of advanceSlot calls.                                         *)

LEMMA StackLength ==
    ASSUME NEW q \in Seq(Frames)
    PROVE  /\ Len(q) \in Nat /\ (q = << >> <=> Len(q) = 0)
           /\ q # << >> => Len(q) \in Nat \ {0}
OBVIOUS

LEMMA StackElement ==
    ASSUME NEW q \in Seq(Frames), NEW i \in 1..Len(q)
    PROVE  q[i] \in Frames
OBVIOUS

LEMMA StackPush ==
    ASSUME NEW q \in Seq(Frames), NEW f \in Frames
    PROVE  /\ <<f>> \o q \in Seq(Frames) /\ Len(<<f>> \o q) = 1 + Len(q)
           /\ \A i \in 1..(1 + Len(q)) : (<<f>> \o q)[i] = IF i <= 1 THEN f ELSE q[i - 1]
<1>1. <<f>> \in Seq(Frames) /\ Len(<<f>>) = 1 /\ <<f>>[1] = f
  OBVIOUS
<1> QED BY <1>1

LEMMA StackPop ==
    ASSUME NEW q \in Seq(Frames), q # << >>
    PROVE  /\ Tail(q) \in Seq(Frames) /\ Len(Tail(q)) = Len(q) - 1
           /\ \A i \in 1..Len(Tail(q)) : Tail(q)[i] = q[i + 1]
OBVIOUS

LEMMA StackUpdate ==
    ASSUME NEW q \in Seq(Frames), NEW f \in Frames, 1 \in 1..Len(q)
    PROVE  /\ [q EXCEPT ![1] = f] \in Seq(Frames) /\ Len([q EXCEPT ![1] = f]) = Len(q)
           /\ \A j \in 1..Len(q) : [q EXCEPT ![1] = f][j] = IF j = 1 THEN f ELSE q[j]
OBVIOUS

-----------------------------------------------------------------------------
(* The type of a record, and the order of p and p' in it.                  *)

PrimeOK(pp, p) ==
    pp # NoBallot => p # NoBallot /\ areBallotsLessAndIncompatible(pp, p)

StatementOK(st) == st.type = "PREPARE" => PrimeOK(st.preparedPrime, st.prepared)

SlotOK(s) ==
    /\ s \in SlotStates
    /\ PrimeOK(s.preparedPrime, s.prepared)
    /\ StatementOK(s.lastEnvelope)
    /\ StatementOK(s.lastEnvelopeEmit)
    /\ \A i \in 1..Len(s.stack) : s.stack[i].own => StatementOK(s.stack[i].hint)

LEMMA BallotType ==
    ASSUME NEW c \in Counters, NEW v \in Value \cup {NoValue}
    PROVE  Ballot(c, v) \in Ballots
BY DEF Ballot, Ballots

LEMMA NoBallotType == NoBallot \in Ballots
BY CounterAssumption DEF NoBallot, Ballots, Counters

LEMMA createStatementType ==
    ASSUME NEW s, SlotOK(s)
    PROVE  createStatement(s) \in Statements /\ StatementOK(createStatement(s))
<1>1. CASE s.phase = "PREPARE"
  BY <1>1 DEF SlotOK, SlotStates, createStatement, Prepare, Statements, Ballots,
              StatementOK
<1>2. CASE s.phase = "CONFIRM"
  BY <1>2 DEF SlotOK, SlotStates, createStatement, Confirm, Statements, Ballots,
              StatementOK
<1>3. CASE s.phase = "EXTERNALIZE"
  BY <1>3 DEF SlotOK, SlotStates, createStatement, Externalize, Statements, Ballots,
              StatementOK
<1> QED BY <1>1, <1>2, <1>3 DEF SlotOK, SlotStates, Phases

-----------------------------------------------------------------------------
(* Ballots, statements, and how one follows another.                       *)

\* The order of ballots, on the fields the provers need.
LEMMA BallotFields ==
    ASSUME NEW b \in Ballots
    PROVE  b.counter \in Nat /\ b.value \in Nat
BY CounterAssumption, ValueAssumption DEF Ballots, Counters, Value, NoValue

\* The node's entry of mLatestEnvelopes, and the statements it has made.
Own(s) == s.latest[s.self]

OwnHints(s) == {s.stack[i].hint : i \in {j \in 1..Len(s.stack) : s.stack[j].own}}

Made(s) == (s.emitted \cup {Own(s), s.lastEnvelope} \cup OwnHints(s)) \ {NoStatement}

IsPrepare(st) == st.type = "PREPARE"

Values == Value \cup {NoValue}

\* To vote for or accept b is to vote against or abort the commit of (c, v).
Against(b, c, v) == b.value # v /\ Less(Ballot(c, v), b)

VotesCommit(st, c, v) ==
    IsPrepare(st) /\ st.ballot.value = v /\ st.nC # 0 /\ st.nC <= c /\ c <= st.nH

Aborts(st, c, v) ==
    \E p \in {st.prepared, st.preparedPrime} \ {NoBallot} : Against(p, c, v)

Continues(a, z) ==
    /\ \A c \in Counters, v \in Values : VotesCommit(a, c, v) => VotesCommit(z, c, v) \/ Aborts(z, c, v)
    /\ \A c \in Counters, v \in Values : Aborts(a, c, v) => Aborts(z, c, v)
    /\ z.nC # 0 =>
          \/ LessEq(a.ballot, Ballot(z.nC, z.ballot.value))
          \/ a.ballot.value = z.ballot.value /\ a.nC = z.nC

Follows(a, z) ==
    /\ isNewerStatement(a, z)
    /\ IsPrepare(a) /\ IsPrepare(z) => Continues(a, z)
    /\ ~IsPrepare(a) => CommitValue(a) = CommitValue(z)

LEMMA BallotEqual ==
    ASSUME NEW a \in Ballots, NEW b \in Ballots
    PROVE  a = b <=> a.counter = b.counter /\ a.value = b.value
BY SMT DEF Ballots

LEMMA LessTransitive ==
    ASSUME NEW a \in Ballots, NEW b \in Ballots, NEW c \in Ballots
    PROVE  /\ LessEq(a, b) /\ LessEq(b, c) => LessEq(a, c)
           /\ LessEq(a, b) /\ Less(b, c) => Less(a, c)
           /\ Less(a, b) /\ LessEq(b, c) => Less(a, c)
           /\ Less(a, b) => ~LessEq(b, a)
           /\ Less(a, b) \/ LessEq(b, a)
<1>1. /\ a.counter \in Nat /\ a.value \in Nat /\ b.counter \in Nat /\ b.value \in Nat
      /\ c.counter \in Nat /\ c.value \in Nat
  BY BallotFields
<1>2. /\ a = b <=> a.counter = b.counter /\ a.value = b.value
      /\ b = c <=> b.counter = c.counter /\ b.value = c.value
      /\ a = c <=> a.counter = c.counter /\ a.value = c.value
  BY BallotEqual
<1> QED BY SMT, <1>1, <1>2 DEF Less, LessEq

LEMMA RankFields ==
    ASSUME NEW st \in Statements
    PROVE  /\ st.type \in {"PREPARE", "CONFIRM", "EXTERNALIZE"}
           /\ st # NoStatement
           /\ Rank(st) = IF IsPrepare(st) THEN 1 ELSE IF st.type = "CONFIRM" THEN 2 ELSE 3
           /\ Rank(NoStatement) = 0
BY SMT DEF Statements, NoStatement, Rank, IsPrepare

\* The fields of a statement, by type.
LEMMA StatementFields ==
    ASSUME NEW st \in Statements
    PROVE  /\ st.nH \in Counters
           /\ IsPrepare(st) => /\ st.ballot \in Ballots /\ st.prepared \in Ballots
                               /\ st.preparedPrime \in Ballots /\ st.nC \in Counters
           /\ st.type = "CONFIRM" => /\ st.ballot \in Ballots /\ st.nPrepared \in Counters
                                     /\ st.nCommit \in Counters
           /\ st.type = "EXTERNALIZE" => st.commit \in Ballots
BY SMT DEF Statements, IsPrepare

LEMMA CountersAreNat == \A c \in Counters : c \in Nat
BY CounterAssumption DEF Counters

LEMMA NewerTransitive ==
    ASSUME NEW a \in Statements, NEW b \in Statements, NEW c \in Statements,
           isNewerStatement(a, b), isNewerStatement(b, c)
    PROVE  isNewerStatement(a, c)
<1> USE RankFields, StatementFields
<1>1. CASE Rank(a) < Rank(b) \/ Rank(b) < Rank(c)
  BY SMT, <1>1 DEF isNewerStatement, IsPrepare
<1>2. CASE ~(Rank(a) < Rank(b) \/ Rank(b) < Rank(c))
  <2>1. CASE IsPrepare(a)
    <3>1. IsPrepare(b) /\ IsPrepare(c)
      BY SMT, <1>2, <2>1 DEF isNewerStatement, IsPrepare
    <3>2. /\ \/ Less(a.ballot, b.ballot)
             \/ /\ a.ballot = b.ballot
                /\ \/ Less(a.prepared, b.prepared)
                   \/ /\ a.prepared = b.prepared
                      /\ \/ Less(a.preparedPrime, b.preparedPrime)
                         \/ a.preparedPrime = b.preparedPrime /\ a.nH < b.nH
          /\ \/ Less(b.ballot, c.ballot)
             \/ /\ b.ballot = c.ballot
                /\ \/ Less(b.prepared, c.prepared)
                   \/ /\ b.prepared = c.prepared
                      /\ \/ Less(b.preparedPrime, c.preparedPrime)
                         \/ b.preparedPrime = c.preparedPrime /\ b.nH < c.nH
      BY Zenon, <1>2, <2>1, <3>1 DEF isNewerStatement, IsPrepare
    <3>3. /\ Less(a.ballot, b.ballot) /\ Less(b.ballot, c.ballot) => Less(a.ballot, c.ballot)
          /\ Less(a.prepared, b.prepared) /\ Less(b.prepared, c.prepared) =>
                Less(a.prepared, c.prepared)
          /\ Less(a.preparedPrime, b.preparedPrime) /\ Less(b.preparedPrime, c.preparedPrime)
                => Less(a.preparedPrime, c.preparedPrime)
      BY Zenon, <2>1, <3>1, LessTransitive DEF LessEq
    <3>4. a.nH < b.nH /\ b.nH < c.nH => a.nH < c.nH
      BY SMT, CountersAreNat
    <3>5. \/ Less(a.ballot, c.ballot)
          \/ /\ a.ballot = c.ballot
             /\ \/ Less(a.prepared, c.prepared)
                \/ /\ a.prepared = c.prepared
                   /\ \/ Less(a.preparedPrime, c.preparedPrime)
                      \/ a.preparedPrime = c.preparedPrime /\ a.nH < c.nH
      BY SMTT(30), <3>2, <3>3, <3>4
    <3> QED BY Zenon, <2>1, <3>1, <3>5 DEF isNewerStatement, IsPrepare
  <2>2. CASE a.type = "CONFIRM"
    <3>1. b.type = "CONFIRM" /\ c.type = "CONFIRM"
      BY SMT, <1>2, <2>2 DEF isNewerStatement, IsPrepare
    <3>2. /\ \/ Less(a.ballot, b.ballot)
             \/ /\ a.ballot = b.ballot
                /\ \/ a.nPrepared < b.nPrepared
                   \/ a.nPrepared = b.nPrepared /\ a.nH < b.nH
          /\ \/ Less(b.ballot, c.ballot)
             \/ /\ b.ballot = c.ballot
                /\ \/ b.nPrepared < c.nPrepared
                   \/ b.nPrepared = c.nPrepared /\ b.nH < c.nH
      BY Zenon, <1>2, <2>2, <3>1 DEF isNewerStatement, IsPrepare
    <3>3. Less(a.ballot, b.ballot) /\ Less(b.ballot, c.ballot) => Less(a.ballot, c.ballot)
      BY ZenonT(40), <2>2, <3>1, LessTransitive DEF LessEq
    <3>4. /\ a.nH < b.nH /\ b.nH < c.nH => a.nH < c.nH
          /\ a.nPrepared < b.nPrepared /\ b.nPrepared < c.nPrepared => a.nPrepared < c.nPrepared
      BY SMT, CountersAreNat, <2>2, <3>1
    <3>5. \/ Less(a.ballot, c.ballot)
          \/ /\ a.ballot = c.ballot
             /\ \/ a.nPrepared < c.nPrepared
                \/ a.nPrepared = c.nPrepared /\ a.nH < c.nH
      BY SMTT(30), <3>2, <3>3, <3>4
    <3> QED BY Zenon, <2>2, <3>1, <3>5 DEF isNewerStatement, IsPrepare
  <2>3. CASE a.type = "EXTERNALIZE"
    BY SMT, <1>2, <2>3 DEF isNewerStatement, IsPrepare
  <2> QED BY <2>1, <2>2, <2>3 DEF IsPrepare
<1> QED BY <1>1, <1>2

LEMMA NewerAsymmetric ==
    ASSUME NEW a \in Statements
    PROVE  ~isNewerStatement(a, a)
<1> USE RankFields, StatementFields
<1>1. ~(Rank(a) < Rank(a))
  BY SMT
<1>2. \A b \in Ballots : ~Less(b, b)
  BY LessTransitive DEF LessEq
<1>3. ~(a.nH < a.nH) /\ (a.type = "CONFIRM" => ~(a.nPrepared < a.nPrepared))
  BY SMT, CountersAreNat
<1> QED BY Zenon, <1>1, <1>2, <1>3 DEF isNewerStatement, IsPrepare

\* The ballot of PREPARE statements only grows.
LEMMA NewerBallot ==
    ASSUME NEW a \in Statements, NEW z \in Statements, IsPrepare(a), IsPrepare(z),
           isNewerStatement(a, z)
    PROVE  LessEq(a.ballot, z.ballot)
<1>1. Rank(a) = 1 /\ Rank(z) = 1
  BY RankFields
<1> QED BY SMT, <1>1 DEF isNewerStatement, IsPrepare, LessEq

-----------------------------------------------------------------------------
(* What holds of the statements a node has made.                           *)

\* A statement votes for or accepts commits from c up to h, h not above b.
Sound(st) ==
    /\ IsPrepare(st) /\ st.nC # 0 => st.nC <= st.nH /\ st.nH <= st.ballot.counter
    /\ st.type = "CONFIRM" => /\ st.nCommit <= st.nH /\ st.nH <= st.ballot.counter
                              /\ Ballot(st.nCommit, st.ballot.value) # NoBallot
    /\ st.type = "EXTERNALIZE" => st.commit # NoBallot /\ st.commit.counter <= st.nH

Consistent(s) ==
    /\ s.commit # NoBallot =>
          /\ areBallotsLessAndCompatible(s.commit, s.highBallot)
          /\ areBallotsLessAndCompatible(s.highBallot, s.currentBallot)
    /\ s.phase # "PREPARE" => s.commit # NoBallot

Pristine(s) ==
    /\ s.phase = "PREPARE" /\ s.currentBallot = NoBallot /\ s.prepared = NoBallot
    /\ s.preparedPrime = NoBallot /\ s.commit = NoBallot /\ s.highBallot = NoBallot

Sendable(st) == st # NoStatement /\ (IsPrepare(st) => st.ballot # NoBallot)

\* The node's latest statement says what its state is.
SyncedOK(s) ==
    \/ Own(s) = createStatement(s) /\ Consistent(s)
    \/ Own(s) = NoStatement /\ Pristine(s)

\* The statements made are totally ordered, the latest being the last.
ChainOK(s) ==
    /\ \A a \in Made(s) : Sound(a) /\ (a = Own(s) \/ Follows(a, Own(s)))
    /\ \A a, z \in Made(s) : a = z \/ Follows(a, z) \/ Follows(z, a)

SentOK(s) ==
    /\ \A a \in s.emitted : a = s.lastEnvelopeEmit \/ Follows(a, s.lastEnvelopeEmit)
    /\ s.lastEnvelopeEmit \in s.emitted \cup {NoStatement}
    /\ \/ s.lastEnvelopeEmit \in {s.lastEnvelope, NoStatement}
       \/ Follows(s.lastEnvelopeEmit, s.lastEnvelope)
    /\ s.lastEnvelope # NoStatement => Sendable(s.lastEnvelope)
    /\ s.lastEnvelopeEmit # NoStatement => Sendable(s.lastEnvelopeEmit)

\* Which statements are still to be recorded and to be sent: the latest one
\* is recorded, or the innermost call will do it when it returns; and what
\* is recorded is sent, or is the latest statement, when the outermost call
\* returns.
StackOK(s) ==
    /\ \A i \in 1..(Len(s.stack) - 1) : s.stack[i].own
    /\ \A i \in 2..Len(s.stack) : s.stack[i].didWork
    /\ \/ s.lastEnvelope = Own(s) \/ ~Sendable(Own(s))
       \/ s.stack # << >> /\ s.stack[1].own /\ s.stack[1].hint = Own(s)
    /\ s.fullyValidated /\ Len(s.stack) <= 1 =>
          s.lastEnvelope \in {s.lastEnvelopeEmit, Own(s)}
    /\ s.fullyValidated /\ (Len(s.stack) = 0 \/ (Len(s.stack) = 1 /\ ~s.stack[1].didWork)) =>
          s.lastEnvelope = s.lastEnvelopeEmit

HistoryOK(s) ==
    /\ SlotOK(s) /\ ChainOK(s) /\ SentOK(s)
    /\ s.failure = "none" => SyncedOK(s) /\ StackOK(s)

SameCore(s, u) ==
    /\ u.phase = s.phase /\ u.currentBallot = s.currentBallot
    /\ u.prepared = s.prepared /\ u.preparedPrime = s.preparedPrime
    /\ u.commit = s.commit /\ u.highBallot = s.highBallot

LEMMA MadeTypes ==
    ASSUME NEW s, SlotOK(s)
    PROVE  /\ Made(s) \subseteq Statements
           /\ Own(s) \in Statements \cup {NoStatement}
           /\ s.lastEnvelope \in Statements \cup {NoStatement}
           /\ s.lastEnvelopeEmit \in Statements \cup {NoStatement}
           /\ s.emitted \subseteq Made(s)
           /\ Own(s) # NoStatement => Own(s) \in Made(s)
           /\ s.lastEnvelope # NoStatement => s.lastEnvelope \in Made(s)
           /\ \A i \in 1..Len(s.stack) : s.stack[i].own => s.stack[i].hint \in Made(s)
<1>1. s.self \in Node /\ s.latest \in [Node -> Statements \cup {NoStatement}]
  BY Zenon DEF SlotOK, SlotStates
<1>2. Own(s) \in Statements \cup {NoStatement}
  BY <1>1 DEF Own
<1>3. /\ s.emitted \subseteq Statements
      /\ s.lastEnvelope \in Statements \cup {NoStatement}
      /\ s.lastEnvelopeEmit \in Statements \cup {NoStatement}
  BY Zenon DEF SlotOK, SlotStates
<1>4. s.stack \in Seq(Frames)
  BY Zenon DEF SlotOK, SlotStates
<1>5. \A i \in 1..Len(s.stack) : s.stack[i].hint \in Statements
  <2>1. \A i \in 1..Len(s.stack) : s.stack[i] \in Frames
    BY <1>4, StackElement
  <2> QED BY Zenon, <2>1 DEF Frames
<1>6. NoStatement \notin Statements
  BY RankFields
<1>7. OwnHints(s) \subseteq Statements
  BY Zenon, <1>5 DEF OwnHints
<1>8. \A i \in 1..Len(s.stack) : s.stack[i].own => s.stack[i].hint \in Made(s)
  BY Zenon, <1>5, <1>6 DEF Made, OwnHints
<1> QED BY Zenon, <1>2, <1>3, <1>6, <1>7, <1>8 DEF Made

-----------------------------------------------------------------------------
(* The latest of the statements made.                                      *)

LEMMA NothingMadeYet ==
    ASSUME NEW s, SlotOK(s), ChainOK(s), Own(s) = NoStatement
    PROVE  Made(s) = {}
<1>1. ASSUME NEW a \in Made(s) PROVE FALSE
  <2>1. a \in Statements
    BY MadeTypes
  <2>2. Rank(NoStatement) = 0 /\ Rank(a) \in {1, 2, 3} /\ a # NoStatement
    BY SMT, <2>1, RankFields
  <2>3. isNewerStatement(a, NoStatement)
    BY Zenon, <2>2 DEF ChainOK, Follows
  <2> QED BY SMT, <2>2, <2>3 DEF isNewerStatement, NoStatement
<1> QED BY <1>1

\* Nothing newer than the latest statement was made.
LEMMA OwnIsNewest ==
    ASSUME NEW s, SlotOK(s), ChainOK(s), NEW a \in Made(s)
    PROVE  /\ Own(s) \in Statements
           /\ isNewerStatement(a, Own(s)) \/ a = Own(s)
           /\ ~isNewerStatement(Own(s), a)
           /\ ~Sendable(Own(s)) => ~Sendable(a)
<1>1. a \in Statements /\ Own(s) # NoStatement
  BY Zenon, MadeTypes, NothingMadeYet
<1>2. Own(s) \in Statements
  BY Zenon, <1>1, MadeTypes
<1>3. isNewerStatement(a, Own(s)) \/ a = Own(s)
  BY Zenon DEF ChainOK, Follows
<1>4. ~isNewerStatement(Own(s), a)
  BY Zenon, <1>1, <1>2, <1>3, NewerTransitive, NewerAsymmetric
<1>5. ASSUME ~Sendable(Own(s)), Sendable(a) PROVE FALSE
  <2> DEFINE z == Own(s)
  <2>1. IsPrepare(z) /\ z.ballot = NoBallot
    BY Zenon, <1>1, <1>5 DEF Sendable
  <2>2. isNewerStatement(a, z)
    BY Zenon, <1>3, <1>5
  <2>3. IsPrepare(a)
    <3>1. z \in Statements
      BY Zenon, <1>2
    <3> HIDE DEF z
    <3> QED BY SMT, <1>1, <2>1, <2>2, <3>1, RankFields DEF isNewerStatement, IsPrepare
  <2>4. LessEq(a.ballot, NoBallot)
    BY Zenon, <1>1, <1>2, <2>1, <2>2, <2>3, NewerBallot
  <2>5. a.ballot \in Ballots
    BY Zenon, <1>1, <2>3, StatementFields
  <2>6. ~Less(a.ballot, NoBallot)
    BY SMT, <2>5, BallotFields DEF Less, NoBallot, NoValue
  <2> QED BY Zenon, <1>5, <2>3, <2>4, <2>6 DEF Sendable, LessEq
<1> QED BY Zenon, <1>2, <1>3, <1>4, <1>5

-----------------------------------------------------------------------------
(* What a step does to the statements.                                     *)

SameSent(s, t) ==
    /\ t.self = s.self /\ t.lastEnvelope = s.lastEnvelope
    /\ t.lastEnvelopeEmit = s.lastEnvelopeEmit /\ t.emitted = s.emitted

\* What a step of a node does to the statements it has made.
Advances(s, t) ==
    /\ t.self = s.self
    /\ \A m \in Node \ {s.self} : t.latest[m] = s.latest[m]
    /\ t.fullyValidated => s.fullyValidated
    /\ \/ Own(t) = Own(s)
       \/ /\ Own(t) = createStatement(t) /\ Consistent(t)
          /\ Own(s) # NoStatement => Follows(Own(s), Own(t))
    /\ Made(t) \subseteq Made(s) \cup {Own(t)}

SendsNothing(s, t) ==
    t.emitted = s.emitted /\ t.lastEnvelopeEmit = s.lastEnvelopeEmit

-----------------------------------------------------------------------------
(* The changes of (phase, b, p, p', c, h) between two statements.          *)

AcceptsPrepared(s, b) ==
    federatedAccept(s, Pledged(s, LAMBDA st : votesPrepared(b, st)),
                       Pledged(s, LAMBDA st : hasPreparedBallot(b, st)))

ConfirmsPrepared(s, b) ==
    federatedRatify(s, Pledged(s, LAMBDA st : hasPreparedBallot(b, st)))

AcceptsCommit(s, v, i, j) ==
    federatedAccept(s, Pledged(s, LAMBDA st : votesCommit(v, i, j, st)),
                       Pledged(s, LAMBDA st : commitPredicate(v, i, j, st)))

ConfirmsCommit(s, v, i, j) ==
    federatedRatify(s, Pledged(s, LAMBDA st : commitPredicate(v, i, j, st)))

\* p or p' aborts the commit of (c, v).
StateAborts(s, c, v) ==
    \E p \in {s.prepared, s.preparedPrime} \ {NoBallot} : Against(p, c, v)

\* b grows.
BumpStep(s, u) ==
    /\ s.phase # "EXTERNALIZE" /\ u.phase = s.phase
    /\ u.prepared = s.prepared /\ u.preparedPrime = s.preparedPrime
    /\ u.commit = s.commit /\ u.highBallot = s.highBallot

\* A ballot is accepted as prepared; c is given up when that aborts it.
AcceptPreparedStep(s, u) ==
    \E b \in Ballots :
        /\ s.phase # "EXTERNALIZE" /\ u.phase = s.phase
        /\ u.currentBallot = s.currentBallot /\ u.highBallot = s.highBallot
        /\ AcceptsPrepared(s, b)
        /\ {u.prepared, u.preparedPrime} \subseteq {s.prepared, s.preparedPrime, b}
        /\ \A c \in Counters, v \in Values : StateAborts(s, c, v) => StateAborts(u, c, v)
        /\ s.phase = "CONFIRM" => areBallotsLessAndCompatible(s.prepared, u.prepared)
        /\ \/ u.commit = s.commit
           \/ /\ s.phase = "PREPARE" /\ u.commit = NoBallot
              /\ \E p \in {u.prepared, u.preparedPrime} \ {NoBallot} :
                    areBallotsLessAndIncompatible(s.highBallot, p)

\* A ballot is confirmed as prepared, and may start a vote to commit.
ConfirmPreparedStep(s, u) ==
    \E h \in Ballots :
        /\ s.phase = "PREPARE" /\ u.phase = "PREPARE"
        /\ ConfirmsPrepared(s, h) /\ Less(s.highBallot, h) /\ u.highBallot = h
        /\ u.prepared = s.prepared /\ u.preparedPrime = s.preparedPrime
        /\ \/ u.commit = s.commit
           \/ s.commit = NoBallot /\ LessEq(s.currentBallot, u.commit)

\* The commit of a range of ballots is accepted.
AcceptCommitStep(s, u) ==
    \E v \in Values, i, j \in Counters :
        /\ s.phase # "EXTERNALIZE" /\ u.phase = "CONFIRM"
        /\ i # 0 /\ i <= j /\ AcceptsCommit(s, v, i, j)
        /\ u.commit = Ballot(i, v) /\ u.highBallot = Ballot(j, v)
        /\ u.prepared = s.prepared /\ u.preparedPrime \in {s.preparedPrime, NoBallot}
        /\ s.phase = "CONFIRM" => v = s.highBallot.value /\ s.highBallot.counter < j

\* The commit of a range of ballots is confirmed.
ConfirmCommitStep(s, u) ==
    \E v \in Values, i, j \in Counters :
        /\ s.phase = "CONFIRM" /\ u.phase = "EXTERNALIZE"
        /\ i # 0 /\ i <= j /\ ConfirmsCommit(s, v, i, j) /\ v = s.commit.value
        /\ u.commit = Ballot(i, v) /\ u.highBallot = Ballot(j, v)
        /\ u.prepared = s.prepared /\ u.preparedPrime = s.preparedPrime

CoreStep(s, u) ==
    \/ SameCore(s, u) \/ BumpStep(s, u)
    \/ AcceptPreparedStep(s, u) \/ ConfirmPreparedStep(s, u)
    \/ AcceptCommitStep(s, u) \/ ConfirmCommitStep(s, u)

LEMMA CreatedFields ==
    ASSUME NEW s, SlotOK(s), NEW st, st = createStatement(s)
    PROVE  /\ st \in Statements
           /\ s.phase = "PREPARE" =>
                 /\ IsPrepare(st) /\ st.ballot = s.currentBallot /\ st.prepared = s.prepared
                 /\ st.preparedPrime = s.preparedPrime
                 /\ st.nC = s.commit.counter /\ st.nH = s.highBallot.counter
           /\ s.phase = "CONFIRM" =>
                 /\ st.type = "CONFIRM" /\ ~IsPrepare(st) /\ st.ballot = s.currentBallot
                 /\ st.nPrepared = s.prepared.counter
                 /\ st.nCommit = s.commit.counter /\ st.nH = s.highBallot.counter
           /\ s.phase = "EXTERNALIZE" =>
                 /\ st.type = "EXTERNALIZE" /\ ~IsPrepare(st)
                 /\ st.commit = s.commit /\ st.nH = s.highBallot.counter
<1>1. st \in Statements
  BY createStatementType
<1> DEFINE cc == s.commit.counter
           hc == s.highBallot.counter
           pc == s.prepared.counter
<1>2. CASE s.phase = "PREPARE"
  <2>1. st = Prepare(s.currentBallot, s.prepared, s.preparedPrime, cc, hc)
    BY Zenon, <1>2 DEF createStatement
  <2> HIDE DEF cc, hc
  <2>2. /\ IsPrepare(st) /\ st.ballot = s.currentBallot /\ st.prepared = s.prepared
        /\ st.preparedPrime = s.preparedPrime /\ st.nC = cc /\ st.nH = hc
    BY SMT, <2>1 DEF Prepare, IsPrepare
  <2> QED BY SMT, <1>1, <1>2, <2>2 DEF cc, hc
<1>3. CASE s.phase = "CONFIRM"
  <2>1. st = Confirm(s.currentBallot, pc, cc, hc)
    BY Zenon, <1>3 DEF createStatement
  <2> HIDE DEF cc, hc, pc
  <2>2. /\ st.type = "CONFIRM" /\ st.ballot = s.currentBallot
        /\ st.nPrepared = pc /\ st.nCommit = cc /\ st.nH = hc
    BY SMT, <2>1 DEF Confirm
  <2> QED BY SMT, <1>1, <1>3, <2>2 DEF cc, hc, pc, IsPrepare
<1>4. CASE s.phase = "EXTERNALIZE"
  <2>1. st = Externalize(s.commit, hc)
    BY Zenon, <1>4 DEF createStatement
  <2> HIDE DEF hc
  <2>2. st.type = "EXTERNALIZE" /\ st.commit = s.commit /\ st.nH = hc
    BY SMT, <2>1 DEF Externalize
  <2> QED BY SMT, <1>1, <1>4, <2>2 DEF hc, IsPrepare
<1>5. s.phase \in {"PREPARE", "CONFIRM", "EXTERNALIZE"}
  BY Zenon DEF SlotOK, SlotStates, Phases
<1> QED BY Zenon, <1>2, <1>3, <1>4, <1>5

\* The fields of a consistent state.
LEMMA ConsistentFields ==
    ASSUME NEW s, SlotOK(s), Consistent(s)
    PROVE  /\ s.currentBallot \in Ballots /\ s.prepared \in Ballots
           /\ s.preparedPrime \in Ballots /\ s.commit \in Ballots /\ s.highBallot \in Ballots
           /\ s.commit # NoBallot =>
                 /\ s.commit.value = s.highBallot.value
                 /\ s.highBallot.value = s.currentBallot.value
                 /\ s.commit.counter <= s.highBallot.counter
                 /\ s.highBallot.counter <= s.currentBallot.counter
           /\ s.phase # "PREPARE" => s.commit # NoBallot
           /\ s.commit.counter # 0 => s.commit # NoBallot
<1> DEFINE b == s.currentBallot
           c == s.commit
           h == s.highBallot
<1>1. b \in Ballots /\ c \in Ballots /\ h \in Ballots
      /\ s.prepared \in Ballots /\ s.preparedPrime \in Ballots
  BY Zenon DEF SlotOK, SlotStates
<1>2. c # NoBallot => areBallotsLessAndCompatible(c, h) /\ areBallotsLessAndCompatible(h, b)
  BY Zenon DEF Consistent
<1>3. b.counter \in Nat /\ c.counter \in Nat /\ h.counter \in Nat
  BY <1>1, BallotFields
<1>4. NoBallot.counter = 0
  BY DEF NoBallot
<1> HIDE DEF b, c, h
<1>5. /\ c # NoBallot => /\ c.value = h.value /\ h.value = b.value
                         /\ c.counter <= h.counter /\ h.counter <= b.counter
      /\ c.counter # 0 => c # NoBallot
  BY SMT, <1>2, <1>3, <1>4
     DEF areBallotsLessAndCompatible, areBallotsCompatible, LessEq, Less
<1> QED BY Zenon, <1>1, <1>5 DEF b, c, h, Consistent

LEMMA AgainstHigher ==
    ASSUME NEW p \in Ballots, NEW q \in Ballots, NEW c \in Counters, NEW v \in Values,
           Against(p, c, v), LessEq(p, q), q.value # v
    PROVE  Against(q, c, v) /\ q # NoBallot
<1>1. p.counter \in Nat /\ p.value \in Nat /\ q.counter \in Nat /\ q.value \in Nat /\ c \in Nat
  BY BallotFields, CountersAreNat
<1>2. v \in Nat
  BY ValueAssumption DEF Values, Value, NoValue
<1>3. q = NoBallot => q.counter = 0 /\ q.value = 0
  BY DEF NoBallot, NoValue
<1> QED BY SMT, <1>1, <1>2, <1>3 DEF Against, Less, Ballot, LessEq

LEMMA CommitValueOfState ==
    ASSUME NEW s, SlotOK(s), Consistent(s), s.phase # "PREPARE", NEW st, st = createStatement(s)
    PROVE  ~IsPrepare(st) /\ CommitValue(st) = s.commit.value
<1>1. s.commit.value = s.currentBallot.value
  BY ConsistentFields
<1>2. s.phase \in {"CONFIRM", "EXTERNALIZE"}
  BY Zenon DEF SlotOK, SlotStates, Phases
<1>3. CASE s.phase = "CONFIRM"
  <2>1. st.type = "CONFIRM" /\ st.ballot = s.currentBallot
    BY <1>3, CreatedFields
  <2> QED BY SMT, <1>1, <2>1 DEF CommitValue, IsPrepare
<1>4. CASE s.phase = "EXTERNALIZE"
  <2>1. st.type = "EXTERNALIZE" /\ st.commit = s.commit
    BY <1>4, CreatedFields
  <2> QED BY SMT, <2>1 DEF CommitValue, IsPrepare
<1> QED BY Zenon, <1>2, <1>3, <1>4

LEMMA SameSynced ==
    ASSUME NEW s, NEW t, SyncedOK(s), SameCore(s, t), Own(t) = Own(s)
    PROVE  SyncedOK(t)
BY Zenon DEF SyncedOK, SameCore, createStatement, Consistent, Pristine

\* The latest statement is sent, or nothing.
SendsLatest(s, t) ==
    /\ t.lastEnvelope = Own(s) /\ t.lastEnvelopeEmit = Own(s) /\ Sendable(Own(s))
    /\ t.emitted = s.emitted \cup {Own(s)}

\* What one step of a running slot does.
Step(s, t) ==
    \/ SendsNothing(s, t) /\ CoreStep(s, t)
    \/ SameCore(s, t) /\ Own(t) = Own(s) /\ SendsLatest(s, t)

-----------------------------------------------------------------------------
(* The events.                                                             *)

\* A node records statement st of node m.
Receives(s, t, m, st) ==
    /\ SameCore(s, t) /\ SameSent(s, t) /\ t.latest = [s.latest EXCEPT ![m] = st]
    /\ t.fullyValidated => s.fullyValidated
    /\ Own(t) = Own(s) /\ Made(t) = Made(s)

\* The state that a saved statement stands for.
Restored(t, st) ==
    /\ IsPrepare(st) =>
          /\ t.phase = "PREPARE" /\ t.currentBallot = st.ballot
          /\ t.prepared = st.prepared /\ t.preparedPrime = st.preparedPrime
          /\ t.highBallot = IF st.nH # 0 THEN Ballot(st.nH, st.ballot.value) ELSE NoBallot
          /\ t.commit = IF st.nC # 0 THEN Ballot(st.nC, st.ballot.value) ELSE NoBallot
    /\ st.type = "CONFIRM" =>
          /\ t.phase = "CONFIRM" /\ t.currentBallot = st.ballot
          /\ t.prepared = Ballot(st.nPrepared, st.ballot.value) /\ t.preparedPrime = NoBallot
          /\ t.highBallot = Ballot(st.nH, st.ballot.value)
          /\ t.commit = Ballot(st.nCommit, st.ballot.value)
    /\ st.type = "EXTERNALIZE" =>
          /\ t.phase = "EXTERNALIZE"
          /\ t.currentBallot = Ballot(UINT32_MAX, st.commit.value)
          /\ t.prepared = Ballot(UINT32_MAX, st.commit.value) /\ t.preparedPrime = NoBallot
          /\ t.highBallot = Ballot(st.nH, st.commit.value) /\ t.commit = st.commit

\* A process that starts again has the statements it had sent, and the state
\* of the last of them.
Restarts(s, t) ==
    /\ t.self = s.self /\ t.emitted = s.emitted /\ t.lastEnvelopeEmit = s.lastEnvelopeEmit
    /\ Own(t) = s.lastEnvelopeEmit /\ Made(t) = s.emitted
    /\ \A m \in Node \ {s.self} : t.latest[m] = NoStatement
    /\ s.lastEnvelopeEmit = NoStatement => Pristine(t)
    /\ s.lastEnvelopeEmit # NoStatement => Restored(t, s.lastEnvelopeEmit)

\* A node goes on with its own state.
Moves(s, t) == Advances(s, t) /\ Step(s, t)

-----------------------------------------------------------------------------
(* Statements that follow each other.                                      *)

USE Zenon

LEMMA ContinuesTransitive ==
    ASSUME NEW a \in Statements, NEW y \in Statements, NEW z \in Statements,
           IsPrepare(a), IsPrepare(y), IsPrepare(z), LessEq(a.ballot, y.ballot),
           Continues(a, y), Continues(y, z)
    PROVE  Continues(a, z)
<1>1. /\ a.ballot \in Ballots /\ y.ballot \in Ballots /\ z.ballot \in Ballots
      /\ z.nC \in Counters
  BY StatementFields
<1>2. \A c \in Counters, v \in Values :
          VotesCommit(a, c, v) => VotesCommit(z, c, v) \/ Aborts(z, c, v)
  BY DEF Continues
<1>3. \A c \in Counters, v \in Values : Aborts(a, c, v) => Aborts(z, c, v)
  BY DEF Continues
<1>4. ASSUME z.nC # 0
      PROVE  \/ LessEq(a.ballot, Ballot(z.nC, z.ballot.value))
             \/ a.ballot.value = z.ballot.value /\ a.nC = z.nC
  <2>1. Ballot(z.nC, z.ballot.value) \in Ballots
    BY <1>1, BallotType DEF Ballots
  <2>2. CASE LessEq(y.ballot, Ballot(z.nC, z.ballot.value))
    BY <1>1, <2>1, <2>2, LessTransitive
  <2>3. CASE y.ballot.value = z.ballot.value /\ y.nC = z.nC
    BY <1>4, <2>3 DEF Continues
  <2> QED BY <1>4, <2>2, <2>3 DEF Continues
<1> QED BY <1>2, <1>3, <1>4 DEF Continues

LEMMA FollowsTransitive ==
    ASSUME NEW a \in Statements, NEW y \in Statements, NEW z \in Statements,
           Follows(a, y), Follows(y, z)
    PROVE  Follows(a, z)
<1>1. isNewerStatement(a, z)
  BY NewerTransitive DEF Follows
<1>2. isNewerStatement(a, y) /\ isNewerStatement(y, z)
  BY DEF Follows
<1>3. /\ IsPrepare(z) => IsPrepare(y)
      /\ IsPrepare(y) => IsPrepare(a)
  BY SMT, <1>2, RankFields DEF isNewerStatement, IsPrepare
<1>4. IsPrepare(a) /\ IsPrepare(z) => Continues(a, z)
  BY <1>2, <1>3, NewerBallot, ContinuesTransitive DEF Follows
<1>5. ~IsPrepare(a) => CommitValue(a) = CommitValue(z)
  BY <1>3 DEF Follows
<1> QED BY <1>1, <1>4, <1>5 DEF Follows

-----------------------------------------------------------------------------
(* A step makes a statement that follows the last.                         *)

\* A step from PREPARE to PREPARE that keeps c, gives it up, or sets it.
LEMMA SameCommitContinues ==
    ASSUME NEW a \in Statements, NEW z \in Statements, IsPrepare(a), IsPrepare(z),
           a.nC = z.nC, a.nH <= z.nH, a.nC # 0 => a.ballot.value = z.ballot.value,
           \A c \in Counters, v \in Values : Aborts(a, c, v) => Aborts(z, c, v)
    PROVE  Continues(a, z)
<1>1. a.nC \in Nat /\ a.nH \in Nat /\ z.nH \in Nat
  BY StatementFields, CountersAreNat
<1>2. \A c \in Counters, v \in Values : VotesCommit(a, c, v) => VotesCommit(z, c, v)
  BY SMT, <1>1, CountersAreNat DEF VotesCommit
<1> QED BY <1>2 DEF Continues

LEMMA ClearedContinues ==
    ASSUME NEW a \in Statements, NEW z \in Statements, IsPrepare(a), IsPrepare(z),
           z.nC = 0, NEW h \in Ballots, a.nH = h.counter,
           a.nC # 0 => h.value = a.ballot.value,
           NEW p \in {z.prepared, z.preparedPrime} \ {NoBallot},
           areBallotsLessAndIncompatible(h, p),
           \A c \in Counters, v \in Values : Aborts(a, c, v) => Aborts(z, c, v)
    PROVE  Continues(a, z)
<1>1. p \in Ballots
  BY StatementFields
<1>2. /\ p.counter \in Nat /\ p.value \in Nat /\ h.counter \in Nat /\ h.value \in Nat
  BY <1>1, BallotFields
<1>3. ASSUME NEW c \in Counters, NEW v \in Values, VotesCommit(a, c, v)
      PROVE  Aborts(z, c, v)
  <2>1. c <= h.counter /\ h.value = v
    BY <1>3 DEF VotesCommit
  <2>2. c \in Nat
    BY CountersAreNat
  <2>3. Against(p, c, v)
    BY SMT, <1>2, <2>1, <2>2 DEF Against, Less, Ballot, areBallotsLessAndIncompatible,
             areBallotsCompatible, LessEq
  <2> QED BY <2>3 DEF Aborts
<1> QED BY <1>3 DEF Continues

LEMMA NewCommitContinues ==
    ASSUME NEW a \in Statements, NEW z \in Statements, IsPrepare(a), IsPrepare(z),
           a.nC = 0, LessEq(a.ballot, Ballot(z.nC, z.ballot.value)),
           \A c \in Counters, v \in Values : Aborts(a, c, v) => Aborts(z, c, v)
    PROVE  Continues(a, z)
BY DEF Continues, VotesCommit

\* Nothing accepted as prepared is given up in PREPARE.
LEMMA StepAborts ==
    ASSUME NEW s, NEW u, CoreStep(s, u), u.phase = "PREPARE",
           NEW c \in Counters, NEW v \in Values, StateAborts(s, c, v)
    PROVE  StateAborts(u, c, v)
<1>1. CASE u.prepared = s.prepared /\ u.preparedPrime = s.preparedPrime
  BY <1>1 DEF StateAborts
<1>2. CASE AcceptPreparedStep(s, u)
  BY <1>2 DEF AcceptPreparedStep
<1>3. CASE AcceptCommitStep(s, u) \/ ConfirmCommitStep(s, u)
  BY SMT, <1>3 DEF AcceptCommitStep, ConfirmCommitStep
<1> QED BY <1>1, <1>2, <1>3 DEF CoreStep, SameCore, BumpStep, ConfirmPreparedStep

\* What becomes of c and h in PREPARE.
LEMMA StepCommit ==
    ASSUME NEW s, SlotOK(s), NEW u, SlotOK(u), CoreStep(s, u), u.phase = "PREPARE"
    PROVE  \/ u.commit = s.commit /\ s.highBallot.counter <= u.highBallot.counter
           \/ /\ u.commit = NoBallot
              /\ \E p \in {u.prepared, u.preparedPrime} \ {NoBallot} :
                    areBallotsLessAndIncompatible(s.highBallot, p)
           \/ s.commit = NoBallot /\ LessEq(s.currentBallot, u.commit)
<1>1. s.highBallot \in Ballots /\ u.highBallot \in Ballots
  BY DEF SlotOK, SlotStates
<1>2. s.highBallot.counter \in Nat /\ u.highBallot.counter \in Nat
  BY <1>1, BallotFields
<1>3. CASE u.highBallot = s.highBallot /\ u.commit = s.commit
  BY SMT, <1>2, <1>3
<1>4. CASE AcceptPreparedStep(s, u)
  <2>1. u.highBallot = s.highBallot
    BY <1>4 DEF AcceptPreparedStep
  <2>2. \/ u.commit = s.commit
        \/ /\ u.commit = NoBallot
           /\ \E p \in {u.prepared, u.preparedPrime} \ {NoBallot} :
                 areBallotsLessAndIncompatible(s.highBallot, p)
    BY <1>4 DEF AcceptPreparedStep
  <2>3. s.highBallot.counter <= u.highBallot.counter
    BY SMT, <1>2, <2>1
  <2> QED BY <2>2, <2>3
<1>5. CASE ConfirmPreparedStep(s, u)
  <2>1. Less(s.highBallot, u.highBallot)
    BY <1>5 DEF ConfirmPreparedStep
  <2>2. u.commit = s.commit \/ (s.commit = NoBallot /\ LessEq(s.currentBallot, u.commit))
    BY <1>5 DEF ConfirmPreparedStep
  <2>3. s.highBallot.counter <= u.highBallot.counter
    BY SMT, <1>2, <2>1 DEF Less
  <2> QED BY <2>2, <2>3
<1>6. CASE AcceptCommitStep(s, u) \/ ConfirmCommitStep(s, u)
  BY SMT, <1>6 DEF AcceptCommitStep, ConfirmCommitStep
<1> QED BY <1>3, <1>4, <1>5, <1>6 DEF CoreStep, SameCore, BumpStep

\* A node that accepted a commit stays with its value.
LEMMA StepKeepsValue ==
    ASSUME NEW s, SlotOK(s), Consistent(s), NEW u, SlotOK(u), CoreStep(s, u),
           s.phase # "PREPARE"
    PROVE  u.phase # "PREPARE" /\ u.commit.value = s.commit.value
<1>1. s.commit.value = s.highBallot.value
  BY ConsistentFields
<1>2. CASE SameCore(s, u) \/ BumpStep(s, u)
  BY <1>2 DEF SameCore, BumpStep
<1>3. CASE AcceptPreparedStep(s, u)
  BY <1>3 DEF AcceptPreparedStep
<1>4. CASE AcceptCommitStep(s, u)
  <2>1. PICK v, i : u.phase = "CONFIRM" /\ u.commit = Ballot(i, v)
                    /\ (s.phase = "CONFIRM" => v = s.highBallot.value)
                    /\ s.phase # "EXTERNALIZE"
    BY <1>4 DEF AcceptCommitStep
  <2>2. s.phase = "CONFIRM"
    BY <2>1 DEF SlotOK, SlotStates, Phases
  <2> QED BY SMT, <1>1, <2>1, <2>2 DEF Ballot
<1>5. CASE ConfirmCommitStep(s, u)
  <2>1. PICK v, i : u.phase = "EXTERNALIZE" /\ u.commit = Ballot(i, v) /\ v = s.commit.value
    BY <1>5 DEF ConfirmCommitStep
  <2> QED BY SMT, <2>1 DEF Ballot
<1>6. CASE ConfirmPreparedStep(s, u)
  BY <1>6 DEF ConfirmPreparedStep
<1> QED BY <1>2, <1>3, <1>4, <1>5, <1>6 DEF CoreStep

\* Every change between two statements makes one that follows the other.
LEMMA StepFollows ==
    ASSUME NEW s, SlotOK(s), Consistent(s), NEW u, SlotOK(u), Consistent(u), CoreStep(s, u),
           NEW a, a = createStatement(s), NEW z, z = createStatement(u),
           isNewerStatement(a, z)
    PROVE  Follows(a, z)
<1>1. a \in Statements /\ z \in Statements
  BY CreatedFields
<1>2. ASSUME IsPrepare(a), IsPrepare(z) PROVE Continues(a, z)
  <2>1. s.phase = "PREPARE" /\ u.phase = "PREPARE"
    BY <1>2, CommitValueOfState
  <2>2. /\ a.ballot = s.currentBallot /\ a.prepared = s.prepared
        /\ a.preparedPrime = s.preparedPrime
        /\ a.nC = s.commit.counter /\ a.nH = s.highBallot.counter
    BY SMT, <2>1, CreatedFields
  <2>3. /\ z.ballot = u.currentBallot /\ z.prepared = u.prepared
        /\ z.preparedPrime = u.preparedPrime
        /\ z.nC = u.commit.counter /\ z.nH = u.highBallot.counter
    BY SMT, <2>1, CreatedFields
  <2>4. \A c \in Counters, v \in Values : Aborts(a, c, v) => Aborts(z, c, v)
    <3> SUFFICES ASSUME NEW c \in Counters, NEW v \in Values, Aborts(a, c, v)
                 PROVE  Aborts(z, c, v)
      OBVIOUS
    <3>1. StateAborts(s, c, v)
      BY <2>2 DEF Aborts, StateAborts
    <3>2. StateAborts(u, c, v)
      BY <2>1, <3>1, StepAborts
    <3> QED BY <2>3, <3>2 DEF Aborts, StateAborts
  <2>5. /\ s.highBallot \in Ballots
        /\ s.commit.counter # 0 => s.commit # NoBallot
        /\ s.commit # NoBallot => /\ s.highBallot.value = s.currentBallot.value
                                  /\ s.commit.value = s.currentBallot.value
    BY SMT, ConsistentFields
  <2>6. /\ u.commit \in Ballots
        /\ u.commit # NoBallot => u.commit.value = u.currentBallot.value
    BY SMT, ConsistentFields
  <2>7. NoBallot.counter = 0
    BY DEF NoBallot
  <2>8. CASE u.commit = s.commit /\ s.highBallot.counter <= u.highBallot.counter
    <3>1. a.nC = z.nC /\ a.nH <= z.nH
      BY <2>2, <2>3, <2>8
    <3>2. a.nC # 0 => a.ballot.value = z.ballot.value
      BY <2>2, <2>3, <2>5, <2>6, <2>8
    <3> QED BY <1>1, <1>2, <2>4, <3>1, <3>2, SameCommitContinues
  <2>9. CASE /\ u.commit = NoBallot
             /\ \E p \in {u.prepared, u.preparedPrime} \ {NoBallot} :
                   areBallotsLessAndIncompatible(s.highBallot, p)
    <3>1. PICK p \in {u.prepared, u.preparedPrime} \ {NoBallot} :
                   areBallotsLessAndIncompatible(s.highBallot, p)
      BY <2>9
    <3>2. p \in {z.prepared, z.preparedPrime} \ {NoBallot}
      BY <2>3, <3>1
    <3>3. z.nC = 0
      BY <2>3, <2>7, <2>9
    <3>4. a.nC # 0 => s.highBallot.value = a.ballot.value
      BY <2>2, <2>5
    <3> QED BY <1>1, <1>2, <2>2, <2>4, <2>5, <3>1, <3>2, <3>3, <3>4, ClearedContinues
  <2>10. CASE s.commit = NoBallot /\ LessEq(s.currentBallot, u.commit) /\ u.commit # NoBallot
    <3>1. a.nC = 0
      BY <2>2, <2>7, <2>10
    <3>2. Ballot(z.nC, z.ballot.value) = u.commit
      BY SMT, <2>3, <2>6, <2>10 DEF Ballot, Ballots
    <3>3. LessEq(a.ballot, Ballot(z.nC, z.ballot.value))
      BY <2>2, <2>10, <3>2
    <3> QED BY <1>1, <1>2, <2>4, <3>1, <3>3, NewCommitContinues
  <2>11. CASE s.commit = NoBallot /\ u.commit = NoBallot
    <3>1. a.nC = 0 /\ z.nC = 0
      BY <2>2, <2>3, <2>7, <2>11
    <3> QED BY <2>4, <3>1 DEF Continues, VotesCommit
  <2> QED BY <2>1, <2>8, <2>9, <2>10, <2>11, StepCommit
<1>3. ASSUME ~IsPrepare(a) PROVE CommitValue(a) = CommitValue(z)
  <2>1. s.phase # "PREPARE"
    <3>1. s.phase = "PREPARE" => IsPrepare(a)
      BY CreatedFields
    <3> QED BY <1>3, <3>1
  <2>2. u.phase # "PREPARE" /\ u.commit.value = s.commit.value
    BY <2>1, StepKeepsValue
  <2>3. CommitValue(a) = s.commit.value
    BY <2>1, CommitValueOfState
  <2>4. CommitValue(z) = u.commit.value
    BY <2>2, CommitValueOfState
  <2> QED BY <2>2, <2>3, <2>4
<1> QED BY <1>2, <1>3 DEF Follows

LEMMA SameVotes ==
    ASSUME NEW s, NEW u, u.latest = s.latest, u.self = s.self
    PROVE  /\ \A b : AcceptsPrepared(u, b) <=> AcceptsPrepared(s, b)
           /\ \A b : ConfirmsPrepared(u, b) <=> ConfirmsPrepared(s, b)
           /\ \A v, i, j : AcceptsCommit(u, v, i, j) <=> AcceptsCommit(s, v, i, j)
           /\ \A v, i, j : ConfirmsCommit(u, v, i, j) <=> ConfirmsCommit(s, v, i, j)
<1>1. getQuorumSetFromStatement(u) = getQuorumSetFromStatement(s)
  BY DEF getQuorumSetFromStatement
<1>2. /\ \A V : federatedRatify(u, V) <=> federatedRatify(s, V)
      /\ \A V, W : federatedAccept(u, V, W) <=> federatedAccept(s, V, W)
  BY <1>1 DEF federatedAccept, federatedRatify
<1>4. ASSUME NEW b
      PROVE  AcceptsPrepared(u, b) <=> AcceptsPrepared(s, b)
  BY SMT, <1>2 DEF AcceptsPrepared, Pledged
<1>5. ASSUME NEW b
      PROVE  ConfirmsPrepared(u, b) <=> ConfirmsPrepared(s, b)
  BY SMT, <1>2 DEF ConfirmsPrepared, Pledged
<1>6. ASSUME NEW v, NEW i, NEW j
      PROVE  AcceptsCommit(u, v, i, j) <=> AcceptsCommit(s, v, i, j)
  BY SMT, <1>2 DEF AcceptsCommit, Pledged
<1>7. ASSUME NEW v, NEW i, NEW j
      PROVE  ConfirmsCommit(u, v, i, j) <=> ConfirmsCommit(s, v, i, j)
  BY SMT, <1>2 DEF ConfirmsCommit, Pledged
<1> QED BY <1>4, <1>5, <1>6, <1>7

=============================================================================
