------------------------ MODULE BallotHistoryProofs -------------------------
(***************************************************************************)
(* How the statements of a node grow. Every method that changes the state  *)
(* ends in emitCurrentStateStatement, whose statement the node processes   *)
(* itself before the method returns; recording and sending happen as the   *)
(* calls of advanceSlot return. HistoryOK holds through all of this: the   *)
(* statements are totally ordered, the latest says what the state is, and  *)
(* what is not yet sent will be.                                           *)
(***************************************************************************)
EXTENDS BallotProtocolProofs

USE Zenon

-----------------------------------------------------------------------------
(* What holds of the statements a node has made.                           *)

SameBook(s, u) ==
    /\ u.self = s.self /\ u.latest = s.latest /\ u.stack = s.stack
    /\ u.lastEnvelope = s.lastEnvelope /\ u.lastEnvelopeEmit = s.lastEnvelopeEmit
    /\ u.emitted = s.emitted /\ u.fullyValidated = s.fullyValidated
    /\ u.failure = s.failure

LEMMA SameMade ==
    ASSUME NEW s, NEW u, u.self = s.self, u.latest = s.latest, u.stack = s.stack,
           u.lastEnvelope = s.lastEnvelope, u.emitted = s.emitted
    PROVE  Own(u) = Own(s) /\ Made(u) = Made(s)
BY DEF Own, Made, OwnHints

LEMMA SameHistory ==
    ASSUME NEW s, NEW u, HistoryOK(s), SlotOK(u), SameBook(s, u)
    PROVE  /\ ChainOK(u) /\ SentOK(u)
           /\ s.failure = "none" => StackOK(u)
           /\ s.failure = "none" /\ SameCore(s, u) => SyncedOK(u)
<1>1. Own(u) = Own(s) /\ Made(u) = Made(s)
  BY SameMade DEF SameBook
<1>2. ChainOK(u)
  BY <1>1 DEF ChainOK, HistoryOK
<1>3. SentOK(u)
  BY <1>1 DEF SentOK, HistoryOK, SameBook
<1>4. s.failure = "none" => StackOK(u)
  BY ZenonT(40), <1>1 DEF StackOK, HistoryOK, SameBook
<1>5. s.failure = "none" /\ SameCore(s, u) => SyncedOK(u)
  BY <1>1 DEF SyncedOK, HistoryOK, SameCore, createStatement, Consistent, Pristine
<1> QED BY <1>2, <1>3, <1>4, <1>5

\* A step that only touches timers, candidates and the like.
LEMMA SameKeepsHistory ==
    ASSUME NEW s, NEW u, HistoryOK(s), SlotOK(u), SameBook(s, u), SameCore(s, u)
    PROVE  HistoryOK(u)
BY SameHistory DEF HistoryOK, SameBook

-----------------------------------------------------------------------------
(* How the statements made grow.                                           *)

\* A new latest statement that follows the old one follows all others.
LEMMA ChainGrows ==
    ASSUME NEW s, NEW t, SlotOK(s), SlotOK(t), ChainOK(s),
           Made(t) \subseteq Made(s) \cup {Own(t)},
           \/ Own(t) = Own(s)
           \/ /\ Own(t) \in Statements /\ Sound(Own(t))
              /\ Own(s) # NoStatement => Follows(Own(s), Own(t))
    PROVE  /\ ChainOK(t)
           /\ \A a \in Made(s) : a = Own(t) \/ Follows(a, Own(t))
<1>1. \A a \in Made(s) : a = Own(t) \/ Follows(a, Own(t))
  <2> SUFFICES ASSUME NEW a \in Made(s) PROVE a = Own(t) \/ Follows(a, Own(t))
    OBVIOUS
  <2>1. a \in Statements /\ Own(s) # NoStatement
    BY MadeTypes, NothingMadeYet
  <2>2. Own(s) \in Statements
    BY <2>1, MadeTypes
  <2>3. a = Own(s) \/ Follows(a, Own(s))
    BY DEF ChainOK
  <2> QED BY <2>1, <2>2, <2>3, FollowsTransitive
<1>2. ASSUME NEW a \in Made(t) PROVE Sound(a)
  <2>1. CASE a \in Made(s)
    BY <2>1 DEF ChainOK
  <2>2. CASE a \notin Made(s)
    <3>1. a = Own(t)
      BY <2>2
    <3>2. CASE Own(t) = Own(s)
      <4>1. a # NoStatement
        BY DEF Made
      <4> QED BY <2>2, <3>1, <3>2, <4>1, MadeTypes
    <3> QED BY <3>1, <3>2
  <2> QED BY <2>1, <2>2
<1>3. ASSUME NEW a \in Made(t), NEW z \in Made(t)
      PROVE  a = z \/ Follows(a, z) \/ Follows(z, a)
  <2>1. a \in Made(s) \/ a = Own(t)
    OBVIOUS
  <2>2. z \in Made(s) \/ z = Own(t)
    OBVIOUS
  <2> QED BY <1>1, <2>1, <2>2 DEF ChainOK
<1> QED BY <1>1, <1>2, <1>3 DEF ChainOK

-----------------------------------------------------------------------------
(* What the operations on a record leave alone.                            *)

\* r is the stack q with a new frame f on it.
IsPush(r, q, f) ==
    /\ r \in Seq(Frames) /\ Len(q) \in Nat /\ Len(r) = 1 + Len(q)
    /\ r # << >> /\ r[1] = f
    /\ \A i \in 2..Len(r) : i - 1 \in 1..Len(q) /\ r[i] = q[i - 1]

LEMMA PushedStack ==
    ASSUME NEW q \in Seq(Frames), NEW f \in Frames
    PROVE  IsPush(<<f>> \o q, q, f)
<1>1. <<f>> \in Seq(Frames) /\ Len(<<f>>) = 1 /\ <<f>>[1] = f
  BY SMT
<1>2. Len(q) \in Nat
  BY StackLength
<1> DEFINE r == <<f>> \o q
<1>3. /\ r \in Seq(Frames) /\ Len(r) = 1 + Len(q)
      /\ \A i \in 1..(1 + Len(q)) : r[i] = IF i <= 1 THEN f ELSE q[i - 1]
  BY <1>1, StackPush
<1> HIDE DEF r
<1>4. /\ r[1] = f /\ Len(r) # 0
      /\ \A i \in 2..Len(r) : i - 1 \in 1..Len(q) /\ r[i] = q[i - 1]
  BY SMT, <1>2, <1>3
<1>5. r # << >>
  BY SMT, <1>4
<1> QED BY <1>2, <1>3, <1>4, <1>5 DEF IsPush, r

\* The frame of a call for statement st of node m.
FrameFor(s, m, st) == Frame(st, m = s.self)

LEMMA FrameForType ==
    ASSUME NEW s, NEW m, NEW st \in Statements
    PROVE  /\ FrameFor(s, m, st) \in Frames /\ FrameFor(s, m, st).hint = st
           /\ FrameFor(s, m, st).own <=> (m = s.self)
           /\ ~FrameFor(s, m, st).didWork
<1> DEFINE o == (m = s.self)
<1>1. o \in BOOLEAN /\ FALSE \in BOOLEAN /\ 1 \in 1..5
  BY SMT
<1>2. FrameFor(s, m, st) = [hint |-> st, own |-> o, pc |-> 1, didWork |-> FALSE]
  BY DEF FrameFor, Frame
<1> HIDE DEF o
<1>3. /\ FrameFor(s, m, st) \in Frames /\ FrameFor(s, m, st).hint = st
      /\ FrameFor(s, m, st).own = o /\ FrameFor(s, m, st).didWork = FALSE
  BY SMT, <1>1, <1>2 DEF Frames
<1> QED BY <1>3 DEF o

LEMMA enterFields ==
    ASSUME NEW s, SlotOK(s), NEW st \in Statements, NEW own \in BOOLEAN, NEW t,
           t = enterAdvanceSlot(s, st, own)
    PROVE  /\ SameCore(s, t) /\ SameSent(s, t) /\ t.latest = s.latest
           /\ t.fullyValidated = s.fullyValidated
           /\ \/ t.failure = "maxTransitions" /\ t.stack = s.stack
              \/ t.failure = s.failure /\ IsPush(t.stack, s.stack, Frame(st, own))
<1> DEFINE heard == \/ s.heardFromQuorum
                    \/ /\ s.currentBallot # NoBallot
                       /\ federatedRatify(s, Pledged(s, LAMBDA x :
                             x.type = "PREPARE" =>
                                s.currentBallot.counter <= x.ballot.counter))
           q == <<Frame(st, own)>> \o s.stack
           t1 == [s EXCEPT !.failure = "maxTransitions"]
           t2 == [s EXCEPT !.stack = q, !.heardFromQuorum = heard]
<1>1. enterAdvanceSlot(s, st, own) \in {t1, t2}
  BY DEF enterAdvanceSlot
<1> HIDE DEF heard, q
<1>2. /\ SameCore(s, t1) /\ SameSent(s, t1) /\ t1.latest = s.latest
      /\ t1.fullyValidated = s.fullyValidated
      /\ t1.failure = "maxTransitions" /\ t1.stack = s.stack
  BY DEF SlotOK, SlotStates, SameCore, SameSent
<1>3. /\ SameCore(s, t2) /\ SameSent(s, t2) /\ t2.latest = s.latest
      /\ t2.fullyValidated = s.fullyValidated
      /\ t2.failure = s.failure /\ t2.stack = q
  BY DEF SlotOK, SlotStates, SameCore, SameSent
<1>4. IsPush(q, s.stack, Frame(st, own))
  <2>1. s.stack \in Seq(Frames)
    BY DEF SlotOK, SlotStates
  <2>2. Frame(st, own) \in Frames
    BY SMT DEF Frame, Frames
  <2> QED BY <2>1, <2>2, PushedStack DEF q
<1> HIDE DEF t1, t2
<1> QED BY <1>1, <1>2, <1>3, <1>4

LEMMA processFields ==
    ASSUME NEW s, SlotOK(s), NEW m \in Node, NEW st \in Statements, NEW t,
           t = processEnvelope(s, m, st)
    PROVE  /\ SameCore(s, t) /\ SameSent(s, t)
           /\ t.latest = [s.latest EXCEPT ![m] = st]
           /\ t.fullyValidated => s.fullyValidated
           /\ \/ s.phase = "EXTERNALIZE" /\ t.failure = s.failure /\ t.stack = s.stack
              \/ t.failure = "maxTransitions" /\ t.stack = s.stack
              \/ /\ s.phase # "EXTERNALIZE" /\ t.failure = s.failure
                 /\ IsPush(t.stack, s.stack, FrameFor(s, m, st))
<1> DEFINE k == recordEnvelope(s, m, st)
           fv == k.fullyValidated /\ validateValues(s.self, st) # "kMaybeValidValue"
           w == [k EXCEPT !.fullyValidated = fv]
           x == enterAdvanceSlot(w, st, m = s.self)
<1>1. processEnvelope(s, m, st) = IF s.phase = "EXTERNALIZE" THEN k ELSE x
  BY DEF processEnvelope
<1>2. /\ SlotOK(k) /\ SameCore(s, k) /\ SameSent(s, k)
      /\ k.latest = [s.latest EXCEPT ![m] = st]
      /\ k.fullyValidated = s.fullyValidated /\ k.failure = s.failure /\ k.stack = s.stack
  BY DEF SlotOK, SlotStates, recordEnvelope, SameCore, SameSent
<1>3. fv \in BOOLEAN
  OBVIOUS
<1>4. fv => k.fullyValidated
  OBVIOUS
<1> HIDE DEF k, fv
<1>5. /\ SlotOK(w) /\ SameCore(k, w) /\ SameSent(k, w) /\ w.latest = k.latest
      /\ w.fullyValidated = fv /\ w.failure = k.failure /\ w.stack = k.stack
  BY <1>2, <1>3 DEF SlotOK, SlotStates, SameCore, SameSent
<1> DEFINE o == (m = s.self)
<1>6. o \in BOOLEAN /\ x = enterAdvanceSlot(w, st, o)
  OBVIOUS
<1> HIDE DEF w, o, x
<1>7. /\ SameCore(w, x) /\ SameSent(w, x) /\ x.latest = w.latest
      /\ x.fullyValidated = w.fullyValidated
      /\ \/ x.failure = "maxTransitions" /\ x.stack = w.stack
         \/ x.failure = w.failure /\ IsPush(x.stack, w.stack, Frame(st, o))
  BY SMT, <1>5, <1>6, enterFields
<1>8. /\ SameCore(s, x) /\ SameSent(s, x)
      /\ x.latest = [s.latest EXCEPT ![m] = st]
      /\ x.fullyValidated => s.fullyValidated
      /\ \/ x.failure = "maxTransitions" /\ x.stack = s.stack
         \/ x.failure = s.failure /\ IsPush(x.stack, s.stack, FrameFor(s, m, st))
  <2>1. SameCore(s, x) /\ SameSent(s, x)
    BY <1>2, <1>5, <1>7 DEF SameCore, SameSent
  <2>2. w.stack = s.stack /\ w.failure = s.failure
    BY <1>2, <1>5
  <2>3. \/ x.failure = "maxTransitions" /\ x.stack = s.stack
        \/ x.failure = s.failure /\ IsPush(x.stack, s.stack, FrameFor(s, m, st))
    <3>1. FrameFor(s, m, st) = Frame(st, o)
      BY DEF FrameFor, o
    <3> QED BY <1>7, <2>2, <3>1
  <2>4. x.latest = [s.latest EXCEPT ![m] = st] /\ (x.fullyValidated => s.fullyValidated)
    BY <1>2, <1>4, <1>5, <1>7
  <2> QED BY <2>1, <2>3, <2>4
<1>9. CASE s.phase = "EXTERNALIZE"
  <2>1. processEnvelope(s, m, st) = k
    BY <1>1, <1>9
  <2> QED BY SMT, <1>2, <1>9, <2>1
<1>10. CASE s.phase # "EXTERNALIZE"
  <2>1. processEnvelope(s, m, st) = x
    BY <1>1, <1>10
  <2> QED BY SMT, <1>8, <1>10, <2>1
<1> QED BY <1>9, <1>10

\* sendLatestEnvelope, at the outermost level of a validating node.
LEMMA sendFields ==
    ASSUME NEW s, SlotOK(s), NEW t,
           t = sendLatestEnvelope(s)
    PROVE  /\ SameCore(s, t) /\ t.self = s.self /\ t.latest = s.latest
           /\ t.stack = s.stack /\ t.failure = s.failure
           /\ t.fullyValidated = s.fullyValidated /\ t.lastEnvelope = s.lastEnvelope
           /\ \/ /\ t.lastEnvelopeEmit = s.lastEnvelopeEmit /\ t.emitted = s.emitted
                 /\ \/ s.stack # << >> \/ ~s.fullyValidated
                    \/ s.lastEnvelope \in {NoStatement, s.lastEnvelopeEmit}
              \/ /\ s.stack = << >> /\ s.lastEnvelope # NoStatement
                 /\ s.fullyValidated /\ s.lastEnvelope # s.lastEnvelopeEmit
                 /\ t.lastEnvelopeEmit = s.lastEnvelope
                 /\ t.emitted = s.emitted \cup {s.lastEnvelope}
<1> DEFINE t1 == [s EXCEPT !.lastEnvelopeEmit = s.lastEnvelope,
                           !.emitted = @ \cup {s.lastEnvelope}]
<1>1. /\ SameCore(s, t1) /\ t1.self = s.self /\ t1.latest = s.latest
      /\ t1.stack = s.stack /\ t1.failure = s.failure
      /\ t1.fullyValidated = s.fullyValidated /\ t1.lastEnvelope = s.lastEnvelope
      /\ t1.lastEnvelopeEmit = s.lastEnvelope
      /\ t1.emitted = s.emitted \cup {s.lastEnvelope}
  BY DEF SlotOK, SlotStates, SameCore
<1>2. SameCore(s, s)
  BY DEF SameCore
<1>3. CASE /\ s.stack = << >>
           /\ s.lastEnvelope # NoStatement /\ s.fullyValidated
           /\ s.lastEnvelope # s.lastEnvelopeEmit
  <2>1. sendLatestEnvelope(s) = t1
    BY <1>3 DEF sendLatestEnvelope
  <2> HIDE DEF t1
  <2> QED BY <1>1, <1>3, <2>1
<1>4. CASE ~(/\ s.stack = << >>
             /\ s.lastEnvelope # NoStatement /\ s.fullyValidated
             /\ s.lastEnvelope # s.lastEnvelopeEmit)
  <2>1. sendLatestEnvelope(s) = s
    BY <1>4 DEF sendLatestEnvelope
  <2> QED BY <1>2, <1>4, <2>1
<1> QED BY <1>3, <1>4

-----------------------------------------------------------------------------
(* emitCurrentStateStatement.                                              *)

LEMMA RestOfSent ==
    ASSUME NEW s, NEW t, SentOK(s), SameSent(s, t)
    PROVE  SentOK(t)
BY DEF SentOK, SameSent

\* The statement of a state that passed checkInvariants.
LEMMA CreatedIsSound ==
    ASSUME NEW s, SlotOK(s), checkInvariants(s)
    PROVE  Sound(createStatement(s)) /\ Consistent(s)
<1>1. Consistent(s)
  BY DEF Consistent, checkInvariants
<1> DEFINE b == s.currentBallot
           c == s.commit
           h == s.highBallot
<1>2. b \in Ballots /\ c \in Ballots /\ h \in Ballots
  BY DEF SlotOK, SlotStates
<1>3. /\ b.counter \in Nat /\ c.counter \in Nat /\ h.counter \in Nat
      /\ NoBallot.counter = 0 /\ NoBallot.value = NoValue
  BY <1>2, BallotFields DEF NoBallot
<1>4. c # NoBallot => /\ c.counter <= h.counter /\ h.counter <= b.counter
                      /\ c.value = h.value /\ h.value = b.value
  <2>1. c # NoBallot => areBallotsLessAndCompatible(c, h) /\ areBallotsLessAndCompatible(h, b)
    BY <1>1 DEF Consistent
  <2> HIDE DEF b, c, h
  <2> QED BY SMT, <1>3, <2>1 DEF areBallotsLessAndCompatible, areBallotsCompatible, LessEq, Less
<1>5. s.phase # "PREPARE" => c # NoBallot
  BY DEF checkInvariants
<1>6. s.phase \in {"PREPARE", "CONFIRM", "EXTERNALIZE"}
  BY DEF SlotOK, SlotStates, Phases
<1>7. CASE s.phase = "PREPARE"
  <2> DEFINE st == Prepare(b, s.prepared, s.preparedPrime, c.counter, h.counter)
  <2>1. createStatement(s) = st
    BY <1>7 DEF createStatement
  <2>2. st.type = "PREPARE" /\ st.nC = c.counter /\ st.nH = h.counter /\ st.ballot = b
    BY DEF Prepare
  <2>3. st.nC # 0 => st.nC <= st.nH /\ st.nH <= st.ballot.counter
    <3> HIDE DEF b, c, h, st
    <3> QED BY SMT, <1>3, <1>4, <2>2
  <2> HIDE DEF st
  <2> QED BY SMT, <1>1, <2>1, <2>2, <2>3 DEF Sound, IsPrepare
<1>8. CASE s.phase = "CONFIRM"
  <2> DEFINE st == Confirm(b, s.prepared.counter, c.counter, h.counter)
  <2>1. createStatement(s) = st
    BY <1>8 DEF createStatement
  <2>2. st.type = "CONFIRM" /\ st.nCommit = c.counter /\ st.nH = h.counter /\ st.ballot = b
    BY DEF Confirm
  <2>3. Ballot(c.counter, b.value) = c
    <3> HIDE DEF b, c, h
    <3> QED BY SMT, <1>2, <1>4, <1>5, <1>8 DEF Ballot, Ballots
  <2>4. /\ st.nCommit <= st.nH /\ st.nH <= st.ballot.counter
        /\ Ballot(st.nCommit, st.ballot.value) # NoBallot
    <3> HIDE DEF b, c, h, st
    <3> QED BY SMT, <1>4, <1>5, <1>8, <2>2, <2>3
  <2> HIDE DEF st
  <2> QED BY SMT, <1>1, <2>1, <2>2, <2>4 DEF Sound, IsPrepare
<1>9. CASE s.phase = "EXTERNALIZE"
  <2> DEFINE st == Externalize(c, h.counter)
  <2>1. createStatement(s) = st
    BY <1>9 DEF createStatement
  <2>2. st.type = "EXTERNALIZE" /\ st.commit = c /\ st.nH = h.counter
    BY DEF Externalize
  <2>3. st.commit # NoBallot /\ st.commit.counter <= st.nH
    <3> HIDE DEF b, c, h, st
    <3> QED BY SMT, <1>4, <1>5, <1>9, <2>2
  <2> HIDE DEF st
  <2> QED BY SMT, <1>1, <2>1, <2>2, <2>3 DEF Sound, IsPrepare
<1> QED BY <1>6, <1>7, <1>8, <1>9

\* The statements made once another own statement is recorded, and its frame
\* pushed or not.
LEMMA MadeOfRecorded ==
    ASSUME NEW s, NEW t, SlotOK(s), SlotOK(t), NEW st \in Statements, SameSent(s, t),
           t.latest = [s.latest EXCEPT ![s.self] = st],
           t.stack = s.stack \/ IsPush(t.stack, s.stack, FrameFor(s, s.self, st))
    PROVE  Own(t) = st /\ Made(t) \subseteq Made(s) \cup {st}
<1>1. s.self \in Node /\ s.latest \in [Node -> Statements \cup {NoStatement}]
  BY DEF SlotOK, SlotStates
<1>2. Own(t) = st
  BY <1>1 DEF Own, SameSent
<1>3. OwnHints(t) \subseteq OwnHints(s) \cup {st}
  <2>1. CASE t.stack = s.stack
    <3>1. OwnHints(t) = OwnHints(s)
      BY <2>1 DEF OwnHints
    <3> QED BY <3>1
  <2>2. CASE IsPush(t.stack, s.stack, FrameFor(s, s.self, st))
    <3> DEFINE f == FrameFor(s, s.self, st)
    <3>1. f \in Frames /\ f.hint = st
      BY SMT, FrameForType
    <3> HIDE DEF f
    <3>3. /\ Len(t.stack) = 1 + Len(s.stack) /\ t.stack[1] = f /\ Len(s.stack) \in Nat
          /\ \A i \in 2..Len(t.stack) : i - 1 \in 1..Len(s.stack) /\ t.stack[i] = s.stack[i - 1]
      BY <2>2 DEF IsPush, f
    <3>4. ASSUME NEW i \in 1..Len(t.stack), t.stack[i].own
          PROVE  t.stack[i].hint \in OwnHints(s) \cup {st}
      <4>1. CASE i = 1
        BY <3>1, <3>3, <4>1
      <4>2. CASE i # 1
        <5>1. i \in 2..Len(t.stack)
          BY SMT, <3>3, <4>2
        <5>2. i - 1 \in 1..Len(s.stack) /\ t.stack[i] = s.stack[i - 1]
          BY <3>3, <5>1
        <5> QED BY <3>4, <5>2 DEF OwnHints
      <4> QED BY <4>1, <4>2
    <3> QED BY <3>4 DEF OwnHints
  <2> QED BY <2>1, <2>2
<1> QED BY <1>2, <1>3 DEF Made, SameSent

LEMMA FailedHistory ==
    ASSUME NEW s, NEW u, NEW t, HistoryOK(s), SlotOK(u), SameBook(s, u),
           t \in {abort(u), [u EXCEPT !.failure = "badState"]}
    PROVE  /\ HistoryOK(t) /\ Advances(s, t) /\ SendsNothing(s, t) /\ SameCore(u, t)
           /\ t.failure # "none"
<1>1. Keeps(u, abort(u)) /\ Keeps(u, [u EXCEPT !.failure = "badState"])
  BY abortKeeps DEF Keeps, SlotOK, SlotStates, Failures
<1>2. SlotOK(t)
  BY <1>1 DEF Keeps
<1>3. /\ SameSent(u, t) /\ SameCore(u, t) /\ t.latest = u.latest /\ t.stack = u.stack
      /\ t.fullyValidated = u.fullyValidated /\ t.failure \in {"dbgAssert", "badState"}
  BY DEF abort, SlotOK, SlotStates, SameSent, SameCore
<1>4. Own(t) = Own(u) /\ Made(t) = Made(u)
  BY <1>3, SameMade DEF SameSent
<1>5. Own(u) = Own(s) /\ Made(u) = Made(s) /\ ChainOK(u) /\ SentOK(u)
  BY SameMade, SameHistory DEF SameBook
<1>6. ChainOK(t) /\ SentOK(t)
  BY <1>3, <1>4, <1>5, RestOfSent DEF ChainOK
<1>7. t.failure # "none"
  BY <1>3
<1>8. Advances(s, t)
  BY <1>3, <1>4, <1>5 DEF Advances, SameBook, SameSent
<1> QED BY <1>2, <1>3, <1>6, <1>7, <1>8
    DEF HistoryOK, SendsNothing, SameBook, SameSent

\* The innermost call has noted that it does work.
Working(s) == s.stack # << >> => s.stack[1].didWork

\* The frame that processes an own statement goes on top of frames that did
\* work.
LEMMA OwnFrame ==
    ASSUME NEW s, SlotOK(s), StackOK(s), Working(s),
           NEW t, SlotOK(t), SameSent(s, t), t.fullyValidated => s.fullyValidated,
           IsPush(t.stack, s.stack, FrameFor(s, s.self, Own(t))), Own(t) \in Statements
    PROVE  StackOK(t)
<1> DEFINE f == FrameFor(s, s.self, Own(t))
<1>1. f \in Frames /\ f.own /\ f.hint = Own(t) /\ ~f.didWork
  BY SMT, FrameForType
<1>2. s.stack \in Seq(Frames)
  BY DEF SlotOK, SlotStates
<1>3. IsPush(t.stack, s.stack, f)
  OBVIOUS
<1> HIDE DEF f
<1>4. /\ t.stack \in Seq(Frames) /\ Len(t.stack) = 1 + Len(s.stack)
      /\ t.stack[1] = f /\ Len(s.stack) \in Nat /\ t.stack # << >>
      /\ \A i \in 2..Len(t.stack) : i - 1 \in 1..Len(s.stack) /\ t.stack[i] = s.stack[i - 1]
  BY <1>3 DEF IsPush
<1>5. s.stack = << >> <=> Len(s.stack) = 0
  BY <1>2, StackLength
<1>6. ASSUME NEW i \in 1..(Len(t.stack) - 1) PROVE t.stack[i].own
  <2>1. CASE i = 1
    BY <1>1, <1>4, <2>1
  <2>2. CASE i # 1
    <3>1. i \in 2..Len(t.stack) /\ i - 1 \in 1..(Len(s.stack) - 1)
      BY SMT, <1>4, <2>2
    <3>2. t.stack[i] = s.stack[i - 1]
      BY <1>4, <3>1
    <3> QED BY <3>1, <3>2 DEF StackOK
  <2> QED BY <2>1, <2>2
<1>7. ASSUME NEW i \in 2..Len(t.stack) PROVE t.stack[i].didWork
  <2>1. i - 1 \in 1..Len(s.stack) /\ t.stack[i] = s.stack[i - 1]
    BY <1>4
  <2>2. CASE i = 2
    <3>1. i - 1 = 1 /\ s.stack # << >>
      BY SMT, <1>4, <1>5, <2>1, <2>2
    <3> QED BY <2>1, <3>1 DEF Working
  <2>3. CASE i # 2
    <3>1. i - 1 \in 2..Len(s.stack)
      BY SMT, <1>4, <2>1, <2>3
    <3> QED BY <2>1, <3>1 DEF StackOK
  <2> QED BY <2>2, <2>3
<1>8. t.stack # << >> /\ t.stack[1].own /\ t.stack[1].hint = Own(t)
  BY <1>1, <1>4
<1>9. ASSUME t.fullyValidated, Len(t.stack) <= 1
      PROVE  t.lastEnvelope = t.lastEnvelopeEmit
  <2>1. Len(s.stack) = 0
    BY SMT, <1>4, <1>9
  <2> QED BY <1>9, <2>1 DEF StackOK, SameSent
<1>10. (Len(t.stack) = 0 => Len(t.stack) <= 1) /\ (Len(t.stack) = 1 => Len(t.stack) <= 1)
  <2>1. 0 <= 1 /\ 1 <= 1
    BY SMT
  <2> QED BY <2>1
<1> QED BY <1>6, <1>7, <1>8, <1>9, <1>10 DEF StackOK

LEMMA recordFields ==
    ASSUME NEW s, SlotOK(s), NEW st \in Statements, StatementOK(st), NEW t,
           t = recordLastEnvelope(s, st)
    PROVE  /\ SameCore(s, t) /\ t.self = s.self /\ t.latest = s.latest
           /\ t.stack = s.stack /\ t.failure = s.failure
           /\ t.fullyValidated = s.fullyValidated
           /\ \/ /\ ~(Sendable(st) /\ isNewerStatement(s.lastEnvelope, st))
                 /\ SameSent(s, t)
              \/ /\ Sendable(st) /\ isNewerStatement(s.lastEnvelope, st)
                 /\ t.lastEnvelope = st
                 /\ \/ /\ t.lastEnvelopeEmit = s.lastEnvelopeEmit /\ t.emitted = s.emitted
                       /\ s.stack # << >> \/ ~s.fullyValidated \/ st = s.lastEnvelopeEmit
                    \/ /\ s.stack = << >> /\ s.fullyValidated
                       /\ t.lastEnvelopeEmit = st /\ t.emitted = s.emitted \cup {st}
<1> DEFINE y == [s EXCEPT !.lastEnvelope = st]
           z == sendLatestEnvelope(y)
<1>1. /\ SlotOK(y) /\ SameCore(s, y) /\ y.self = s.self /\ y.latest = s.latest
      /\ y.stack = s.stack /\ y.failure = s.failure
      /\ y.fullyValidated = s.fullyValidated /\ y.lastEnvelope = st
      /\ y.lastEnvelopeEmit = s.lastEnvelopeEmit /\ y.emitted = s.emitted
  BY DEF SlotOK, SlotStates, SameCore
<1>2. st # NoStatement
  BY RankFields
<1>3. (Sendable(st) <=> (st.type = "PREPARE" => st.ballot # NoBallot))
  BY <1>2 DEF Sendable, IsPrepare
<1>4. t = IF Sendable(st) /\ isNewerStatement(s.lastEnvelope, st) THEN z ELSE s
  BY <1>3 DEF recordLastEnvelope
<1> HIDE DEF y
<1>5. /\ SameCore(y, z) /\ z.self = y.self /\ z.latest = y.latest
      /\ z.stack = y.stack /\ z.failure = y.failure
      /\ z.fullyValidated = y.fullyValidated /\ z.lastEnvelope = y.lastEnvelope
      /\ \/ /\ z.lastEnvelopeEmit = y.lastEnvelopeEmit /\ z.emitted = y.emitted
            /\ \/ y.stack # << >> \/ ~y.fullyValidated
               \/ y.lastEnvelope \in {NoStatement, y.lastEnvelopeEmit}
         \/ /\ y.stack = << >> /\ y.lastEnvelope # NoStatement
            /\ y.fullyValidated /\ y.lastEnvelope # y.lastEnvelopeEmit
            /\ z.lastEnvelopeEmit = y.lastEnvelope
            /\ z.emitted = y.emitted \cup {y.lastEnvelope}
  BY SMTT(30), <1>1, sendFields
<1> HIDE DEF z
<1>6. SameCore(s, z) /\ SameCore(s, s) /\ SameSent(s, s)
  BY <1>1, <1>5 DEF SameCore, SameSent
<1>7. CASE Sendable(st) /\ isNewerStatement(s.lastEnvelope, st)
  <2>1. t = z
    BY <1>4, <1>7
  <2>2. /\ t.self = s.self /\ t.latest = s.latest
        /\ t.stack = s.stack /\ t.failure = s.failure
        /\ t.fullyValidated = s.fullyValidated /\ t.lastEnvelope = st
    BY <1>1, <1>5, <2>1
  <2>3. \/ /\ t.lastEnvelopeEmit = s.lastEnvelopeEmit /\ t.emitted = s.emitted
           /\ s.stack # << >> \/ ~s.fullyValidated \/ st = s.lastEnvelopeEmit
        \/ /\ s.stack = << >> /\ s.fullyValidated
           /\ t.lastEnvelopeEmit = st /\ t.emitted = s.emitted \cup {st}
    BY SMTT(30), <1>1, <1>2, <1>5, <2>1
  <2> QED BY SMTT(30), <1>6, <1>7, <2>1, <2>2, <2>3
<1>8. CASE ~(Sendable(st) /\ isNewerStatement(s.lastEnvelope, st))
  <2>1. t = s
    BY <1>4, <1>8
  <2> QED BY SMTT(30), <1>6, <1>8, <2>1
<1> QED BY <1>7, <1>8

\* Recording the latest statement, and sending it or not.
LEMMA SentAfter ==
    ASSUME NEW s, NEW t, SlotOK(s), SlotOK(t), ChainOK(s), SentOK(s),
           \/ t.lastEnvelope = s.lastEnvelope
           \/ t.lastEnvelope = Own(s) /\ Sendable(Own(s)),
           \/ t.lastEnvelopeEmit = s.lastEnvelopeEmit /\ t.emitted = s.emitted
           \/ /\ t.lastEnvelope = Own(s) /\ t.lastEnvelopeEmit = Own(s) /\ Sendable(Own(s))
              /\ t.emitted = s.emitted \cup {Own(s)}
    PROVE  SentOK(t)
<1> DEFINE o == Own(s)
<1>1. /\ s.emitted \subseteq Made(s)
      /\ s.lastEnvelopeEmit # NoStatement => s.lastEnvelopeEmit \in Made(s)
  BY MadeTypes DEF SentOK
<1>2. \A a \in Made(s) : a = o \/ Follows(a, o)
  BY DEF ChainOK
<1> HIDE DEF o
<1>3. CASE t.lastEnvelopeEmit = s.lastEnvelopeEmit /\ t.emitted = s.emitted
  <2>1. /\ \A a \in t.emitted : a = t.lastEnvelopeEmit \/ Follows(a, t.lastEnvelopeEmit)
        /\ t.lastEnvelopeEmit \in t.emitted \cup {NoStatement}
        /\ t.lastEnvelopeEmit # NoStatement => Sendable(t.lastEnvelopeEmit)
    BY <1>3 DEF SentOK
  <2>2. t.lastEnvelope # NoStatement => Sendable(t.lastEnvelope)
    BY DEF SentOK
  <2>3. \/ t.lastEnvelopeEmit \in {t.lastEnvelope, NoStatement}
        \/ Follows(t.lastEnvelopeEmit, t.lastEnvelope)
    <3>1. CASE t.lastEnvelope = s.lastEnvelope
      BY <1>3, <3>1 DEF SentOK
    <3>2. CASE t.lastEnvelope = o
      BY <1>1, <1>2, <1>3, <3>2
    <3> QED BY <3>1, <3>2 DEF o
  <2> QED BY <2>1, <2>2, <2>3 DEF SentOK
<1>4. CASE /\ t.lastEnvelope = o /\ t.lastEnvelopeEmit = o /\ Sendable(o)
           /\ t.emitted = s.emitted \cup {o}
  <2>1. \A a \in t.emitted : a = o \/ Follows(a, o)
    BY <1>1, <1>2, <1>4
  <2> QED BY <1>4, <2>1 DEF SentOK
<1> QED BY <1>3, <1>4 DEF o

LEMMA emitHistory ==
    ASSUME NEW s, HistoryOK(s), s.failure = "none", Working(s),
           NEW u, SlotOK(u), SameBook(s, u),
           u.phase = "EXTERNALIZE" => s.stack # << >>,
           /\ checkInvariants(u) /\ Own(s) # NoStatement
           /\ isNewerStatement(Own(s), createStatement(u))
           => Follows(Own(s), createStatement(u)),
           NEW t, t = emitCurrentStateStatement(u)
    PROVE  HistoryOK(t) /\ Advances(s, t) /\ SendsNothing(s, t) /\ SameCore(u, t)
<1> DEFINE st == createStatement(u)
           x == processEnvelope(u, u.self, st)
<1>1. st \in Statements /\ StatementOK(st)
  BY createStatementType
<1>2. u.self \in Node /\ u.latest \in [Node -> Statements \cup {NoStatement}]
  BY DEF SlotOK, SlotStates
<1>3. SlotOK(t)
  BY emitCurrentStateStatementKeeps DEF Keeps
<1>4. Own(u) = Own(s) /\ Made(u) = Made(s) /\ ChainOK(u) /\ SentOK(u) /\ StackOK(u)
  BY SameMade, SameHistory DEF SameBook
<1>5. CASE t \in {abort(u), [u EXCEPT !.failure = "badState"]}
  BY <1>5, FailedHistory
<1>6. CASE t = u /\ checkInvariants(u) /\ st = Own(u)
  <2>1. SyncedOK(u)
    BY <1>6, CreatedIsSound DEF SyncedOK
  <2>2. HistoryOK(t)
    BY <1>4, <1>6, <2>1 DEF HistoryOK
  <2>3. Advances(s, t) /\ SendsNothing(s, t) /\ SameCore(u, t)
    BY <1>4, <1>6 DEF Advances, SendsNothing, SameCore, SameBook
  <2> QED BY <2>2, <2>3
<1>7. CASE checkInvariants(u) /\ isNewerStatement(Own(s), st)
           /\ t = IF u.phase = "EXTERNALIZE" THEN recordLastEnvelope(x, st) ELSE x
  <2>1. Sound(st) /\ Consistent(u)
    BY <1>7, CreatedIsSound
  <2>2. Own(s) # NoStatement => Follows(Own(s), st)
    BY <1>7
  <2>3. Keeps(u, x)
    BY <1>1, <1>2, processEnvelopeKeeps
  <2>4. /\ SameCore(u, x) /\ SameSent(u, x)
        /\ x.latest = [u.latest EXCEPT ![u.self] = st]
        /\ x.fullyValidated => u.fullyValidated
        /\ \/ u.phase = "EXTERNALIZE" /\ x.failure = u.failure /\ x.stack = u.stack
           \/ x.failure = "maxTransitions" /\ x.stack = u.stack
           \/ /\ u.phase # "EXTERNALIZE" /\ x.failure = u.failure
              /\ IsPush(x.stack, u.stack, FrameFor(u, u.self, st))
    <3> HIDE DEF st, x
    <3> QED BY <1>1, <1>2, processFields DEF x
  <2>5. createStatement(x) = st /\ Consistent(x)
    BY <2>1, <2>4 DEF createStatement, Consistent, SameCore
  <2> HIDE DEF st, x
  <2>6. Own(x) = st /\ Made(x) \subseteq Made(s) \cup {st}
    BY ZenonT(60), <1>1, <1>4, <2>3, <2>4, MadeOfRecorded DEF Keeps
  <2>7. ChainOK(x)
    BY <1>1, <1>4, <2>1, <2>2, <2>3, <2>6, ChainGrows DEF Keeps
  <2>8. Advances(s, x)
    BY ZenonT(60), <1>2, <2>2, <2>4, <2>5, <2>6 DEF Advances, SameSent, SameBook
  <2>9. SentOK(x) /\ SendsNothing(s, x)
    BY <1>4, <2>4, RestOfSent DEF SendsNothing, SameSent, SameBook
  <2>10. SyncedOK(x)
    BY <2>5, <2>6 DEF SyncedOK
  <2>11. CASE t = x /\ u.phase # "EXTERNALIZE"
    <3>1. x.failure = "none" => StackOK(x)
      <4>1. x.failure = "none" => IsPush(x.stack, u.stack, FrameFor(u, u.self, st))
        BY <2>4, <2>11
      <4>2. Working(u)
        BY DEF Working, SameBook
      <4> QED BY <1>1, <1>4, <2>3, <2>4, <2>6, <4>1, <4>2, OwnFrame DEF Keeps
    <3>2. HistoryOK(x)
      BY <2>3, <2>7, <2>9, <2>10, <3>1 DEF HistoryOK, Keeps
    <3> QED BY <2>4, <2>8, <2>9, <2>11, <3>2
  <2>12. CASE t = recordLastEnvelope(x, st) /\ u.phase = "EXTERNALIZE"
    <3>1. Sendable(st) /\ st.type = "EXTERNALIZE"
      <4>1. st.type = "EXTERNALIZE"
        BY <2>12 DEF st, createStatement, Externalize
      <4> QED BY <1>1, <4>1, RankFields DEF Sendable, IsPrepare
    <3>2. x.stack = s.stack /\ x.stack # << >>
      BY <2>4, <2>12 DEF SameBook
    <3>3. /\ SameCore(x, t) /\ t.self = x.self /\ t.latest = x.latest
          /\ t.stack = x.stack /\ t.failure = x.failure
          /\ t.fullyValidated = x.fullyValidated
          /\ \/ /\ ~(Sendable(st) /\ isNewerStatement(x.lastEnvelope, st))
                /\ SameSent(x, t)
             \/ /\ Sendable(st) /\ isNewerStatement(x.lastEnvelope, st)
                /\ t.lastEnvelope = st
                /\ \/ /\ t.lastEnvelopeEmit = x.lastEnvelopeEmit /\ t.emitted = x.emitted
                      /\ x.stack # << >> \/ ~x.fullyValidated \/ st = x.lastEnvelopeEmit
                   \/ /\ x.stack = << >> /\ x.fullyValidated
                      /\ t.lastEnvelopeEmit = st /\ t.emitted = x.emitted \cup {st}
      BY SMTT(30), <1>1, <2>3, <2>12, recordFields DEF Keeps
    <3>4. t.lastEnvelopeEmit = x.lastEnvelopeEmit /\ t.emitted = x.emitted
      BY <3>2, <3>3 DEF SameSent
    <3>5. t.lastEnvelope = st
      <4>1. CASE isNewerStatement(x.lastEnvelope, st)
        BY <3>1, <3>3, <4>1
      <4>2. CASE ~isNewerStatement(x.lastEnvelope, st)
        <5>1. t.lastEnvelope = x.lastEnvelope
          BY <3>3, <4>2 DEF SameSent
        <5>2. x.lastEnvelope # NoStatement
          BY SMT, <1>1, <3>1, <4>2, RankFields DEF isNewerStatement, IsPrepare
        <5>3. x.lastEnvelope \in Made(x)
          BY <2>3, <5>2, MadeTypes DEF Keeps
        <5> QED BY <2>3, <2>6, <2>7, <4>2, <5>1, <5>3, OwnIsNewest DEF Keeps
      <4> QED BY <4>1, <4>2
    <3>6. Own(t) = st /\ Made(t) \subseteq Made(x) \cup {st}
      <4>1. Own(t) = st
        BY <2>6, <3>3 DEF Own
      <4>2. t.stack = x.stack
        BY <3>3
      <4>3. OwnHints(t) = OwnHints(x)
        BY <4>2 DEF OwnHints
      <4> QED BY <3>4, <3>5, <4>1, <4>3 DEF Made
    <3>7. ChainOK(t)
      BY <1>3, <2>3, <2>6, <2>7, <3>6, ChainGrows DEF Keeps
    <3>8. SentOK(t)
      BY <1>3, <2>3, <2>6, <2>7, <2>9, <3>1, <3>4, <3>5, SentAfter DEF Keeps
    <3>9. createStatement(t) = st /\ Consistent(t) /\ SameCore(u, t)
      BY <2>4, <2>5, <3>3 DEF createStatement, Consistent, SameCore
    <3>10. Advances(s, t) /\ SendsNothing(s, t)
      BY ZenonT(60), <2>2, <2>6, <2>8, <2>9, <3>3, <3>4, <3>6, <3>9 DEF Advances, SendsNothing
    <3>11. StackOK(t)
      <4>1. t.stack = s.stack /\ StackOK(s)
        BY <3>2, <3>3 DEF HistoryOK
      <4>2. Len(t.stack) # 0 /\ t.stack[1].didWork
        <5>1. s.stack \in Seq(Frames)
          BY DEF HistoryOK, SlotOK, SlotStates
        <5>2. Len(s.stack) # 0
          BY <3>2, <5>1, StackLength
        <5> QED BY <3>2, <4>1, <5>2 DEF Working
      <4> QED BY ZenonT(40), <3>5, <3>6, <4>1, <4>2 DEF StackOK
    <3> QED BY <1>3, <3>7, <3>8, <3>9, <3>6, <3>10, <3>11 DEF HistoryOK, SyncedOK
  <2> QED BY <1>7, <2>11, <2>12 DEF st, x
<1>8. \/ t \in {abort(u), [u EXCEPT !.failure = "badState"]}
      \/ t = u /\ checkInvariants(u) /\ st = Own(u)
      \/ /\ checkInvariants(u) /\ isNewerStatement(Own(u), st)
         /\ t = IF u.phase = "EXTERNALIZE" THEN recordLastEnvelope(x, st) ELSE x
  BY DEF emitCurrentStateStatement, Own, Acceptable
<1> QED BY <1>4, <1>5, <1>6, <1>7, <1>8

-----------------------------------------------------------------------------
(* The methods that change the state.                                      *)

\* A method leaves the state alone, or changes it and then fails an assertion
\* or emits the statement of the changed state.
Ends(u, t) ==
    t \in {abort(u), emitCurrentStateStatement(u),
           [emitCurrentStateStatement(u) EXCEPT !.timer = FALSE]}

Outcome(s, t) ==
    \/ t = s
    \/ \E u : /\ SlotOK(u) /\ SameBook(s, u) /\ CoreStep(s, u) /\ Ends(u, t)
              /\ u.phase = "EXTERNALIZE" => s.stack # << >>

-----------------------------------------------------------------------------
(* What a method does to the statements made.                              *)

LEMMA CoreStepTo ==
    ASSUME NEW s, NEW u, NEW t, CoreStep(s, u), SameCore(u, t)
    PROVE  CoreStep(s, t)
<1>0. /\ t.phase = u.phase /\ t.currentBallot = u.currentBallot
      /\ t.prepared = u.prepared /\ t.preparedPrime = u.preparedPrime
      /\ t.commit = u.commit /\ t.highBallot = u.highBallot
  BY DEF SameCore
<1>1. CASE SameCore(s, u)
  BY <1>0, <1>1 DEF CoreStep, SameCore
<1>2. CASE BumpStep(s, u)
  BY <1>0, <1>2 DEF CoreStep, BumpStep
<1>3. CASE AcceptPreparedStep(s, u)
  <2>1. \A c, v : StateAborts(u, c, v) => StateAborts(t, c, v)
    BY <1>0 DEF StateAborts
  <2> QED BY <1>0, <1>3, <2>1 DEF CoreStep, AcceptPreparedStep
<1>4. CASE ConfirmPreparedStep(s, u)
  BY <1>0, <1>4 DEF CoreStep, ConfirmPreparedStep
<1>5. CASE AcceptCommitStep(s, u)
  BY <1>0, <1>5 DEF CoreStep, AcceptCommitStep
<1>6. CASE ConfirmCommitStep(s, u)
  BY <1>0, <1>6 DEF CoreStep, ConfirmCommitStep
<1> QED BY <1>1, <1>2, <1>3, <1>4, <1>5, <1>6 DEF CoreStep

LEMMA CoreStepFrom ==
    ASSUME NEW s, NEW u, NEW t, SameCore(s, u), u.latest = s.latest, u.self = s.self,
           CoreStep(u, t)
    PROVE  CoreStep(s, t)
<1>0. /\ s.phase = u.phase /\ s.currentBallot = u.currentBallot
      /\ s.prepared = u.prepared /\ s.preparedPrime = u.preparedPrime
      /\ s.commit = u.commit /\ s.highBallot = u.highBallot
  BY DEF SameCore
<1>1. CASE SameCore(u, t)
  BY <1>0, <1>1 DEF CoreStep, SameCore
<1>2. CASE BumpStep(u, t)
  BY <1>0, <1>2 DEF CoreStep, BumpStep
<1>3. CASE AcceptPreparedStep(u, t)
  <2>1. \A c, v : StateAborts(s, c, v) => StateAborts(u, c, v)
    BY <1>0 DEF StateAborts
  <2>2. \A b : AcceptsPrepared(u, b) => AcceptsPrepared(s, b)
    BY SameVotes
  <2> QED BY <1>0, <1>3, <2>1, <2>2 DEF CoreStep, AcceptPreparedStep
<1>4. CASE ConfirmPreparedStep(u, t)
  <2>1. \A b : ConfirmsPrepared(u, b) => ConfirmsPrepared(s, b)
    BY SameVotes
  <2> QED BY <1>0, <1>4, <2>1 DEF CoreStep, ConfirmPreparedStep
<1>5. CASE AcceptCommitStep(u, t)
  <2>1. \A v, i, j : AcceptsCommit(u, v, i, j) => AcceptsCommit(s, v, i, j)
    BY SameVotes
  <2> QED BY <1>0, <1>5, <2>1 DEF CoreStep, AcceptCommitStep
<1>6. CASE ConfirmCommitStep(u, t)
  <2>1. \A v, i, j : ConfirmsCommit(u, v, i, j) => ConfirmsCommit(s, v, i, j)
    BY SameVotes
  <2> QED BY <1>0, <1>6, <2>1 DEF CoreStep, ConfirmCommitStep
<1> QED BY <1>1, <1>2, <1>3, <1>4, <1>5, <1>6 DEF CoreStep

LEMMA OutcomeHistory ==
    ASSUME NEW s, HistoryOK(s), s.failure = "none", Working(s), NEW t, Outcome(s, t)
    PROVE  HistoryOK(t) /\ Advances(s, t) /\ SendsNothing(s, t) /\ CoreStep(s, t)
<1>1. CASE t = s
  BY <1>1 DEF Advances, SendsNothing, CoreStep, SameCore
<1>2. CASE t # s
  <2>1. PICK u : /\ SlotOK(u) /\ SameBook(s, u) /\ CoreStep(s, u) /\ Ends(u, t)
                 /\ u.phase = "EXTERNALIZE" => s.stack # << >>
    BY <1>2 DEF Outcome
  <2> SUFFICES HistoryOK(t) /\ Advances(s, t) /\ SendsNothing(s, t) /\ SameCore(u, t)
    BY <2>1, CoreStepTo
  <2>2. CASE t = abort(u)
    BY <2>1, <2>2, FailedHistory
  <2> DEFINE x == emitCurrentStateStatement(u)
  <2>3. SlotOK(s) /\ SyncedOK(s)
    BY DEF HistoryOK
  <2>4. /\ checkInvariants(u) /\ Own(s) # NoStatement
        /\ isNewerStatement(Own(s), createStatement(u))
        => Follows(Own(s), createStatement(u))
    <3> SUFFICES ASSUME checkInvariants(u), Own(s) # NoStatement,
                        isNewerStatement(Own(s), createStatement(u))
                 PROVE  Follows(Own(s), createStatement(u))
      OBVIOUS
    <3> DEFINE a == createStatement(s)
               z == createStatement(u)
    <3>1. Own(s) = a /\ Consistent(s)
      BY <2>3 DEF SyncedOK
    <3>2. Consistent(u) /\ isNewerStatement(a, z)
      BY <2>1, <3>1, CreatedIsSound
    <3> HIDE DEF a, z
    <3>3. Follows(a, z)
      BY <2>1, <2>3, <3>1, <3>2, StepFollows DEF a, z
    <3> QED BY <3>1, <3>3 DEF z
  <2>5. HistoryOK(x) /\ Advances(s, x) /\ SendsNothing(s, x) /\ SameCore(u, x)
    <3> HIDE DEF x
    <3> QED BY <2>1, <2>4, emitHistory DEF x
  <2>6. CASE t = x
    BY <2>5, <2>6
  <2>7. CASE t = [x EXCEPT !.timer = FALSE]
    <3> HIDE DEF x
    <3> DEFINE y == [x EXCEPT !.timer = FALSE]
    <3>1. SlotOK(x)
      BY <2>5 DEF HistoryOK
    <3>2. SlotOK(y) /\ SameBook(x, y) /\ SameCore(x, y)
      BY <3>1 DEF SlotOK, SlotStates, SameBook, SameCore
    <3> HIDE DEF y
    <3>3. HistoryOK(y)
      BY <2>5, <3>2, SameKeepsHistory
    <3>4. Own(y) = Own(x) /\ Made(y) = Made(x)
      BY <3>2, SameMade DEF SameBook
    <3>5. createStatement(y) = createStatement(x) /\ (Consistent(x) => Consistent(y))
      BY <3>2 DEF createStatement, Consistent, SameCore
    <3>6. Advances(s, y)
      BY <2>5, <3>2, <3>4, <3>5 DEF Advances, SameBook
    <3>7. SendsNothing(s, y) /\ SameCore(u, y)
      BY <2>5, <3>2 DEF SendsNothing, SameBook, SameCore
    <3> QED BY <2>7, <3>3, <3>6, <3>7 DEF y
  <2> QED BY <2>1, <2>2, <2>6, <2>7 DEF Ends
<1> QED BY <1>1, <1>2

-----------------------------------------------------------------------------
(* advanceSlot.                                                            *)

\* A call notes that its attempt does work.
LEMMA CallingHistory ==
    ASSUME NEW s, HistoryOK(s), s.failure = "none", s.stack # << >>, NEW k \in 1..5,
           NEW t, t = Calling(s, k)
    PROVE  /\ HistoryOK(t) /\ Working(t) /\ SameCore(s, t) /\ SameSent(s, t)
           /\ t.latest = s.latest /\ t.fullyValidated = s.fullyValidated
           /\ t.failure = s.failure /\ t.stack # << >> /\ Own(t) = Own(s) /\ Made(t) = Made(s)
<1> DEFINE p == IF k = 5 THEN 5 ELSE k + 1
           f == [s.stack[1] EXCEPT !.pc = p, !.didWork = TRUE]
           q == [s.stack EXCEPT ![1] = f]
<1>0. SlotOK(s) /\ ChainOK(s) /\ SentOK(s) /\ SyncedOK(s) /\ StackOK(s)
  BY DEF HistoryOK
<1>1. s.stack \in Seq(Frames) /\ s.stack[1] \in Frames /\ 1 \in 1..Len(s.stack)
      /\ Len(s.stack) \in Nat
  BY SMT, <1>0, PopFrame, StackLength DEF SlotOK, SlotStates
<1>2. p \in 1..5
  BY SMT
<1>3. t = [s EXCEPT !.stack = q]
  BY ZenonT(60), <1>0, <1>1 DEF Calling, SlotOK, SlotStates
<1> HIDE DEF p
<1>4. f \in Frames /\ f.own = s.stack[1].own /\ f.hint = s.stack[1].hint /\ f.didWork
  BY <1>1, <1>2 DEF Frames
<1> HIDE DEF f
<1>5. /\ q \in Seq(Frames) /\ Len(q) = Len(s.stack)
      /\ \A j \in 1..Len(s.stack) : q[j] = IF j = 1 THEN f ELSE s.stack[j]
  BY <1>1, <1>4, StackUpdate
<1> HIDE DEF q
<1>6. /\ SameCore(s, t) /\ SameSent(s, t) /\ t.latest = s.latest
      /\ t.fullyValidated = s.fullyValidated /\ t.failure = s.failure /\ t.stack = q
  BY <1>0, <1>3 DEF SlotOK, SlotStates, SameCore, SameSent
<1>7. SlotOK(t)
  BY <1>0, CallingKeeps DEF Keeps
<1>8. q[1] = f /\ q # << >>
  BY <1>1, <1>5, StackLength
<1>9. \A j \in 1..Len(s.stack) : q[j].own = s.stack[j].own /\ q[j].hint = s.stack[j].hint
  BY <1>4, <1>5
<1>10. OwnHints(t) = OwnHints(s)
  <2> DEFINE o(r) == {j \in 1..Len(r) : r[j].own}
  <2>1. o(q) = o(s.stack)
    BY <1>5, <1>9
  <2>2. \A j \in o(q) : q[j].hint = s.stack[j].hint
    BY <1>5, <1>9
  <2>3. OwnHints(t) = {q[j].hint : j \in o(q)} /\ OwnHints(s) = {s.stack[j].hint : j \in o(s.stack)}
    BY <1>6 DEF OwnHints
  <2> HIDE DEF o
  <2> QED BY SMT, <2>1, <2>2, <2>3
<1>11. Own(t) = Own(s) /\ Made(t) = Made(s)
  BY <1>6, <1>10 DEF Own, Made, SameSent
<1>12. ChainOK(t) /\ SentOK(t) /\ SyncedOK(t)
  BY <1>0, <1>6, <1>11, RestOfSent, SameSynced DEF ChainOK
<1>13. StackOK(t)
  <2>1. ASSUME NEW i \in 1..(Len(t.stack) - 1) PROVE t.stack[i].own
    <3>1. i \in 1..(Len(s.stack) - 1) /\ i \in 1..Len(s.stack)
      BY SMT, <1>1, <1>5, <1>6
    <3> QED BY <1>0, <1>6, <1>9, <3>1 DEF StackOK
  <2>2. ASSUME NEW i \in 2..Len(t.stack) PROVE t.stack[i].didWork
    <3>1. i \in 2..Len(s.stack) /\ i \in 1..Len(s.stack) /\ i # 1
      BY SMT, <1>1, <1>5, <1>6
    <3> QED BY <1>0, <1>5, <1>6, <3>1 DEF StackOK
  <2>3. \/ t.lastEnvelope = Own(t) \/ ~Sendable(Own(t))
        \/ t.stack # << >> /\ t.stack[1].own /\ t.stack[1].hint = Own(t)
    BY <1>0, <1>4, <1>6, <1>8, <1>11 DEF StackOK, SameSent
  <2>4. t.fullyValidated /\ Len(t.stack) <= 1 =>
            t.lastEnvelope \in {t.lastEnvelopeEmit, Own(t)}
    BY <1>0, <1>5, <1>6, <1>11 DEF StackOK, SameSent
  <2>5. Len(t.stack) # 0 /\ t.stack[1].didWork
    BY SMT, <1>1, <1>4, <1>5, <1>6, <1>8
  <2> QED BY <2>1, <2>2, <2>3, <2>4, <2>5 DEF StackOK
<1>14. Working(t)
  BY <1>4, <1>6, <1>8 DEF Working
<1> QED BY <1>6, <1>7, <1>8, <1>11, <1>12, <1>13, <1>14 DEF HistoryOK

\* As long as the latest statement cannot be sent, none was.
LEMMA NothingSendable ==
    ASSUME NEW s, SlotOK(s), ChainOK(s), SentOK(s), ~Sendable(Own(s))
    PROVE  s.lastEnvelope = NoStatement /\ s.lastEnvelopeEmit = NoStatement
<1>1. \A a \in Made(s) : ~Sendable(a)
  BY OwnIsNewest
<1>2. s.lastEnvelope = NoStatement
  BY <1>1, MadeTypes DEF SentOK
<1>3. s.lastEnvelopeEmit = NoStatement
  BY <1>1, MadeTypes DEF SentOK
<1> QED BY <1>2, <1>3

\* What is not recorded cannot have been sent.
LEMMA NothingRecorded ==
    ASSUME NEW s, SlotOK(s), SentOK(s), s.lastEnvelope = NoStatement
    PROVE  s.lastEnvelopeEmit = NoStatement
<1> DEFINE e == s.lastEnvelopeEmit
<1>1. e = NoStatement \/ isNewerStatement(e, NoStatement)
  BY DEF SentOK, Follows
<1>2. e \in Statements \cup {NoStatement}
  BY MadeTypes
<1> HIDE DEF e
<1>3. e = NoStatement
  BY SMT, <1>1, <1>2, RankFields DEF isNewerStatement, NoStatement
<1> QED BY <1>3 DEF e

\* The latest statement is what the returning call records.
LEMMA RecordsLatest ==
    ASSUME NEW s, SlotOK(s), ChainOK(s), SentOK(s), StackOK(s), s.stack # << >>
    PROVE  LET f == s.stack[1]
               records == f.own /\ Sendable(f.hint) /\ isNewerStatement(s.lastEnvelope, f.hint)
           IN  /\ records => f.hint = Own(s)
               /\ ~records => s.lastEnvelope = Own(s) \/ ~Sendable(Own(s))
<1> DEFINE f == s.stack[1]
<1>1. 1 \in 1..Len(s.stack)
  BY SMT, StackLength DEF SlotOK, SlotStates
<1>2. f.own => f.hint \in Made(s)
  BY <1>1, MadeTypes
<1> HIDE DEF f
<1>3. ASSUME f.own, Sendable(f.hint), isNewerStatement(s.lastEnvelope, f.hint)
      PROVE  f.hint = Own(s)
  <2>1. s.lastEnvelope # Own(s) /\ Sendable(Own(s))
    BY <1>2, <1>3, OwnIsNewest
  <2> QED BY <2>1 DEF StackOK, f
<1>4. ASSUME ~(f.own /\ Sendable(f.hint) /\ isNewerStatement(s.lastEnvelope, f.hint)),
             s.lastEnvelope # Own(s), Sendable(Own(s))
      PROVE  FALSE
  <2>1. f.own /\ f.hint = Own(s)
    BY <1>4 DEF StackOK, f
  <2>2. ~isNewerStatement(s.lastEnvelope, Own(s)) /\ Own(s) \in Made(s)
    BY <1>2, <1>4, <2>1
  <2>3. s.lastEnvelope = NoStatement
    BY <1>4, <2>2, MadeTypes, OwnIsNewest
  <2>4. Own(s) \in Statements
    BY <2>2, OwnIsNewest
  <2> DEFINE o == Own(s)
  <2> HIDE DEF o
  <2>5. isNewerStatement(NoStatement, o)
    BY SMT, <2>4, RankFields DEF isNewerStatement, NoStatement, o
  <2> QED BY <2>2, <2>3, <2>5 DEF o
<1> QED BY <1>3, <1>4 DEF f

\* The state once the frame of the returning call is gone.
LEMMA PopFields ==
    ASSUME NEW s, SlotOK(s), s.stack # << >>, NEW p, p = [s EXCEPT !.stack = Tail(@)]
    PROVE  /\ SlotOK(p) /\ SameCore(s, p) /\ SameSent(s, p) /\ p.latest = s.latest
           /\ p.fullyValidated = s.fullyValidated /\ p.failure = s.failure
           /\ Len(s.stack) \in Nat \ {0} /\ Len(p.stack) = Len(s.stack) - 1
           /\ \A i \in 1..Len(p.stack) : p.stack[i] = s.stack[i + 1] /\ i + 1 \in 2..Len(s.stack)
           /\ p.stack = << >> <=> Len(s.stack) = 1
           /\ OwnHints(p) \subseteq OwnHints(s)
<1>1. s.stack \in Seq(Frames) /\ Len(s.stack) \in Nat \ {0}
  BY StackLength DEF SlotOK, SlotStates
<1>2. /\ SameCore(s, p) /\ SameSent(s, p) /\ p.latest = s.latest
      /\ p.fullyValidated = s.fullyValidated /\ p.failure = s.failure /\ p.stack = Tail(s.stack)
  BY DEF SlotOK, SlotStates, SameCore, SameSent
<1>3. SlotOK(p)
  BY PopFrame DEF Keeps
<1>4. /\ p.stack \in Seq(Frames) /\ Len(p.stack) = Len(s.stack) - 1
      /\ \A i \in 1..Len(p.stack) : p.stack[i] = s.stack[i + 1]
  BY <1>1, <1>2, StackPop
<1>5. \A i \in 1..Len(p.stack) : i + 1 \in 2..Len(s.stack) /\ i + 1 \in 1..Len(s.stack)
  BY SMT, <1>1, <1>4
<1>6. p.stack = << >> <=> Len(s.stack) = 1
  <2>1. p.stack = << >> <=> Len(p.stack) = 0
    BY <1>4, StackLength
  <2>2. Len(p.stack) = 0 <=> Len(s.stack) = 1
    BY SMT, <1>1, <1>4
  <2> QED BY <2>1, <2>2
<1>7. OwnHints(p) \subseteq OwnHints(s)
  <2>1. ASSUME NEW i \in 1..Len(p.stack), p.stack[i].own
        PROVE  p.stack[i].hint \in OwnHints(s)
    <3> DEFINE j == i + 1
    <3>1. j \in 1..Len(s.stack) /\ p.stack[i] = s.stack[j]
      BY <1>4, <1>5
    <3> HIDE DEF j
    <3> QED BY <2>1, <3>1 DEF OwnHints
  <2> QED BY <2>1 DEF OwnHints
<1> QED BY <1>1, <1>2, <1>3, <1>4, <1>5, <1>6, <1>7

\* What a returning call records and sends; p is the state without its frame.
Returned(s, p, t) ==
    /\ SameCore(s, t) /\ t.self = s.self /\ t.latest = s.latest
    /\ t.fullyValidated = s.fullyValidated /\ t.failure = s.failure
    /\ t.stack = p.stack
    /\ t.lastEnvelope \in {s.lastEnvelope, Own(s)}
    /\ t.lastEnvelope # s.lastEnvelope => Sendable(Own(s))
    /\ t.lastEnvelope = Own(s) \/ ~Sendable(Own(s))
    /\ SendsNothing(s, t) \/ (p.stack = << >> /\ SendsLatest(s, t))
    /\ t.fullyValidated /\ p.stack = << >> => t.lastEnvelope = t.lastEnvelopeEmit

LEMMA returnFields ==
    ASSUME NEW s, HistoryOK(s), s.failure = "none", s.stack # << >>,
           NEW p, p = [s EXCEPT !.stack = Tail(@)], NEW t, t = returnFromAdvanceSlot(s)
    PROVE  Returned(s, p, t)
<1> DEFINE f == s.stack[1]
           u == IF f.didWork THEN sendLatestEnvelope(p) ELSE p
<1>0. SlotOK(s) /\ ChainOK(s) /\ SentOK(s) /\ SyncedOK(s) /\ StackOK(s)
  BY DEF HistoryOK
<1>1. /\ SlotOK(p) /\ SameCore(s, p) /\ SameSent(s, p) /\ p.latest = s.latest
      /\ p.fullyValidated = s.fullyValidated /\ p.failure = s.failure
      /\ Len(s.stack) \in Nat \ {0}
      /\ p.stack = << >> <=> Len(s.stack) = 1
  BY <1>0, PopFields
<1>2. f \in Frames /\ f.hint \in Statements /\ (f.own => StatementOK(f.hint))
  <2>1. f \in Frames /\ (f.own => StatementOK(f.hint))
    BY <1>0, PopFrame
  <2> QED BY <2>1 DEF Frames
<1>3. t = IF f.own THEN recordLastEnvelope(u, f.hint) ELSE u
  BY DEF returnFromAdvanceSlot
<1>4. LET records == f.own /\ Sendable(f.hint) /\ isNewerStatement(s.lastEnvelope, f.hint)
      IN  /\ records => f.hint = Own(s)
          /\ ~records => s.lastEnvelope = Own(s) \/ ~Sendable(Own(s))
  BY <1>0, RecordsLatest
<1>5. ~Sendable(Own(s)) => s.lastEnvelope = NoStatement /\ s.lastEnvelopeEmit = NoStatement
  BY <1>0, NothingSendable
<1>6. SlotOK(u)
  BY <1>1, sendLatestEnvelopeKeeps DEF Keeps
<1>7. /\ SameCore(s, u) /\ u.self = s.self /\ u.latest = s.latest
      /\ u.stack = p.stack /\ u.failure = s.failure
      /\ u.fullyValidated = s.fullyValidated /\ u.lastEnvelope = s.lastEnvelope
      /\ \/ /\ SendsNothing(s, u)
            /\ s.fullyValidated /\ p.stack = << >> => s.lastEnvelope = s.lastEnvelopeEmit
         \/ p.stack = << >> /\ SendsLatest(s, u)
  <2>1. CASE ~f.didWork
    <3>1. u = p
      BY <2>1
    <3> HIDE DEF u
    <3>2. s.fullyValidated /\ p.stack = << >> => s.lastEnvelope = s.lastEnvelopeEmit
      BY <1>0, <1>1, <2>1 DEF StackOK
    <3> QED BY <1>1, <3>1, <3>2 DEF SendsNothing, SameSent
  <2>2. CASE f.didWork
    <3>1. u = sendLatestEnvelope(p)
      BY <2>2
    <3> HIDE DEF u
    <3>2. /\ SameCore(p, u) /\ u.self = p.self /\ u.latest = p.latest
          /\ u.stack = p.stack /\ u.failure = p.failure
          /\ u.fullyValidated = p.fullyValidated /\ u.lastEnvelope = p.lastEnvelope
          /\ \/ /\ u.lastEnvelopeEmit = p.lastEnvelopeEmit /\ u.emitted = p.emitted
                /\ \/ p.stack # << >> \/ ~p.fullyValidated
                   \/ p.lastEnvelope \in {NoStatement, p.lastEnvelopeEmit}
             \/ /\ p.stack = << >> /\ p.lastEnvelope # NoStatement
                /\ p.fullyValidated /\ p.lastEnvelope # p.lastEnvelopeEmit
                /\ u.lastEnvelopeEmit = p.lastEnvelope
                /\ u.emitted = p.emitted \cup {p.lastEnvelope}
      <4>1. SlotOK(p) /\ u = sendLatestEnvelope(p)
        BY <1>1, <3>1
      <4> QED BY ONLY <4>1, sendFields
    <3>3. /\ SameCore(s, u) /\ u.self = s.self /\ u.latest = s.latest
          /\ u.stack = p.stack /\ u.failure = s.failure
          /\ u.fullyValidated = s.fullyValidated /\ u.lastEnvelope = s.lastEnvelope
      BY SMT, <1>1, <3>2 DEF SameCore, SameSent
    <3>4. CASE /\ u.lastEnvelopeEmit = p.lastEnvelopeEmit /\ u.emitted = p.emitted
               /\ \/ p.stack # << >> \/ ~p.fullyValidated
                  \/ p.lastEnvelope \in {NoStatement, p.lastEnvelopeEmit}
      <4>1. s.fullyValidated /\ p.stack = << >> => s.lastEnvelope = s.lastEnvelopeEmit
        BY <1>0, <1>1, <3>4, NothingRecorded DEF SameSent
      <4>2. SendsNothing(s, u)
        BY <1>1, <3>4 DEF SendsNothing, SameSent
      <4> QED BY <3>3, <4>1, <4>2
    <3>5. CASE /\ p.stack = << >> /\ p.lastEnvelope # NoStatement
               /\ p.fullyValidated /\ p.lastEnvelope # p.lastEnvelopeEmit
               /\ u.lastEnvelopeEmit = p.lastEnvelope
               /\ u.emitted = p.emitted \cup {p.lastEnvelope}
      <4>1. s.fullyValidated /\ Len(s.stack) = 1 /\ s.lastEnvelope # s.lastEnvelopeEmit
            /\ s.lastEnvelope # NoStatement
        BY <1>1, <3>5 DEF SameSent
      <4>2. Len(s.stack) <= 1
        BY SMT, <4>1
      <4>3. s.lastEnvelope = Own(s) /\ Sendable(Own(s))
        BY <1>0, <4>1, <4>2 DEF StackOK, SentOK
      <4>4. SendsLatest(s, u)
        BY <1>1, <3>3, <3>5, <4>3 DEF SendsLatest, SameSent
      <4> QED BY <3>3, <3>5, <4>4
    <3> QED BY <3>2, <3>4, <3>5
  <2> QED BY <2>1, <2>2
<1> HIDE DEF u, f
<1>8. CASE ~f.own
  <2>1. t = u
    BY <1>3, <1>8
  <2>2. s.lastEnvelope = Own(s) \/ ~Sendable(Own(s))
    BY <1>4, <1>8
  <2>3. t.fullyValidated /\ p.stack = << >> => t.lastEnvelope = t.lastEnvelopeEmit
    BY <1>7, <2>1 DEF SendsNothing, SendsLatest
  <2> QED BY <1>7, <2>1, <2>2, <2>3 DEF Returned
<1>9. CASE f.own
  <2>1. t = recordLastEnvelope(u, f.hint)
    BY <1>3, <1>9
  <2> DEFINE h == f.hint
  <2>2. h \in Statements /\ StatementOK(h) /\ t = recordLastEnvelope(u, h)
    BY <1>2, <1>9, <2>1
  <2> HIDE DEF h
  <2>3. /\ SameCore(u, t) /\ t.self = u.self /\ t.latest = u.latest
        /\ t.stack = u.stack /\ t.failure = u.failure
        /\ t.fullyValidated = u.fullyValidated
        /\ \/ /\ ~(Sendable(h) /\ isNewerStatement(u.lastEnvelope, h))
              /\ SameSent(u, t)
           \/ /\ Sendable(h) /\ isNewerStatement(u.lastEnvelope, h)
              /\ t.lastEnvelope = h
              /\ \/ /\ t.lastEnvelopeEmit = u.lastEnvelopeEmit /\ t.emitted = u.emitted
                    /\ u.stack # << >> \/ ~u.fullyValidated \/ h = u.lastEnvelopeEmit
                 \/ /\ u.stack = << >> /\ u.fullyValidated
                    /\ t.lastEnvelopeEmit = h /\ t.emitted = u.emitted \cup {h}
    BY SMTT(30), <1>6, <2>2, recordFields
  <2>4. /\ SameCore(s, t) /\ t.self = s.self /\ t.latest = s.latest
        /\ t.stack = p.stack /\ t.failure = s.failure
        /\ t.fullyValidated = s.fullyValidated
    BY <1>7, <2>3 DEF SameCore
  <2>5. CASE ~(Sendable(h) /\ isNewerStatement(u.lastEnvelope, h)) /\ SameSent(u, t)
    <3>1. s.lastEnvelope = Own(s) \/ ~Sendable(Own(s))
      BY <1>4, <1>7, <2>5 DEF h
    <3>2. t.fullyValidated /\ p.stack = << >> => t.lastEnvelope = t.lastEnvelopeEmit
      BY <1>7, <2>4, <2>5 DEF SendsNothing, SendsLatest, SameSent
    <3>3. SendsNothing(s, t) \/ (p.stack = << >> /\ SendsLatest(s, t))
      BY <1>7, <2>5 DEF SendsNothing, SendsLatest, SameSent
    <3>4. t.lastEnvelope = s.lastEnvelope
      BY <1>7, <2>5 DEF SameSent
    <3> QED BY <2>4, <3>1, <3>2, <3>3, <3>4 DEF Returned
  <2>6. CASE /\ Sendable(h) /\ isNewerStatement(u.lastEnvelope, h)
             /\ t.lastEnvelope = h
             /\ \/ /\ t.lastEnvelopeEmit = u.lastEnvelopeEmit /\ t.emitted = u.emitted
                   /\ u.stack # << >> \/ ~u.fullyValidated \/ h = u.lastEnvelopeEmit
                \/ /\ u.stack = << >> /\ u.fullyValidated
                   /\ t.lastEnvelopeEmit = h /\ t.emitted = u.emitted \cup {h}
    <3>1. h = Own(s) /\ isNewerStatement(s.lastEnvelope, Own(s))
      BY <1>4, <1>7, <1>9, <2>6 DEF h
    <3>2. s.lastEnvelope # Own(s)
      BY <2>2, <3>1, NewerAsymmetric
    <3>3. SendsNothing(s, u)
      BY <1>7, <3>2 DEF SendsLatest
    <3>4. SendsNothing(s, t) \/ (p.stack = << >> /\ SendsLatest(s, t))
      BY <1>7, <2>6, <3>1, <3>3 DEF SendsNothing, SendsLatest
    <3>5. t.fullyValidated /\ p.stack = << >> => t.lastEnvelope = t.lastEnvelopeEmit
      BY <1>7, <2>4, <2>6
    <3> QED BY <2>4, <2>6, <3>1, <3>4, <3>5 DEF Returned
  <2> QED BY <2>3, <2>5, <2>6
<1> QED BY <1>8, <1>9

LEMMA returnHistory ==
    ASSUME NEW s, HistoryOK(s), s.failure = "none", s.stack # << >>,
           NEW t, t = returnFromAdvanceSlot(s)
    PROVE  /\ HistoryOK(t) /\ Advances(s, t) /\ SameCore(s, t) /\ Own(t) = Own(s)
           /\ SendsNothing(s, t) \/ SendsLatest(s, t)
<1> DEFINE p == [s EXCEPT !.stack = Tail(@)]
<1>0. SlotOK(s) /\ ChainOK(s) /\ SentOK(s) /\ SyncedOK(s) /\ StackOK(s)
  BY DEF HistoryOK
<1>1. /\ Len(s.stack) \in Nat \ {0} /\ Len(p.stack) = Len(s.stack) - 1
      /\ \A i \in 1..Len(p.stack) : p.stack[i] = s.stack[i + 1] /\ i + 1 \in 2..Len(s.stack)
      /\ p.stack = << >> <=> Len(s.stack) = 1
      /\ OwnHints(p) \subseteq OwnHints(s)
  <2> HIDE DEF p
  <2> QED BY <1>0, PopFields DEF p
<1>2. /\ SameCore(s, t) /\ t.self = s.self /\ t.latest = s.latest
      /\ t.fullyValidated = s.fullyValidated /\ t.failure = s.failure
      /\ t.stack = p.stack
      /\ t.lastEnvelope \in {s.lastEnvelope, Own(s)}
      /\ t.lastEnvelope # s.lastEnvelope => Sendable(Own(s))
      /\ t.lastEnvelope = Own(s) \/ ~Sendable(Own(s))
      /\ SendsNothing(s, t) \/ (p.stack = << >> /\ SendsLatest(s, t))
      /\ t.fullyValidated /\ p.stack = << >> => t.lastEnvelope = t.lastEnvelopeEmit
  <2>1. Returned(s, p, t)
    BY returnFields
  <2> HIDE DEF p
  <2> QED BY <2>1 DEF Returned
<1> HIDE DEF p
<1>3. SlotOK(t)
  BY <1>0, returnFromAdvanceSlotKeeps DEF Keeps
<1>4. Own(t) = Own(s)
  BY <1>2 DEF Own
<1>5. Made(t) \subseteq Made(s)
  <2>1. OwnHints(t) \subseteq OwnHints(s)
    <3>1. OwnHints(t) = OwnHints(p)
      BY ONLY <1>2, SMT DEF OwnHints
    <3> QED BY <1>1, <3>1
  <2>2. t.emitted \subseteq s.emitted \cup {Own(s)}
    BY <1>2 DEF SendsNothing, SendsLatest
  <2>3. t.lastEnvelope \in {s.lastEnvelope, Own(s)}
    BY <1>2
  <2> QED BY <1>4, <2>1, <2>2, <2>3 DEF Made
<1>6. ChainOK(t)
  BY <1>0, <1>3, <1>4, <1>5, ChainGrows
<1>7. SentOK(t)
  <2>1. t.lastEnvelope = s.lastEnvelope \/ (t.lastEnvelope = Own(s) /\ Sendable(Own(s)))
    BY <1>2
  <2>2. \/ t.lastEnvelopeEmit = s.lastEnvelopeEmit /\ t.emitted = s.emitted
        \/ /\ t.lastEnvelope = Own(s) /\ t.lastEnvelopeEmit = Own(s) /\ Sendable(Own(s))
           /\ t.emitted = s.emitted \cup {Own(s)}
    BY <1>2 DEF SendsNothing, SendsLatest
  <2> QED BY <1>0, <1>3, <2>1, <2>2, SentAfter
<1>8. SyncedOK(t)
  BY <1>0, <1>2, <1>4, SameSynced
<1>9. StackOK(t)
  <2>1. ASSUME NEW i \in 1..(Len(t.stack) - 1) PROVE t.stack[i].own
    <3>1. i \in 1..Len(p.stack) /\ i + 1 \in 1..(Len(s.stack) - 1)
      BY SMT, <1>1, <1>2
    <3> QED BY <1>0, <1>1, <1>2, <3>1 DEF StackOK
  <2>2. \A i \in 1..Len(p.stack) : p.stack[i].didWork
    BY <1>0, <1>1 DEF StackOK
  <2>3. ASSUME NEW i \in 2..Len(t.stack) PROVE t.stack[i].didWork
    <3>1. i \in 1..Len(p.stack)
      BY SMT, <1>1, <1>2
    <3> QED BY <1>2, <2>2, <3>1
  <2>4. Len(t.stack) = 1 => t.stack[1].didWork
    <3>1. Len(t.stack) = 1 => 1 \in 1..Len(p.stack)
      BY SMT, <1>2
    <3> QED BY <1>2, <2>2, <3>1
  <2>5. Len(t.stack) = 0 <=> p.stack = << >>
    <3>1. Len(t.stack) = 0 <=> Len(s.stack) = 1
      BY SMT, <1>1, <1>2
    <3> QED BY <1>1, <3>1
  <2>6. t.fullyValidated => t.lastEnvelope \in {t.lastEnvelopeEmit, Own(t)}
    <3>1. CASE t.lastEnvelope = Own(s)
      BY <1>4, <3>1
    <3>2. CASE ~Sendable(Own(s))
      <4>1. s.lastEnvelope = NoStatement /\ s.lastEnvelopeEmit = NoStatement
        BY <1>0, <3>2, NothingSendable
      <4> QED BY <1>2, <3>2, <4>1 DEF SendsNothing, SendsLatest
    <3> QED BY <1>2, <3>1, <3>2
  <2> QED BY <1>2, <1>4, <2>1, <2>3, <2>4, <2>5, <2>6 DEF StackOK
<1>10. Advances(s, t)
  BY <1>2, <1>4, <1>5 DEF Advances
<1> QED BY <1>2, <1>3, <1>4, <1>6, <1>7, <1>8, <1>9, <1>10 DEF HistoryOK

\* An attempt made by a call that has noted it.
LEMMA AttemptHistory ==
    ASSUME NEW s, HistoryOK(s), s.failure = "none", s.stack # << >>, NEW k \in 1..5,
           NEW c, c = Calling(s, k), NEW t, Outcome(c, t)
    PROVE  HistoryOK(t) /\ Advances(s, t) /\ Step(s, t)
<1>1. /\ HistoryOK(c) /\ Working(c) /\ SameCore(s, c) /\ SameSent(s, c)
      /\ c.latest = s.latest /\ c.fullyValidated = s.fullyValidated
      /\ c.failure = s.failure /\ c.stack # << >> /\ Own(c) = Own(s) /\ Made(c) = Made(s)
  BY ONLY HistoryOK(s), s.failure = "none", s.stack # << >>, k \in 1..5,
          c = Calling(s, k), CallingHistory
<1>2. HistoryOK(t) /\ Advances(c, t) /\ SendsNothing(c, t) /\ CoreStep(c, t)
  BY <1>1, OutcomeHistory
<1>3. CoreStep(s, t)
  BY <1>1, <1>2, CoreStepFrom DEF SameSent
<1>4. Advances(s, t)
  BY <1>1, <1>2 DEF Advances, SameSent
<1>5. SendsNothing(s, t)
  BY <1>1, <1>2 DEF SendsNothing, SameSent
<1> QED BY <1>2, <1>3, <1>4, <1>5 DEF Step

-----------------------------------------------------------------------------
(* The other events.                                                       *)

LEMMA receiveHistory ==
    ASSUME NEW s, HistoryOK(s), Idle(s), NEW m \in Node, m # s.self, NEW st \in Statements,
           NEW t, t = processEnvelope(s, m, st)
    PROVE  HistoryOK(t) /\ Receives(s, t, m, st)
<1>0. SlotOK(s) /\ ChainOK(s) /\ SentOK(s) /\ SyncedOK(s) /\ StackOK(s)
      /\ s.stack = << >> /\ s.failure = "none"
  BY DEF HistoryOK, Idle
<1>1. /\ SameCore(s, t) /\ SameSent(s, t)
      /\ t.latest = [s.latest EXCEPT ![m] = st]
      /\ t.fullyValidated => s.fullyValidated
      /\ \/ s.phase = "EXTERNALIZE" /\ t.failure = s.failure /\ t.stack = s.stack
         \/ t.failure = "maxTransitions" /\ t.stack = s.stack
         \/ /\ s.phase # "EXTERNALIZE" /\ t.failure = s.failure
            /\ IsPush(t.stack, s.stack, FrameFor(s, m, st))
  BY SMT, <1>0, processFields
<1>2. SlotOK(t)
  <2>1. Keeps(s, t)
    BY <1>0, processEnvelopeKeeps
  <2> QED BY <2>1 DEF Keeps
<1>3. s.self \in Node /\ s.latest \in [Node -> Statements \cup {NoStatement}]
  BY <1>0 DEF SlotOK, SlotStates
<1>4. Own(t) = Own(s)
  <2>1. t.self = s.self
    BY <1>1 DEF SameSent
  <2> QED BY SMT, <1>1, <1>3, <2>1 DEF Own
<1> DEFINE f == FrameFor(s, m, st)
<1>5. f \in Frames /\ ~f.own /\ ~f.didWork
  BY SMT, FrameForType
<1> HIDE DEF f
<1>6. Len(s.stack) = 0 /\ Len(s.stack) <= 1
  BY SMT, <1>0
<1>7. \/ t.stack = << >> /\ Len(t.stack) = 0
      \/ Len(t.stack) = 1 /\ t.stack[1] = f
  <2>1. CASE t.stack = s.stack
    BY <1>0, <1>6, <2>1
  <2>2. CASE IsPush(t.stack, s.stack, f)
    <3>1. Len(t.stack) = 1 + Len(s.stack) /\ t.stack[1] = f
      BY <2>2 DEF IsPush
    <3>2. Len(t.stack) = 1
      BY SMT, <1>6, <3>1
    <3> QED BY <3>1, <3>2
  <2> QED BY <1>1, <2>1, <2>2 DEF f
<1> DEFINE k == Len(t.stack)
<1>8. k \in {0, 1}
  BY <1>7
<1> HIDE DEF k
<1>9. /\ \A i \in 1..k : i = 1 /\ k # 0
      /\ \A i \in 1..(k - 1) : FALSE
      /\ \A i \in 2..k : FALSE
  BY SMT, <1>8
<1>10. OwnHints(t) = {} /\ OwnHints(s) = {}
  <2>1. \A i \in 1..Len(s.stack) : FALSE
    BY SMT, <1>6
  <2>2. \A i \in 1..Len(t.stack) : i = 1 /\ Len(t.stack) # 0
    BY <1>9 DEF k
  <2>3. \A i \in 1..Len(t.stack) : ~t.stack[i].own
    BY <1>5, <1>7, <2>2
  <2> QED BY <2>1, <2>3 DEF OwnHints
<1>11. Made(t) = Made(s)
  BY <1>1, <1>4, <1>10 DEF Made, SameSent
<1>12. ChainOK(t) /\ SentOK(t) /\ SyncedOK(t)
  BY <1>0, <1>1, <1>4, <1>11, RestOfSent, SameSynced DEF ChainOK
<1>13. StackOK(t)
  <2>1. \A i \in 1..(Len(t.stack) - 1) : FALSE
    BY ONLY <1>9 DEF k
  <2>2. \A i \in 2..Len(t.stack) : FALSE
    BY ONLY <1>9 DEF k
  <2>3. t.lastEnvelope = Own(t) \/ ~Sendable(Own(t))
    BY <1>0, <1>1, <1>4 DEF StackOK, SameSent
  <2>4. t.fullyValidated => t.lastEnvelope = t.lastEnvelopeEmit
    BY <1>0, <1>1, <1>6 DEF StackOK, SameSent
  <2> QED BY <2>1, <2>2, <2>3, <2>4 DEF StackOK
<1> QED BY <1>1, <1>2, <1>4, <1>11, <1>12, <1>13 DEF HistoryOK, Receives

=============================================================================
