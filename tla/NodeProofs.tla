----------------------------- MODULE NodeProofs -----------------------------
(***************************************************************************)
(* Proofs about what a node nominates (NominationProtocol) and how it      *)
(* catches up (Catchup), for all values of the constants.                  *)
(*                                                                         *)
(* The parts share no state; each section has an invariant of its own and  *)
(* ends with the theorems about its part.                                  *)
(***************************************************************************)
EXTENDS NominationProtocol, Catchup, TLAPS

(***************************************************************************)
(* NominationProtocol: candidates stay backed by a quorum, and nomination  *)
(* implements the source of composite values the ballot protocol is        *)
(* specified against, for any nodes, quorum sets, values, rounds and       *)
(* number of restarts.                                                     *)
(*                                                                         *)
(* Local is what holds of one node whatever the others do, and is proved   *)
(* function by function along the calls of processEnvelope and nominate.   *)
(* NominationInv adds that what a node has recorded of another one was     *)
(* sent by it.                                                             *)
(***************************************************************************)

(* The state of a node, and what holds of it in one life.                  *)

Statements == [votes : SUBSET Value, accepted : SUBSET Value]

Frames == [st : Statements, entered : BOOLEAN, combine : BOOLEAN]

Composite(K) == IF K = {} THEN NoValue ELSE CombineCandidates[K]

Composites == {Composite(K) : K \in SUBSET Value}

States ==
    [self : Node, round : 0 .. MaxRound, votes : SUBSET Value, accepted : SUBSET Value,
     candidates : SUBSET Value, latest : [Node -> Statements], lastEnvelope : Statements,
     leaders : SUBSET Node, started : BOOLEAN, timer : BOOLEAN, composite : Composites,
     stack : Seq(Frames), failure : BOOLEAN, emitted : SUBSET Statements, lives : Nat]

\* The frames of the stack emit what the node accepts, and combine what
\* candidates there are.
FrameOK(s, f) == f.st.accepted \subseteq s.accepted /\ (f.combine => s.candidates # {})

StackOK(s) == \A i \in 1 .. Len(s.stack) : FrameOK(s, s.stack[i])

\* What the node said is what it accepts, or less.
SaidOK(s) ==
    /\ s.latest[s.self].accepted \subseteq s.accepted
    /\ s.lastEnvelope.accepted \subseteq s.accepted
    /\ \A st \in s.emitted : st.accepted \subseteq s.lastEnvelope.accepted

BackedBy(s, v) == isQuorum(Slices[s.self], Slices, Accepts(s, v))

CandidatesOK(s) ==
    /\ \A v \in s.candidates : BackedBy(s, v)
    /\ \E K \in SUBSET s.candidates : s.composite = Composite(K)

LeadersOK(s) == s.leaders # {} => s.round # 0

Local(s) == s \in States /\ StackOK(s) /\ SaidOK(s) /\ CandidatesOK(s) /\ LeadersOK(s)

(* The functions of the class.                                             *)

\* What a function leaves alone; the composite takes an allowed step.
Kept(t, s) ==
    /\ t.self = s.self /\ t.emitted = s.emitted /\ t.latest = s.latest
    /\ t.candidates # {} \/ t.candidates = s.candidates
    /\ t.composite = s.composite \/ <<s.composite, t.composite>> \in CandidateSteps[s.self]

\* What processing a statement of m leaves alone.
Processed(t, s, m, st) ==
    /\ t.self = s.self /\ t.emitted = s.emitted
    /\ \A k \in Node : t.latest[k] = s.latest[k] \/ (k = m /\ t.latest[k] = st)
    /\ t.composite = s.composite \/ <<s.composite, t.composite>> \in CandidateSteps[s.self]

OwnOK(s, m, st) == m = s.self => st.accepted \subseteq s.accepted

Recorded(t, s, m, st) ==
    Local(t) /\ Processed(t, s, m, st) /\ t.composite = s.composite

\* What a handler of n may do to its state: said stays said, a statement of
\* m may arrive, and the composite takes an allowed step.
Handled(t, s, m, st) ==
    /\ t.self = s.self /\ s.emitted \subseteq t.emitted
    /\ \A k \in Node : t.latest[k] = s.latest[k] \/ (k = m /\ t.latest[k] = st)
    /\ t.composite = s.composite \/ <<s.composite, t.composite>> \in CandidateSteps[s.self]

Sent(t, s) ==
    /\ Local(t) /\ t.self = s.self /\ s.emitted \subseteq t.emitted /\ t.latest = s.latest
    /\ t.candidates = s.candidates /\ t.composite = s.composite

\* The new round of nominate, before it votes.
NewRound(t, s, r) ==
    Local(t) /\ Kept(t, s) /\ t.composite = s.composite /\ t.round = r

\* A node before its first statement.
Blank(s, n) ==
    /\ s.self = n /\ s.round = 0 /\ s.votes = {} /\ s.accepted = {} /\ s.candidates = {}
    /\ s.latest = [m \in Node |-> NoNomination] /\ s.leaders = {}
    /\ s.lastEnvelope = NoNomination /\ s.stack = << >> /\ s.composite = NoValue

\* A node that starts again from the last statement it sent.
Restarted(t, s) ==
    /\ Local(t) /\ t.self = s.self /\ t.emitted = s.emitted
    /\ \A k \in Node : k # s.self => t.latest[k] = NoNomination
    /\ t.composite = NoValue

(* All nodes.                                                              *)

\* A node records only what the sender has sent, and what was sent stays
\* sent.
Heard(n) ==
    \A m \in Node : m # n => nom[n].latest[m] = NoNomination
                             \/ nom[n].latest[m] \in nom[m].emitted

NominationInv ==
    /\ nom \in [Node -> States]
    /\ \A n \in Node : nom[n].self = n /\ Local(nom[n]) /\ Heard(n)

\* What a step of n may do to the state of n.
NodeStep(n, t) ==
    /\ Local(t) /\ t.self = n /\ nom[n].emitted \subseteq t.emitted
    /\ \A k \in Node : \/ t.latest[k] = nom[n].latest[k]
                       \/ t.latest[k] = NoNomination
                       \/ k = n
                       \/ t.latest[k] \in nom[k].emitted
    /\ \/ t.composite = nom[n].composite
       \/ <<nom[n].composite, t.composite>> \in CandidateSteps[n]
       \/ t.composite = NoValue

\* The two theorems below, with the invariant they rest on, function by
\* function.
THEOREM NominationCorrect == NominationSpec => []CandidatesBacked /\ FeedsBallotProtocol
<1> USE Zenon
<1>StateFields.
    ASSUME NEW s \in States
    PROVE  /\ s.self \in Node /\ s.round \in 0 .. MaxRound /\ s.votes \in SUBSET Value
           /\ s.accepted \in SUBSET Value /\ s.candidates \in SUBSET Value
           /\ s.latest \in [Node -> Statements] /\ s.lastEnvelope \in Statements
           /\ s.leaders \in SUBSET Node /\ s.started \in BOOLEAN /\ s.timer \in BOOLEAN
           /\ s.composite \in Composites /\ s.stack \in Seq(Frames)
           /\ s.failure \in BOOLEAN /\ s.emitted \in SUBSET Statements /\ s.lives \in Nat
  BY <1>StateFields DEF States

<1>StatementFields.
    ASSUME NEW st \in Statements
    PROVE  st.votes \in SUBSET Value /\ st.accepted \in SUBSET Value
  BY <1>StatementFields DEF Statements

<1>NominationType.
    ASSUME NEW v \in SUBSET Value, NEW a \in SUBSET Value
    PROVE  /\ Nomination(v, a) \in Statements
           /\ Nomination(v, a).votes = v /\ Nomination(v, a).accepted = a
  BY <1>NominationType DEF Nomination, Statements

<1>NoNominationType.
    NoNomination \in Statements /\ NoNomination.accepted = {}
  BY <1>NominationType DEF NoNomination

\* More nodes, more quorums.
<1>QuorumGrows.
    ASSUME NEW local, NEW slices, NEW A, NEW B, A \subseteq B, isQuorum(local, slices, A)
    PROVE  isQuorum(local, slices, B)
  BY <1>QuorumGrows DEF isQuorum

\* More candidates, the next composite.
<1>CompositeSteps.
    ASSUME NEW n \in Node, NEW K, NEW T \in SUBSET Value, K \subseteq T, T # {}
    PROVE  \/ CombineCandidates[T] = Composite(K)
           \/ <<Composite(K), CombineCandidates[T]>> \in CandidateSteps[n]
  <2> USE <1>CompositeSteps
  <2>1. T \in (SUBSET Value) \ {{}}
    OBVIOUS
  <2>2. CASE K = {}
    <3>1. <<NoValue, CombineCandidates[T]>> \in CandidateSteps[n]
      BY <2>1, CandidateStepsAssumption
    <3> QED BY <2>2, <3>1 DEF Composite
  <2>3. CASE K # {}
    <3>1. K \in (SUBSET Value) \ {{}}
      BY <2>3
    <3>2. \/ CombineCandidates[K] = CombineCandidates[T]
          \/ <<CombineCandidates[K], CombineCandidates[T]>> \in CandidateSteps[n]
      BY <2>1, <3>1, CandidateStepsAssumption
    <3> QED BY <2>3, <3>2 DEF Composite
  <2> QED BY <2>2, <2>3

<1>combineLocal.
    ASSUME NEW s, Local(s), s.candidates # {}, NEW t, t = combine(s)
    PROVE  Local(t) /\ Kept(t, s)
  <2> USE <1>combineLocal
  <2> DEFINE c == CombineCandidates[s.candidates]
  <2>1. s \in States /\ s.candidates \in SUBSET Value /\ s.self \in Node
    BY <1>StateFields DEF Local
  <2>2. c = Composite(s.candidates)
    BY DEF Composite
  <2>3. t = [s EXCEPT !.composite = c]
    BY DEF combine
  <2>4. PICK K \in SUBSET s.candidates : s.composite = Composite(K)
    BY DEF Local, CandidatesOK
  <2>5. c = Composite(K) \/ <<Composite(K), c>> \in CandidateSteps[s.self]
    BY <2>1, <2>4, <1>CompositeSteps
  <2> HIDE DEF c
  <2>6. c \in Composites
    BY <2>1, <2>2 DEF Composites
  <2>7. t \in States
    BY <2>1, <2>3, <2>6 DEF States
  <2>8. /\ t.self = s.self /\ t.round = s.round /\ t.accepted = s.accepted
        /\ t.candidates = s.candidates /\ t.latest = s.latest /\ t.leaders = s.leaders
        /\ t.lastEnvelope = s.lastEnvelope /\ t.stack = s.stack /\ t.emitted = s.emitted
        /\ t.composite = c
    BY <2>1, <2>3 DEF States
  <2>9. StackOK(t) /\ SaidOK(t) /\ LeadersOK(t)
    BY <2>8 DEF Local, StackOK, FrameOK, SaidOK, LeadersOK
  <2>10. CandidatesOK(t)
    <3>1. s.candidates \in SUBSET t.candidates
      BY <2>8
    <3>2. \A v \in t.candidates : BackedBy(t, v)
      BY <2>8 DEF Local, CandidatesOK, BackedBy, Accepts
    <3> QED BY <2>2, <2>8, <3>1, <3>2 DEF CandidatesOK
  <2>11. Kept(t, s)
    BY <2>4, <2>5, <2>8 DEF Kept
  <2> QED BY <2>7, <2>9, <2>10, <2>11 DEF Local

\* A change of votes, started, timer, failure and lives only.
<1>SameLocal.
    ASSUME NEW s, Local(s), NEW t \in States,
           t.self = s.self, t.round = s.round, t.accepted = s.accepted,
           t.candidates = s.candidates, t.latest = s.latest, t.leaders = s.leaders,
           t.lastEnvelope = s.lastEnvelope, t.stack = s.stack, t.emitted = s.emitted,
           t.composite = s.composite
    PROVE  Local(t) /\ Kept(t, s)
  <2> USE <1>SameLocal
  <2>1. StackOK(t) /\ SaidOK(t) /\ LeadersOK(t)
    BY DEF Local, StackOK, FrameOK, SaidOK, LeadersOK
  <2>2. CandidatesOK(t)
    BY DEF Local, CandidatesOK, BackedBy, Accepts
  <2>3. Kept(t, s)
    BY DEF Kept
  <2> QED BY <2>1, <2>2, <2>3 DEF Local

<1>KeptTransitive.
    ASSUME NEW s, NEW t, NEW u, Kept(u, t), t.self = s.self, t.emitted = s.emitted,
           t.latest = s.latest, t.composite = s.composite,
           t.candidates # {} \/ t.candidates = s.candidates
    PROVE  Kept(u, s)
  BY <1>KeptTransitive DEF Kept

<1>emitNominationLocal.
    ASSUME NEW s, Local(s), NEW more \in BOOLEAN, more => s.candidates # {},
           NEW t, t = emitNomination(s, more)
    PROVE  Local(t) /\ Kept(t, s)
  <2> USE <1>emitNominationLocal
  <2> DEFINE st == Nomination(s.votes, s.accepted)
             f == Frame(st, more)
             stack == <<f>> \o s.stack
  <2>1. s \in States /\ s.votes \in SUBSET Value /\ s.accepted \in SUBSET Value
        /\ s.stack \in Seq(Frames)
    BY <1>StateFields DEF Local
  <2>2. st \in Statements /\ st.accepted = s.accepted
    BY <2>1, <1>NominationType
  <2>3. t = [s EXCEPT !.stack = stack]
    BY DEF emitNomination
  <2> HIDE DEF st
  <2>4. f \in Frames /\ f.st = st /\ f.combine = more
    BY <2>2 DEF Frame, Frames
  <2> HIDE DEF f
  <2>5. /\ stack \in Seq(Frames) /\ Len(stack) = Len(s.stack) + 1
        /\ stack[1] = f /\ \A i \in 2 .. Len(stack) : stack[i] = s.stack[i - 1]
    BY SMT, <2>1, <2>4
  <2> HIDE DEF stack
  <2>6. t \in States
    BY <2>1, <2>3, <2>5 DEF States
  <2>7. /\ t.self = s.self /\ t.round = s.round /\ t.accepted = s.accepted
        /\ t.candidates = s.candidates /\ t.latest = s.latest /\ t.leaders = s.leaders
        /\ t.lastEnvelope = s.lastEnvelope /\ t.stack = stack /\ t.emitted = s.emitted
        /\ t.composite = s.composite
    BY <2>1, <2>3 DEF States
  <2>8. SaidOK(t) /\ LeadersOK(t)
    BY <2>7 DEF Local, SaidOK, LeadersOK
  <2>9. CandidatesOK(t)
    BY <2>7 DEF Local, CandidatesOK, BackedBy, Accepts
  <2>10. StackOK(t)
    <3> SUFFICES ASSUME NEW i \in 1 .. Len(stack) PROVE FrameOK(t, stack[i])
      BY <2>7 DEF StackOK
    <3>1. CASE i = 1
      BY <2>2, <2>4, <2>5, <2>7, <3>1 DEF FrameOK
    <3>2. CASE i # 1
      <4>1. i \in 2 .. Len(stack) /\ i - 1 \in 1 .. Len(s.stack)
        BY SMT, <2>1, <2>5, <3>2
      <4>2. FrameOK(s, s.stack[i - 1])
        BY <4>1 DEF Local, StackOK
      <4> QED BY <2>5, <2>7, <4>1, <4>2 DEF FrameOK
    <3> QED BY <3>1, <3>2
  <2>11. Kept(t, s)
    BY <2>7 DEF Kept
  <2> QED BY <2>6, <2>8, <2>9, <2>10, <2>11 DEF Local

<1>AddingLocal.
    ASSUME NEW s, Local(s), NEW v \in Value \cup {NoValue}, NEW t, t = Adding(s, v)
    PROVE  /\ Local(t) /\ Kept(t, s) /\ t.composite = s.composite
           /\ t.candidates = s.candidates
  <2> USE <1>AddingLocal
  <2>1. s \in States /\ s.votes \in SUBSET Value
    BY <1>StateFields DEF Local
  <2>2. t = [s EXCEPT !.votes = @ \cup ({v} \ {NoValue})]
    BY DEF Adding
  <2>3. (s.votes \cup ({v} \ {NoValue})) \in SUBSET Value
    BY <2>1
  <2>4. t \in States
    BY <2>1, <2>2, <2>3 DEF States
  <2>5. /\ t.self = s.self /\ t.round = s.round /\ t.accepted = s.accepted
        /\ t.candidates = s.candidates /\ t.latest = s.latest /\ t.leaders = s.leaders
        /\ t.lastEnvelope = s.lastEnvelope /\ t.stack = s.stack /\ t.emitted = s.emitted
        /\ t.composite = s.composite
    BY <2>1, <2>2 DEF States
  <2>6. Local(t) /\ Kept(t, s)
    BY <2>4, <2>5, <1>SameLocal
  <2> QED BY <2>5, <2>6

<1>newValueType.
    ASSUME NEW s \in States, s.round # 0, NEW st \in Statements
    PROVE  getNewValueFromNomination(s, st) \in Value \cup {NoValue}
  <2> USE <1>newValueType
  <2> DEFINE new == {ValueToNominate(s.self, v) : v \in st.votes \cup st.accepted}
                      \ ({NoValue} \cup s.votes)
             r == s.round
  <2>1. s.self \in Node /\ s.round \in 0 .. MaxRound
    BY <1>StateFields
  <2>2. r \in 1 .. MaxRound
    BY SMT, <2>1, ConstantTypes
  <2>3. new \in SUBSET Value
    <3>1. st.votes \in SUBSET Value /\ st.accepted \in SUBSET Value
      BY <1>StatementFields
    <3>2. \A v \in Value : ExtractValidValue[s.self][v] \in Value \cup {NoValue}
      BY <2>1, ConstantTypes
    <3>3. \A v \in st.votes \cup st.accepted : ValueToNominate(s.self, v) \in Value \cup {NoValue}
      BY <3>1, <3>2 DEF ValueToNominate
    <3> QED BY <3>3
  <2> HIDE DEF new, r
  <2>4. CASE new = {}
    BY <2>4 DEF getNewValueFromNomination, new
  <2>5. CASE new # {}
    <3>1. \E v \in new : \A w \in new : HashValue[r][w] <= HashValue[r][v]
      BY <2>2, <2>3, <2>5, HashValueAssumption
    <3>2. (CHOOSE v \in new : \A w \in new : HashValue[r][w] <= HashValue[r][v]) \in new
      BY <3>1
    <3>3. getNewValueFromNomination(s, st)
            = CHOOSE v \in new : \A w \in new : HashValue[r][w] <= HashValue[r][v]
      BY <2>5 DEF getNewValueFromNomination, new, r
    <3> QED BY <2>3, <3>2, <3>3
  <2> QED BY <2>4, <2>5

<1>concludeLocal.
    ASSUME NEW s, Local(s), NEW modified \in BOOLEAN, NEW more \in BOOLEAN,
           more => s.candidates # {}, NEW t, t = conclude(s, modified, more)
    PROVE  Local(t) /\ Kept(t, s)
  <2> USE <1>concludeLocal
  <2>1. CASE modified
    <3>1. t = emitNomination(s, more)
      BY <2>1 DEF conclude
    <3> QED BY <3>1, <1>emitNominationLocal
  <2>2. CASE ~modified /\ more
    <3>1. t = combine(s)
      BY <2>2 DEF conclude
    <3> QED BY <2>2, <3>1, <1>combineLocal
  <2>3. CASE ~modified /\ ~more
    <3>1. t = s
      BY <2>3 DEF conclude
    <3> QED BY <3>1 DEF Kept
  <2> QED BY <2>1, <2>2, <2>3

<1>voteWithLeaderLocal.
    ASSUME NEW s, Local(s), NEW m, NEW st \in Statements, NEW modified \in BOOLEAN,
           NEW more \in BOOLEAN, more => s.candidates # {},
           NEW t, t = voteWithLeader(s, m, st, modified, more)
    PROVE  Local(t) /\ Kept(t, s)
  <2> USE <1>voteWithLeaderLocal
  <2> DEFINE newVote == IF s.candidates = {} /\ m \in s.leaders
                        THEN getNewValueFromNomination(s, st) ELSE NoValue
             u == Adding(s, newVote)
             changed == modified \/ newVote # NoValue
  <2>1. newVote \in Value \cup {NoValue}
    <3>1. CASE s.candidates = {} /\ m \in s.leaders
      <4>1. s.round # 0 /\ s \in States
        BY <3>1 DEF Local, LeadersOK
      <4>2. getNewValueFromNomination(s, st) \in Value \cup {NoValue}
        BY <4>1, <1>newValueType
      <4> QED BY <3>1, <4>2
    <3>2. CASE ~(s.candidates = {} /\ m \in s.leaders)
      BY <3>2
    <3> QED BY <3>1, <3>2
  <2>2. t = conclude(u, changed, more)
    BY DEF voteWithLeader
  <2> HIDE DEF newVote
  <2>3. /\ Local(u) /\ Kept(u, s) /\ u.composite = s.composite
        /\ u.candidates = s.candidates
    BY <2>1, <1>AddingLocal
  <2>4. changed \in BOOLEAN
    OBVIOUS
  <2> HIDE DEF u, changed
  <2>5. Local(t) /\ Kept(t, u)
    BY <2>2, <2>3, <2>4, <1>concludeLocal
  <2> QED BY <2>3, <2>5, <1>KeptTransitive DEF Kept

<1>promoteAcceptedLocal.
    ASSUME NEW s, Local(s), NEW m, NEW st \in Statements, NEW modified \in BOOLEAN,
           NEW t, t = promoteAccepted(s, m, st, modified)
    PROVE  Local(t) /\ Kept(t, s)
  <2> USE <1>promoteAcceptedLocal
  <2> DEFINE new == {a \in s.accepted \ s.candidates : federatedRatify(s, a)}
             u == addCandidates(s, new)
             more == new # {}
  <2>1. /\ s \in States /\ s.accepted \in SUBSET Value /\ s.candidates \in SUBSET Value
    BY <1>StateFields DEF Local
  <2>2. new \in SUBSET Value /\ \A v \in new : BackedBy(s, v)
    BY <2>1 DEF federatedRatify, BackedBy
  <2>3. t = voteWithLeader(u, m, st, modified, more)
    BY DEF promoteAccepted
  <2> HIDE DEF new
  <2>4. u = [s EXCEPT !.candidates = @ \cup new]
    BY DEF addCandidates
  <2>5. (s.candidates \cup new) \in SUBSET Value
    BY <2>1, <2>2
  <2> HIDE DEF u
  <2>6. u \in States
    BY <2>1, <2>4, <2>5 DEF States
  <2>7. /\ u.self = s.self /\ u.round = s.round /\ u.accepted = s.accepted
        /\ u.candidates = s.candidates \cup new /\ u.latest = s.latest
        /\ u.leaders = s.leaders /\ u.lastEnvelope = s.lastEnvelope /\ u.stack = s.stack
        /\ u.emitted = s.emitted /\ u.composite = s.composite
    BY <2>1, <2>4 DEF States
  <2>8. StackOK(u) /\ SaidOK(u) /\ LeadersOK(u)
    <3>1. s.candidates # {} => u.candidates # {}
      BY <2>7
    <3> QED BY <2>7, <3>1 DEF Local, StackOK, FrameOK, SaidOK, LeadersOK
  <2>9. CandidatesOK(u)
    <3>1. \A v \in u.candidates : BackedBy(s, v)
      BY <2>2, <2>7 DEF Local, CandidatesOK
    <3>2. PICK K \in SUBSET s.candidates : s.composite = Composite(K)
      BY DEF Local, CandidatesOK
    <3>3. K \in SUBSET u.candidates /\ u.composite = Composite(K)
      BY <2>7, <3>2
    <3>4. \A v \in u.candidates : BackedBy(u, v)
      BY <2>7, <3>1 DEF BackedBy, Accepts
    <3> QED BY <3>3, <3>4 DEF CandidatesOK
  <2>10. Local(u)
    BY <2>6, <2>8, <2>9 DEF Local
  <2>11. more \in BOOLEAN /\ (more => u.candidates # {})
    BY <2>7
  <2> HIDE DEF more
  <2>12. Local(t) /\ Kept(t, u)
    BY <2>3, <2>10, <2>11, <1>voteWithLeaderLocal
  <2>13. u.candidates # {} \/ u.candidates = s.candidates
    BY <2>7
  <2> QED BY <2>7, <2>12, <2>13, <1>KeptTransitive

<1>promoteVotesLocal.
    ASSUME NEW s, Local(s), NEW m, NEW st \in Statements, NEW shared \in SUBSET Value,
           NEW t, t = promoteVotes(s, m, st, shared)
    PROVE  Local(t) /\ Kept(t, s)
  <2> USE <1>promoteVotesLocal
  <2> DEFINE valid  == {v \in shared : ValidateValue[s.self][v] = "kFullyValidatedValue"}
             others == {ExtractValidValue[s.self][v] : v \in shared \ valid} \ {NoValue}
             u == [s EXCEPT !.accepted = @ \cup valid, !.votes = @ \cup valid \cup others]
             modified == valid # {} \/ ~(others \subseteq s.votes)
  <2>1. /\ s \in States /\ s.accepted \in SUBSET Value /\ s.votes \in SUBSET Value
        /\ s.self \in Node
    BY <1>StateFields DEF Local
  <2>2. valid \in SUBSET Value /\ others \in SUBSET Value
    <3>1. \A v \in Value : ExtractValidValue[s.self][v] \in Value \cup {NoValue}
      BY <2>1, ConstantTypes
    <3> QED BY <3>1
  <2>3. t = promoteAccepted(u, m, st, modified) /\ modified \in BOOLEAN
    BY DEF promoteVotes
  <2> HIDE DEF valid, others, modified
  <2>4. (s.accepted \cup valid) \in SUBSET Value /\ (s.votes \cup valid \cup others) \in SUBSET Value
    BY <2>1, <2>2
  <2>5. u \in States
    BY <2>1, <2>4 DEF States
  <2>6. /\ u.self = s.self /\ u.round = s.round /\ u.accepted = s.accepted \cup valid
        /\ u.candidates = s.candidates /\ u.latest = s.latest
        /\ u.leaders = s.leaders /\ u.lastEnvelope = s.lastEnvelope /\ u.stack = s.stack
        /\ u.emitted = s.emitted /\ u.composite = s.composite
    BY <2>1 DEF States
  <2> HIDE DEF u
  <2>7. s.accepted \subseteq u.accepted
    BY <2>6
  <2>8. StackOK(u) /\ SaidOK(u) /\ LeadersOK(u)
    <3>1. StackOK(u)
      BY <2>6, <2>7 DEF Local, StackOK, FrameOK
    <3>2. SaidOK(u)
      BY <2>6, <2>7 DEF Local, SaidOK
    <3> QED BY <2>6, <3>1, <3>2 DEF Local, LeadersOK
  <2>9. CandidatesOK(u)
    BY <2>6 DEF Local, CandidatesOK, BackedBy, Accepts
  <2>10. Local(u)
    BY <2>5, <2>8, <2>9 DEF Local
  <2>11. Local(t) /\ Kept(t, u)
    BY <2>3, <2>10, <1>promoteAcceptedLocal
  <2> QED BY <2>6, <2>11, <1>KeptTransitive

<1>recordEnvelopeLocal.
    ASSUME NEW s, Local(s), NEW m \in Node, NEW st \in Statements, Acceptable(s, m, st),
           OwnOK(s, m, st),
           NEW t, t = recordEnvelope(s, m, st)
    PROVE  Recorded(t, s, m, st)
  <2> USE <1>recordEnvelopeLocal
  <2> DEFINE latest == [s.latest EXCEPT ![m] = st]
  <2>1. s \in States /\ s.latest \in [Node -> Statements] /\ s.self \in Node
    BY <1>StateFields DEF Local
  <2>2. t = [s EXCEPT !.latest = latest]
    BY DEF recordEnvelope
  <2>3. /\ latest \in [Node -> Statements]
        /\ \A k \in Node : latest[k] = IF k = m THEN st ELSE s.latest[k]
    BY <2>1
  <2> HIDE DEF latest
  <2>4. t \in States
    BY <2>1, <2>2, <2>3 DEF States
  <2>5. /\ t.self = s.self /\ t.round = s.round /\ t.accepted = s.accepted
        /\ t.candidates = s.candidates /\ t.latest = latest
        /\ t.leaders = s.leaders /\ t.lastEnvelope = s.lastEnvelope /\ t.stack = s.stack
        /\ t.emitted = s.emitted /\ t.composite = s.composite
    BY <2>1, <2>2 DEF States
  <2>6. StackOK(t) /\ LeadersOK(t)
    BY <2>5 DEF Local, StackOK, FrameOK, LeadersOK
  <2>7. SaidOK(t)
    BY <2>1, <2>3, <2>5 DEF Local, SaidOK, OwnOK
  <2>8. CandidatesOK(t)
    <3>1. s.latest[m].accepted \subseteq st.accepted
      BY DEF Acceptable, isNewerStatement
    <3>2. ASSUME NEW v \in t.candidates PROVE BackedBy(t, v)
      <4>1. Accepts(s, v) \subseteq Accepts(t, v)
        BY <2>3, <2>5, <3>1 DEF Accepts
      <4>2. isQuorum(Slices[s.self], Slices, Accepts(s, v))
        BY <2>5, <3>2 DEF Local, CandidatesOK, BackedBy
      <4>3. isQuorum(Slices[s.self], Slices, Accepts(t, v))
        BY <4>1, <4>2, <1>QuorumGrows
      <4> QED BY <2>5, <4>3 DEF BackedBy
    <3> QED BY <2>5, <3>2 DEF Local, CandidatesOK
  <2>9. Processed(t, s, m, st)
    BY <2>3, <2>5 DEF Processed
  <2> QED BY <2>4, <2>5, <2>6, <2>7, <2>8, <2>9 DEF Local, Recorded

<1>processEnvelopeLocal.
    ASSUME NEW s, Local(s), NEW m \in Node, NEW st \in Statements, Acceptable(s, m, st),
           OwnOK(s, m, st),
           NEW t, t = processEnvelope(s, m, st)
    PROVE  Local(t) /\ Processed(t, s, m, st)
  <2> USE <1>processEnvelopeLocal
  <2> DEFINE u == recordEnvelope(s, m, st)
             shared == SharedVotes(u, st)
  <2>0. Recorded(u, s, m, st)
    BY <1>recordEnvelopeLocal
  <2>2. t = IF s.started THEN promoteVotes(u, m, st, shared) ELSE u
    BY DEF processEnvelope
  <2> HIDE DEF u
  <2>1. Local(u) /\ Processed(u, s, m, st) /\ u.composite = s.composite
    BY <2>0 DEF Recorded
  <2>3. shared \in SUBSET Value
    BY <1>StatementFields DEF SharedVotes
  <2> HIDE DEF shared
  <2>4. CASE s.started
    <3>1. t = promoteVotes(u, m, st, shared)
      BY <2>2, <2>4
    <3>2. Local(t) /\ Kept(t, u)
      BY <2>1, <2>3, <3>1, <1>promoteVotesLocal
    <3> QED BY <2>1, <3>2 DEF Kept, Processed
  <2>5. CASE ~s.started
    BY <2>1, <2>2, <2>5
  <2> QED BY <2>4, <2>5

\* A stack without its first frame, or with that frame entered.
<1>StackFields.
    ASSUME NEW s, Local(s), s.stack # << >>
    PROVE  /\ s.stack[1] \in Frames /\ s.stack[1].st \in Statements
           /\ s.stack[1].combine \in BOOLEAN /\ FrameOK(s, s.stack[1])
           /\ Tail(s.stack) \in Seq(Frames)
           /\ \A i \in 1 .. Len(Tail(s.stack)) : FrameOK(s, Tail(s.stack)[i])
  <2> USE <1>StackFields
  <2>1. s.stack \in Seq(Frames)
    BY <1>StateFields DEF Local
  <2>2. /\ s.stack[1] \in Frames /\ 1 \in 1 .. Len(s.stack) /\ Tail(s.stack) \in Seq(Frames)
        /\ \A i \in 1 .. Len(Tail(s.stack)) :
              i + 1 \in 1 .. Len(s.stack) /\ Tail(s.stack)[i] = s.stack[i + 1]
    BY SMT, <2>1
  <2>3. \A i \in 1 .. Len(s.stack) : FrameOK(s, s.stack[i])
    BY DEF Local, StackOK
  <2>4. s.stack[1].st \in Statements /\ s.stack[1].combine \in BOOLEAN
    BY <2>2 DEF Frames
  <2>5. ASSUME NEW i \in 1 .. Len(Tail(s.stack)) PROVE FrameOK(s, Tail(s.stack)[i])
    <3>1. i + 1 \in 1 .. Len(s.stack) /\ Tail(s.stack)[i] = s.stack[i + 1]
      BY <2>2
    <3> QED BY <2>3, <3>1
  <2> QED BY <2>2, <2>3, <2>4, <2>5

<1>enterLocal.
    ASSUME NEW s, Local(s), s.stack # << >>, NEW t, t = enterEmitNomination(s)
    PROVE  Local(t) /\ Handled(t, s, s.self, s.stack[1].st)
  <2> USE <1>enterLocal
  <2> DEFINE f == s.stack[1]
             stack == [s.stack EXCEPT ![1].entered = TRUE]
             u == [s EXCEPT !.stack = stack]
  <2>1. /\ s \in States /\ s.stack \in Seq(Frames) /\ s.self \in Node
    BY <1>StateFields DEF Local
  <2>2. /\ f \in Frames /\ f.st \in Statements /\ FrameOK(s, f)
    BY <1>StackFields
  <2>3. CASE Acceptable(s, s.self, f.st)
    <3> DEFINE g == [f EXCEPT !.entered = TRUE]
    <3>1. g \in Frames /\ g.st = f.st /\ g.combine = f.combine
      BY <2>2 DEF Frames
    <3>2. stack = [s.stack EXCEPT ![1] = g]
      OBVIOUS
    <3> HIDE DEF g
    <3>3. /\ stack \in Seq(Frames) /\ Len(stack) = Len(s.stack)
          /\ \A i \in 1 .. Len(stack) : stack[i] = IF i = 1 THEN g ELSE s.stack[i]
      <4> HIDE DEF stack
      <4> QED BY SMT, <2>1, <3>1, <3>2
    <3>4. t = processEnvelope(u, s.self, f.st)
      BY <2>3 DEF enterEmitNomination
    <3> HIDE DEF stack
    <3>5. u \in States
      BY <2>1, <3>3 DEF States
    <3>6. /\ u.self = s.self /\ u.round = s.round /\ u.accepted = s.accepted
          /\ u.candidates = s.candidates /\ u.latest = s.latest /\ u.leaders = s.leaders
          /\ u.lastEnvelope = s.lastEnvelope /\ u.stack = stack /\ u.emitted = s.emitted
          /\ u.composite = s.composite
      BY <2>1 DEF States
    <3> HIDE DEF u
    <3>7. SaidOK(u) /\ LeadersOK(u)
      BY <3>6 DEF Local, SaidOK, LeadersOK
    <3>8. CandidatesOK(u)
      BY <3>6 DEF Local, CandidatesOK, BackedBy, Accepts
    <3>9. StackOK(u)
      <4> SUFFICES ASSUME NEW i \in 1 .. Len(stack) PROVE FrameOK(u, stack[i])
        BY <3>6 DEF StackOK
      <4>1. FrameOK(s, s.stack[i])
        BY <3>3 DEF Local, StackOK
      <4>2. CASE i = 1
        <5>1. stack[i] = g
          BY <3>3, <4>2
        <5> QED BY <2>2, <3>1, <3>6, <5>1 DEF FrameOK
      <4>3. CASE i # 1
        <5>1. stack[i] = s.stack[i]
          BY <3>3, <4>3
        <5> QED BY <3>6, <4>1, <5>1 DEF FrameOK
      <4> QED BY <4>2, <4>3
    <3>10. Local(u)
      BY <3>5, <3>7, <3>8, <3>9 DEF Local
    <3>11. Acceptable(u, s.self, f.st) /\ OwnOK(u, s.self, f.st)
      BY <2>2, <2>3, <3>6 DEF Acceptable, OwnOK, FrameOK
    <3>12. Local(t) /\ Processed(t, u, s.self, f.st)
      BY <2>1, <2>2, <3>4, <3>10, <3>11, <1>processEnvelopeLocal
    <3> QED BY <3>6, <3>12 DEF Processed, Handled
  <2>4. CASE ~Acceptable(s, s.self, f.st)
    <3>1. t = [s EXCEPT !.failure = TRUE]
      BY <2>4 DEF enterEmitNomination
    <3>2. t \in States
      BY <2>1, <3>1 DEF States
    <3>3. /\ t.self = s.self /\ t.round = s.round /\ t.accepted = s.accepted
          /\ t.candidates = s.candidates /\ t.latest = s.latest /\ t.leaders = s.leaders
          /\ t.lastEnvelope = s.lastEnvelope /\ t.stack = s.stack /\ t.emitted = s.emitted
          /\ t.composite = s.composite
      BY <2>1, <3>1 DEF States
    <3>4. Local(t)
      BY <3>2, <3>3, <1>SameLocal
    <3> QED BY <3>3, <3>4 DEF Handled
  <2> QED BY <2>3, <2>4

<1>sendLocal.
    ASSUME NEW s, Local(s), NEW st \in Statements, st.accepted \subseteq s.accepted,
           NEW t, t = send(s, st)
    PROVE  Sent(t, s)
  <2> USE <1>sendLocal
  <2> DEFINE emitted == IF s.self \in Validator THEN s.emitted \cup {st} ELSE s.emitted
  <2>1. s \in States /\ s.emitted \in SUBSET Statements
    BY <1>StateFields DEF Local
  <2>2. CASE isNewerStatement(s.lastEnvelope, st)
    <3>1. t = [s EXCEPT !.lastEnvelope = st, !.emitted = emitted]
      BY <2>2 DEF send
    <3>2. /\ emitted \in SUBSET Statements /\ s.emitted \subseteq emitted
          /\ \A x \in emitted : x \in s.emitted \/ x = st
      BY <2>1
    <3> HIDE DEF emitted
    <3>3. t \in States
      BY <2>1, <3>1, <3>2 DEF States
    <3>4. /\ t.self = s.self /\ t.round = s.round /\ t.accepted = s.accepted
          /\ t.candidates = s.candidates /\ t.latest = s.latest /\ t.leaders = s.leaders
          /\ t.lastEnvelope = st /\ t.stack = s.stack /\ t.emitted = emitted
          /\ t.composite = s.composite
      BY <2>1, <3>1 DEF States
    <3>5. StackOK(t) /\ LeadersOK(t)
      BY <3>4 DEF Local, StackOK, FrameOK, LeadersOK
    <3>6. CandidatesOK(t)
      BY <3>4 DEF Local, CandidatesOK, BackedBy, Accepts
    <3>7. SaidOK(t)
      <4>1. s.lastEnvelope.accepted \subseteq st.accepted
        BY <2>2 DEF isNewerStatement
      <4>2. \A x \in emitted : x.accepted \subseteq st.accepted
        BY <3>2, <4>1 DEF Local, SaidOK
      <4> QED BY <3>4, <4>2 DEF Local, SaidOK
    <3>8. Local(t)
      BY <3>3, <3>5, <3>6, <3>7 DEF Local
    <3> QED BY <3>2, <3>4, <3>8 DEF Sent
  <2>3. CASE ~isNewerStatement(s.lastEnvelope, st)
    <3>1. t = s
      BY <2>3 DEF send
    <3> QED BY <3>1 DEF Sent
  <2> QED BY <2>2, <2>3

<1>returnLocal.
    ASSUME NEW s, Local(s), s.stack # << >>, NEW t, t = returnFromEmitNomination(s)
    PROVE  Local(t) /\ Handled(t, s, s.self, s.latest[s.self])
  <2> USE <1>returnLocal
  <2> DEFINE f == s.stack[1]
             stack == Tail(s.stack)
             u == [s EXCEPT !.stack = stack]
             w == send(u, f.st)
  <2>1. s \in States
    BY DEF Local
  <2>2. /\ f.st \in Statements /\ f.combine \in BOOLEAN /\ FrameOK(s, f)
        /\ stack \in Seq(Frames) /\ \A i \in 1 .. Len(stack) : FrameOK(s, stack[i])
    BY <1>StackFields
  <2>3. t = IF f.combine THEN combine(w) ELSE w
    BY DEF returnFromEmitNomination
  <2> HIDE DEF stack, f
  <2>4. u \in States
    BY <2>1, <2>2 DEF States
  <2>5. /\ u.self = s.self /\ u.round = s.round /\ u.accepted = s.accepted
        /\ u.candidates = s.candidates /\ u.latest = s.latest /\ u.leaders = s.leaders
        /\ u.lastEnvelope = s.lastEnvelope /\ u.stack = stack /\ u.emitted = s.emitted
        /\ u.composite = s.composite
    BY <2>1 DEF States
  <2> HIDE DEF u
  <2>6. SaidOK(u) /\ LeadersOK(u)
    BY <2>5 DEF Local, SaidOK, LeadersOK
  <2>7. CandidatesOK(u)
    BY <2>5 DEF Local, CandidatesOK, BackedBy, Accepts
  <2>8. StackOK(u)
    BY <2>2, <2>5 DEF StackOK, FrameOK
  <2>9. Local(u)
    BY <2>4, <2>6, <2>7, <2>8 DEF Local
  <2>10. f.st.accepted \subseteq u.accepted
    BY <2>2, <2>5 DEF FrameOK
  <2>11. Sent(w, u)
    BY <2>2, <2>9, <2>10, <1>sendLocal
  <2> HIDE DEF w
  <2>12. CASE f.combine
    <3>1. Local(w) /\ w.candidates # {} /\ t = combine(w)
      BY <2>2, <2>3, <2>5, <2>11, <2>12 DEF Sent, FrameOK
    <3>2. Local(t) /\ Kept(t, w)
      BY <3>1, <1>combineLocal
    <3> QED BY <2>5, <2>11, <3>2 DEF Sent, Kept, Handled
  <2>13. CASE ~f.combine
    <3>1. t = w
      BY <2>3, <2>13
    <3> QED BY <2>5, <2>11, <3>1 DEF Sent, Handled
  <2> QED BY <2>2, <2>12, <2>13

<1>takeLeaderValueLocal.
    ASSUME NEW s, Local(s), s.round # 0, NEW leader \in Node,
           NEW t, t = takeLeaderValue(s, leader)
    PROVE  Local(t) /\ Kept(t, s) /\ t.composite = s.composite
  <2> USE <1>takeLeaderValueLocal
  <2> DEFINE v == getNewValueFromNomination(s, s.latest[leader])
  <2>1. s \in States /\ s.latest[leader] \in Statements
    BY <1>StateFields DEF Local
  <2>2. CASE s.latest[leader] = NoNomination
    <3>1. t = s
      BY <2>2 DEF takeLeaderValue
    <3> QED BY <3>1 DEF Kept
  <2>3. CASE s.latest[leader] # NoNomination
    <3>1. v \in Value \cup {NoValue}
      BY <2>1, <1>newValueType
    <3>2. t = Adding(s, v)
      BY <2>3 DEF takeLeaderValue
    <3> HIDE DEF v
    <3> QED BY <3>1, <3>2, <1>AddingLocal
  <2> QED BY <2>2, <2>3

<1>newRoundLocal.
    ASSUME NEW s, Local(s), NEW r \in 1 .. MaxRound,
           NEW leaders \in SUBSET Node,
           NEW t, t = [s EXCEPT !.started = TRUE, !.round = r, !.leaders = leaders,
                                !.timer = TRUE]
    PROVE  NewRound(t, s, r)
  <2> USE <1>newRoundLocal
  <2>1. s \in States
    BY DEF Local
  <2>2. r \in 0 .. MaxRound /\ r # 0
    BY SMT, ConstantTypes
  <2>3. t \in States
    BY <2>1, <2>2 DEF States
  <2>4. /\ t.self = s.self /\ t.round = r /\ t.accepted = s.accepted
        /\ t.candidates = s.candidates /\ t.latest = s.latest
        /\ t.lastEnvelope = s.lastEnvelope /\ t.stack = s.stack /\ t.emitted = s.emitted
        /\ t.composite = s.composite
    BY <2>1 DEF States
  <2>5. StackOK(t) /\ SaidOK(t) /\ LeadersOK(t)
    BY <2>2, <2>4 DEF Local, StackOK, FrameOK, SaidOK, LeadersOK
  <2>6. CandidatesOK(t)
    BY <2>4 DEF Local, CandidatesOK, BackedBy, Accepts
  <2>7. Kept(t, s)
    BY <2>4 DEF Kept
  <2> QED BY <2>3, <2>4, <2>5, <2>6, <2>7 DEF Local, NewRound

<1>nominateLocal.
    ASSUME NEW s, Local(s), s.round + 1 \in 1 .. MaxRound, NEW value \in Value,
           NEW timedout \in BOOLEAN, NEW t, t = nominate(s, value, timedout)
    PROVE  Local(t) /\ Kept(t, s)
  <2> USE <1>nominateLocal
  <2> DEFINE r == s.round + 1
             leaders == RoundLeaders(s.self, r)
             q == [s EXCEPT !.started = TRUE, !.round = r, !.leaders = leaders, !.timer = TRUE]
             leader == CHOOSE m \in leaders : TRUE
             u == IF s.self \in leaders THEN Adding(q, value)
                  ELSE IF leaders = {} THEN q ELSE takeLeaderValue(q, leader)
  <2>1. s.self \in Node
    BY <1>StateFields DEF Local
  <2>2. leaders \in SUBSET Node
    <3>1. forAllNodes(QSetOf[s.self]) \subseteq Node
      BY <2>1, ConstantTypes
    <3> QED BY <3>1 DEF RoundLeaders
  <2>3. t = IF timedout /\ ~s.started THEN s
            ELSE IF u.votes # s.votes THEN emitNomination(u, FALSE) ELSE u
    BY DEF nominate
  <2>4. r \in 1 .. MaxRound /\ r # 0
    <3>1. r \in 1 .. MaxRound
      OBVIOUS
    <3> HIDE DEF r
    <3> QED BY SMT, <3>1, ConstantTypes
  <2> HIDE DEF r, leaders
  <2>0. NewRound(q, s, r)
    BY <2>2, <2>4, <1>newRoundLocal
  <2> HIDE DEF q
  <2>5. Local(q) /\ Kept(q, s) /\ q.composite = s.composite /\ q.round = r
    BY <2>0 DEF NewRound
  <2>6. Local(u) /\ Kept(u, q) /\ u.composite = q.composite
    <3>1. CASE s.self \in leaders
      <4>1. u = Adding(q, value)
        BY <3>1
      <4> HIDE DEF u
      <4>2. value \in Value \cup {NoValue}
        OBVIOUS
      <4> QED BY <2>5, <4>1, <4>2, <1>AddingLocal
    <3>2. CASE s.self \notin leaders /\ leaders = {}
      <4>1. u = q
        BY <3>2
      <4> HIDE DEF u
      <4> QED BY <2>5, <4>1 DEF Kept
    <3>3. CASE s.self \notin leaders /\ leaders # {}
      <4>1. u = takeLeaderValue(q, leader) /\ leader \in Node
        BY <2>2, <3>3
      <4> HIDE DEF u, leader
      <4>2. q.round # 0
        BY <2>4, <2>5
      <4> QED BY <2>5, <4>1, <4>2, <1>takeLeaderValueLocal
    <3> QED BY <3>1, <3>2, <3>3
  <2> HIDE DEF u
  <2>7. Kept(u, s)
    BY <2>5, <2>6, <1>KeptTransitive DEF Kept
  <2>8. CASE timedout /\ ~s.started
    <3>1. t = s
      BY <2>3, <2>8
    <3> QED BY <3>1 DEF Kept
  <2>9. CASE ~(timedout /\ ~s.started) /\ u.votes # s.votes
    <3>1. t = emitNomination(u, FALSE)
      BY <2>3, <2>9
    <3>2. Local(t) /\ Kept(t, u)
      BY <2>6, <3>1, <1>emitNominationLocal
    <3> QED BY <2>5, <2>6, <2>7, <3>2, <1>KeptTransitive DEF Kept
  <2>10. CASE ~(timedout /\ ~s.started) /\ u.votes = s.votes
    <3>1. t = u
      BY <2>3, <2>10
    <3> QED BY <2>6, <2>7, <3>1
  <2> QED BY <2>8, <2>9, <2>10

<1>InitFields.
    ASSUME NEW n \in Node
    PROVE  /\ InitNomination(n) \in States /\ Blank(InitNomination(n), n)
           /\ InitNomination(n).emitted = {}
  <2> USE <1>InitFields
  <2>1. /\ 0 \in 0 .. MaxRound /\ << >> \in Seq(Frames) /\ 0 \in Nat
    BY SMT, ConstantTypes
  <2>2. NoValue \in Composites
    BY DEF Composites, Composite
  <2>3. [m \in Node |-> NoNomination] \in [Node -> Statements]
    BY <1>NoNominationType
  <2>4. InitNomination(n) \in States
    BY <2>1, <2>2, <2>3, <1>NoNominationType DEF InitNomination, States
  <2>5. Blank(InitNomination(n), n) /\ InitNomination(n).emitted = {}
    BY DEF InitNomination, Blank
  <2> QED BY <2>4, <2>5

<1>InitLocal.
    ASSUME NEW n \in Node, NEW s \in States, Blank(s, n), s.emitted = {}
    PROVE  Local(s)
  <2> USE <1>InitLocal
  <2>1. StackOK(s)
    <3>1. Len(s.stack) = 0 /\ 1 .. 0 = {}
      BY SMT DEF Blank
    <3> QED BY <3>1 DEF StackOK
  <2>2. SaidOK(s) /\ LeadersOK(s)
    BY <1>NoNominationType DEF Blank, SaidOK, LeadersOK
  <2>3. CandidatesOK(s)
    BY DEF Blank, CandidatesOK, Composite
  <2> QED BY <2>1, <2>2, <2>3 DEF Local

<1>freshFields.
    ASSUME NEW s \in States, NEW t,
           t = [InitNomination(s.self) EXCEPT !.emitted = s.emitted, !.lives = s.lives + 1]
    PROVE  t \in States /\ Blank(t, s.self) /\ t.emitted = s.emitted
  <2> USE <1>freshFields
  <2> DEFINE i == InitNomination(s.self)
             lives == s.lives + 1
  <2>1. s.self \in Node /\ s.emitted \in SUBSET Statements /\ s.lives \in Nat
    BY <1>StateFields
  <2>2. lives \in Nat
    BY SMT, <2>1
  <2>3. i \in States /\ Blank(i, s.self)
    BY <2>1, <1>InitFields
  <2>4. t = [i EXCEPT !.emitted = s.emitted, !.lives = lives]
    OBVIOUS
  <2> HIDE DEF i, lives
  <2>5. t \in States
    BY <2>1, <2>2, <2>3, <2>4 DEF States
  <2>6. /\ t.self = i.self /\ t.round = i.round /\ t.votes = i.votes
        /\ t.accepted = i.accepted /\ t.candidates = i.candidates /\ t.latest = i.latest
        /\ t.leaders = i.leaders /\ t.lastEnvelope = i.lastEnvelope /\ t.stack = i.stack
        /\ t.composite = i.composite /\ t.emitted = s.emitted
    BY <2>3, <2>4 DEF States
  <2> QED BY <2>3, <2>5, <2>6 DEF Blank

<1>setStateLocal.
    ASSUME NEW s, Local(s), NEW i \in States, Blank(i, s.self), i.emitted = s.emitted,
           NEW t, t = setStateFromEnvelope(i, s.lastEnvelope)
    PROVE  Restarted(t, s)
  <2> USE <1>setStateLocal
  <2> DEFINE st == s.lastEnvelope
             latest == [i.latest EXCEPT ![s.self] = st]
  <2>1. /\ s.self \in Node /\ st \in Statements /\ i.latest \in [Node -> Statements]
    BY <1>StateFields DEF Local
  <2>2. st.votes \in SUBSET Value /\ st.accepted \in SUBSET Value
    BY <2>1, <1>StatementFields
  <2>3. t = [i EXCEPT !.latest = latest, !.votes = st.votes, !.accepted = st.accepted,
                      !.lastEnvelope = st]
    BY DEF setStateFromEnvelope, recordEnvelope, Blank
  <2>4. /\ latest \in [Node -> Statements] /\ latest[s.self] = st
        /\ \A k \in Node : k # s.self => latest[k] = NoNomination
    <3>1. \A k \in Node : i.latest[k] = NoNomination
      BY DEF Blank
    <3> QED BY <2>1, <3>1
  <2>5. \A x \in s.emitted : x.accepted \subseteq st.accepted
    BY DEF Local, SaidOK
  <2> HIDE DEF latest, st
  <2>6. t \in States
    BY <2>1, <2>2, <2>3, <2>4 DEF States
  <2>7. /\ t.self = i.self /\ t.round = i.round /\ t.accepted = st.accepted
        /\ t.candidates = i.candidates /\ t.latest = latest /\ t.leaders = i.leaders
        /\ t.lastEnvelope = st /\ t.stack = i.stack /\ t.emitted = s.emitted
        /\ t.composite = i.composite
    BY <2>3 DEF States
  <2>8. StackOK(t)
    <3>1. t.stack = << >>
      BY <2>7 DEF Blank
    <3>2. Len(t.stack) = 0 /\ 1 .. 0 = {}
      BY SMT, <3>1
    <3> QED BY <3>2 DEF StackOK
  <2>9. SaidOK(t) /\ LeadersOK(t)
    <3>1. t.self = s.self /\ t.leaders = {}
      BY <2>7 DEF Blank
    <3>2. t.latest[t.self] = st
      BY <2>4, <2>7, <3>1
    <3> QED BY <2>5, <2>7, <3>1, <3>2 DEF SaidOK, LeadersOK
  <2>10. CandidatesOK(t)
    BY <2>7 DEF Blank, CandidatesOK, Composite
  <2>11. Local(t)
    BY <2>6, <2>8, <2>9, <2>10 DEF Local
  <2> QED BY <2>4, <2>7, <2>11 DEF Restarted, Blank

<1>freshLocal.
    ASSUME NEW s, Local(s), NEW t \in States, Blank(t, s.self), t.emitted = s.emitted,
           s.emitted = {}
    PROVE  Restarted(t, s)
  <2> USE <1>freshLocal
  <2>1. s.self \in Node
    BY <1>StateFields DEF Local
  <2>2. Local(t)
    BY <2>1, <1>InitLocal
  <2> QED BY <2>2 DEF Restarted, Blank

<1>KeptStep.
    ASSUME NEW n \in Node, nom[n].self = n, NEW t, Local(t), Kept(t, nom[n])
    PROVE  NodeStep(n, t)
  BY <1>KeptStep DEF Kept, NodeStep

<1>EmitNominationStep.
    ASSUME NominationInv, NEW n \in Node, EmitNomination(n)
    PROVE  \E t : Update(n, t) /\ NodeStep(n, t)
  <2> USE <1>EmitNominationStep
  <2> DEFINE s == nom[n]
             t == IF s.stack[1].entered THEN returnFromEmitNomination(s)
                  ELSE enterEmitNomination(s)
  <2>1. Local(s) /\ s.self = n
    BY DEF NominationInv
  <2>2. s.stack # << >> /\ Update(n, t)
    BY DEF EmitNomination, Running
  <2>3. CASE s.stack[1].entered
    <3>1. t = returnFromEmitNomination(s)
      BY <2>3
    <3> HIDE DEF t
    <3>2. Local(t) /\ Handled(t, s, s.self, s.latest[s.self])
      <4> HIDE DEF s
      <4> QED BY <2>1, <2>2, <3>1, <1>returnLocal
    <3>3. NodeStep(n, t)
      BY <2>1, <3>2 DEF Handled, NodeStep
    <3> QED BY <2>2, <3>3
  <2>4. CASE ~s.stack[1].entered
    <3>1. t = enterEmitNomination(s)
      BY <2>4
    <3> HIDE DEF t
    <3>2. Local(t) /\ Handled(t, s, s.self, s.stack[1].st)
      <4> HIDE DEF s
      <4> QED BY <2>1, <2>2, <3>1, <1>enterLocal
    <3>3. NodeStep(n, t)
      BY <2>1, <3>2 DEF Handled, NodeStep
    <3> QED BY <2>2, <3>3
  <2> QED BY <2>3, <2>4

<1>ReceiveEnvelopeStep.
    ASSUME NominationInv, NEW n \in Node, NEW m \in Node, ReceiveEnvelope(n, m)
    PROVE  \E t : Update(n, t) /\ NodeStep(n, t)
  <2> USE <1>ReceiveEnvelopeStep
  <2> DEFINE s == nom[n]
  <2>1. Local(s) /\ s.self = n
    BY DEF NominationInv
  <2>2. PICK st \in nom[m].emitted : Acceptable(s, m, st) /\ Update(n, processEnvelope(s, m, st))
    BY DEF ReceiveEnvelope
  <2>3. m # n
    BY DEF ReceiveEnvelope
  <2>4. st \in Statements
    <3>1. nom[m] \in States
      BY DEF NominationInv
    <3> QED BY <2>2, <3>1, <1>StateFields
  <2>5. OwnOK(s, m, st)
    BY <2>1, <2>3 DEF OwnOK
  <2> DEFINE t == processEnvelope(s, m, st)
  <2>6. Local(t) /\ Processed(t, s, m, st)
    <3> HIDE DEF s
    <3>1. \A x : x = t => Local(x) /\ Processed(x, s, m, st)
      BY <2>1, <2>2, <2>4, <2>5, <1>processEnvelopeLocal
    <3> HIDE DEF t
    <3> QED BY <3>1
  <2> HIDE DEF t
  <2>7. NodeStep(n, t)
    BY <2>1, <2>2, <2>6 DEF Processed, NodeStep
  <2> QED BY <2>2, <2>7 DEF t

<1>NominateStep.
    ASSUME NominationInv, NEW n \in Node, Nominate(n)
    PROVE  \E t : Update(n, t) /\ NodeStep(n, t)
  <2> USE <1>NominateStep
  <2> DEFINE s == nom[n]
             t == nominate(s, Proposal[n], FALSE)
  <2>1. Local(s) /\ s.self = n
    BY DEF NominationInv
  <2>2. Update(n, t) /\ s.round = 0
    BY DEF Nominate
  <2>3. s.round + 1 \in 1 .. MaxRound
    BY SMT, <2>2, ConstantTypes
  <2>4. Proposal[n] \in Value
    BY ConstantTypes
  <2>5. t = nominate(s, Proposal[n], FALSE)
    OBVIOUS
  <2> HIDE DEF t
  <2>6. Local(t) /\ Kept(t, s)
    <3> HIDE DEF s
    <3> QED BY <2>1, <2>3, <2>4, <2>5, <1>nominateLocal
  <2> QED BY <2>1, <2>2, <2>6, <1>KeptStep

<1>TimerStep.
    ASSUME NominationInv, NEW n \in Node, NominationTimerExpired(n)
    PROVE  \E t : Update(n, t) /\ NodeStep(n, t)
  <2> USE <1>TimerStep
  <2> DEFINE s == nom[n]
             u == [s EXCEPT !.timer = FALSE]
             t == nominate(u, Proposal[n], TRUE)
  <2>1. Local(s) /\ s.self = n /\ s \in States
    BY DEF NominationInv, Local
  <2>2. Update(n, t) /\ s.round < MaxRound
    BY DEF NominationTimerExpired
  <2>3. t = nominate(u, Proposal[n], TRUE)
    OBVIOUS
  <2>4. Proposal[n] \in Value
    BY ConstantTypes
  <2> HIDE DEF t
  <2>5. u \in States
    BY <2>1 DEF States
  <2>6. /\ u.self = s.self /\ u.round = s.round /\ u.accepted = s.accepted
        /\ u.candidates = s.candidates /\ u.latest = s.latest /\ u.leaders = s.leaders
        /\ u.lastEnvelope = s.lastEnvelope /\ u.stack = s.stack /\ u.emitted = s.emitted
        /\ u.composite = s.composite
    BY <2>1 DEF States
  <2> HIDE DEF u
  <2>7. Local(u)
    BY <2>1, <2>5, <2>6, <1>SameLocal
  <2>8. u.round + 1 \in 1 .. MaxRound
    <3>1. s.round \in 0 .. MaxRound
      BY <2>1, <1>StateFields
    <3> QED BY SMT, <2>2, <2>6, <3>1, ConstantTypes
  <2>9. Local(t) /\ Kept(t, u)
    BY <2>3, <2>4, <2>7, <2>8, <1>nominateLocal
  <2>10. Kept(t, s)
    BY <2>6, <2>9, <1>KeptTransitive
  <2> QED BY <2>1, <2>2, <2>9, <2>10, <1>KeptStep

<1>StopStep.
    ASSUME NominationInv, NEW n \in Node, StopNomination(n)
    PROVE  \E t : Update(n, t) /\ NodeStep(n, t)
  <2> USE <1>StopStep
  <2> DEFINE s == nom[n]
             t == [s EXCEPT !.started = FALSE, !.timer = FALSE]
  <2>1. Local(s) /\ s.self = n /\ s \in States
    BY DEF NominationInv, Local
  <2>2. Update(n, t)
    BY DEF StopNomination
  <2>3. t \in States
    BY <2>1 DEF States
  <2>4. /\ t.self = s.self /\ t.round = s.round /\ t.accepted = s.accepted
        /\ t.candidates = s.candidates /\ t.latest = s.latest /\ t.leaders = s.leaders
        /\ t.lastEnvelope = s.lastEnvelope /\ t.stack = s.stack /\ t.emitted = s.emitted
        /\ t.composite = s.composite
    BY <2>1 DEF States
  <2> HIDE DEF t
  <2>5. Local(t) /\ Kept(t, s)
    BY <2>1, <2>3, <2>4, <1>SameLocal
  <2> QED BY <2>1, <2>2, <2>5, <1>KeptStep

<1>RestartStep.
    ASSUME NominationInv, NEW n \in Node, Restart(n)
    PROVE  \E t : Update(n, t) /\ NodeStep(n, t)
  <2> USE <1>RestartStep
  <2> DEFINE s == nom[n]
             fresh == [InitNomination(s.self) EXCEPT !.emitted = s.emitted, !.lives = s.lives + 1]
             t == IF s.emitted = {} THEN fresh ELSE setStateFromEnvelope(fresh, s.lastEnvelope)
  <2>1. Local(s) /\ s.self = n /\ s \in States
    BY DEF NominationInv, Local
  <2>2. Update(n, t)
    BY <2>1 DEF Restart
  <2>3. fresh \in States /\ Blank(fresh, s.self) /\ fresh.emitted = s.emitted
    <3>1. \A x : x = fresh => x \in States /\ Blank(x, s.self) /\ x.emitted = s.emitted
      <4> HIDE DEF s
      <4> QED BY <2>1, <1>freshFields
    <3> HIDE DEF fresh
    <3> QED BY <3>1
  <2>4. t = IF s.emitted = {} THEN fresh ELSE setStateFromEnvelope(fresh, s.lastEnvelope)
    OBVIOUS
  <2> HIDE DEF fresh, t
  <2>5. Restarted(t, s)
    <3> HIDE DEF s
    <3>1. CASE s.emitted = {}
      <4>1. t = fresh
        BY <2>4, <3>1
      <4> QED BY <2>1, <2>3, <3>1, <4>1, <1>freshLocal
    <3>2. CASE s.emitted # {}
      <4>1. t = setStateFromEnvelope(fresh, s.lastEnvelope)
        BY <2>4, <3>2
      <4> QED BY <2>1, <2>3, <4>1, <1>setStateLocal
    <3> QED BY <3>1, <3>2
  <2>6. NodeStep(n, t)
    BY <2>1, <2>5 DEF Restarted, NodeStep
  <2> QED BY <2>2, <2>6

<1>NodeSteps.
    ASSUME NominationInv, NominationNext
    PROVE  \E n \in Node : \E t : Update(n, t) /\ NodeStep(n, t)
  <2> USE <1>NodeSteps
  <2>1. PICK n \in Node :
           \/ EmitNomination(n)
           \/ \E m \in Node : ReceiveEnvelope(n, m)
           \/ Nominate(n)
           \/ NominationTimerExpired(n)
           \/ StopNomination(n)
           \/ Restart(n)
    BY DEF NominationNext
  <2>2. CASE EmitNomination(n)
    BY <2>2, <1>EmitNominationStep
  <2>3. ASSUME NEW m \in Node, ReceiveEnvelope(n, m)
        PROVE  \E k \in Node : \E t : Update(k, t) /\ NodeStep(k, t)
    BY <2>3, <1>ReceiveEnvelopeStep
  <2>4. CASE Nominate(n)
    BY <2>4, <1>NominateStep
  <2>5. CASE NominationTimerExpired(n)
    BY <2>5, <1>TimerStep
  <2>6. CASE StopNomination(n)
    BY <2>6, <1>StopStep
  <2>7. CASE Restart(n)
    BY <2>7, <1>RestartStep
  <2> QED BY <2>1, <2>2, <2>3, <2>4, <2>5, <2>6, <2>7

<1>NominationInvInit. NominationInit => NominationInv
  <2> SUFFICES ASSUME NominationInit PROVE NominationInv
    OBVIOUS
  <2>1. ASSUME NEW n \in Node
        PROVE  nom[n] \in States /\ nom[n].self = n /\ Local(nom[n]) /\ Heard(n)
    <3> DEFINE s == nom[n]
    <3>1. s = InitNomination(n)
      BY DEF NominationInit
    <3> HIDE DEF s
    <3>2. s \in States /\ Blank(s, n) /\ s.emitted = {}
      BY <3>1, <1>InitFields
    <3>3. Local(s)
      BY <3>2, <1>InitLocal
    <3>4. s.self = n /\ \A m \in Node : s.latest[m] = NoNomination
      BY <3>2 DEF Blank
    <3> QED BY <3>2, <3>3, <3>4 DEF s, Heard
  <2>2. nom \in [Node -> States]
    <3>1. nom = [n \in Node |-> nom[n]]
      BY DEF NominationInit
    <3> QED BY <2>1, <3>1
  <2> QED BY <2>1, <2>2 DEF NominationInv

<1>NominationInvStep. NominationInv /\ [NominationNext]_nom => NominationInv'
  <2> SUFFICES ASSUME NominationInv, [NominationNext]_nom PROVE NominationInv'
    OBVIOUS
  <2>1. CASE NominationNext
    <3>0. PICK n \in Node : \E t : Update(n, t) /\ NodeStep(n, t)
      BY <2>1, <1>NodeSteps
    <3>1. PICK t : Update(n, t) /\ NodeStep(n, t)
      BY <3>0
    <3>2. t \in States
      BY <3>1 DEF NodeStep, Local
    <3>3. /\ nom' \in [Node -> States] /\ nom'[n] = t
          /\ \A k \in Node : k # n => nom'[k] = nom[k]
      BY <3>1, <3>2 DEF Update, NominationInv
    <3>4. \A k \in Node : nom[k].emitted \subseteq nom'[k].emitted
      BY <3>1, <3>3 DEF NodeStep
    <3>5. ASSUME NEW k \in Node PROVE nom'[k].self = k /\ Local(nom'[k])
      BY <3>1, <3>3 DEF NodeStep, NominationInv
    <3>6. ASSUME NEW k \in Node PROVE Heard(k)'
      <4> SUFFICES ASSUME NEW m \in Node, m # k
                   PROVE  nom'[k].latest[m] = NoNomination \/ nom'[k].latest[m] \in nom'[m].emitted
        BY DEF Heard
      <4>1. nom[k].latest[m] = NoNomination \/ nom[k].latest[m] \in nom[m].emitted
        BY DEF NominationInv, Heard
      <4>2. \/ nom'[k].latest[m] = nom[k].latest[m] \/ nom'[k].latest[m] = NoNomination
            \/ nom'[k].latest[m] \in nom[m].emitted
        <5>1. CASE k = n
          BY <3>1, <3>3, <5>1 DEF NodeStep
        <5>2. CASE k # n
          BY <3>3, <5>2
        <5> QED BY <5>1, <5>2
      <4> QED BY <3>4, <4>1, <4>2
    <3> QED BY <3>3, <3>5, <3>6 DEF NominationInv
  <2>2. CASE nom' = nom
    BY <2>2 DEF NominationInv, Heard
  <2> QED BY <2>1, <2>2

<1>NominationInvariant. NominationSpec => []NominationInv
  BY <1>NominationInvInit, <1>NominationInvStep, PTL DEF NominationSpec

(* The theorems.                                                           *)

\* Candidates are backed by a quorum of nodes that accept them now, however
\* statements are delayed, repeated and reordered and whichever nodes start
\* again: what federatedRatify counts was sent, and setStateFromEnvelope
\* restores all that was sent.
<1>CandidatesStayBacked. NominationSpec => []CandidatesBacked
  <2>1. ASSUME NominationInv PROVE CandidatesBacked
    <3> SUFFICES ASSUME NEW n \in Node, NEW v \in nom[n].candidates
                 PROVE  isQuorum(Slices[n], Slices, {m \in Node : v \in nom[m].accepted})
      BY DEF CandidatesBacked
    <3>1. nom[n].self = n /\ Local(nom[n]) /\ Heard(n)
      BY <2>1 DEF NominationInv
    <3>2. isQuorum(Slices[n], Slices, Accepts(nom[n], v))
      BY <3>1 DEF Local, CandidatesOK, BackedBy
    <3>3. ASSUME NEW m \in Accepts(nom[n], v) PROVE m \in {k \in Node : v \in nom[k].accepted}
      <4>1. m \in Node /\ v \in nom[n].latest[m].accepted
        BY DEF Accepts
      <4>2. CASE m = n
        BY <3>1, <4>1, <4>2 DEF Local, SaidOK
      <4>3. CASE m # n
        <5>1. nom[n].latest[m] # NoNomination
          BY <4>1, <1>NoNominationType
        <5>2. nom[n].latest[m] \in nom[m].emitted
          BY <3>1, <4>1, <4>3, <5>1 DEF Heard
        <5>3. Local(nom[m])
          BY <2>1, <4>1 DEF NominationInv
        <5>4. nom[n].latest[m].accepted \subseteq nom[m].accepted
          BY <5>2, <5>3 DEF Local, SaidOK
        <5> QED BY <4>1, <5>4
      <4> QED BY <4>2, <4>3
    <3>4. Accepts(nom[n], v) \subseteq {m \in Node : v \in nom[m].accepted}
      BY <3>3
    <3> QED BY <3>2, <3>4, <1>QuorumGrows
  <2> QED BY <2>1, <1>NominationInvariant, PTL

\* What nomination hands to the ballot protocol implements what the ballot
\* protocol expects: the composite of a node takes steps of CandidateSteps
\* only, as candidates are never dropped, and is forgotten in a restart.
<1>NominationFeedsBallots. NominationSpec => FeedsBallotProtocol
  <2> DEFINE c == [n \in Node |-> nom[n].composite]
  <2>1. ASSUME NominationInit PROVE Source!Init
    <3>1. ASSUME NEW n \in Node PROVE nom[n].composite = 0
      <4>1. nom[n] = InitNomination(n)
        BY <2>1 DEF NominationInit
      <4>2. Blank(InitNomination(n), n)
        BY <1>InitFields
      <4> QED BY <4>1, <4>2 DEF Blank, NoValue
    <3> QED BY <3>1 DEF Source!Init
  <2>2. ASSUME NominationInv, [NominationNext]_nom PROVE [Source!Next]_c
    <3>1. CASE NominationNext
      <4>0. PICK n \in Node : \E t : Update(n, t) /\ NodeStep(n, t)
        BY <2>2, <3>1, <1>NodeSteps
      <4>1. PICK t : Update(n, t) /\ NodeStep(n, t)
        BY <4>0
      <4> DEFINE v == t.composite
      <4>2. c' = [c EXCEPT ![n] = v]
        BY <2>2, <4>1 DEF Update, NominationInv
      <4>3. c[n] = nom[n].composite
        OBVIOUS
      <4> HIDE DEF c
      <4>4. CASE v = nom[n].composite
        <5>1. c' = c
          BY <4>2, <4>3, <4>4 DEF c
        <5> QED BY <5>1
      <4>5. CASE <<c[n], v>> \in CandidateSteps[n]
        <5>0. <<c[n], v>>[2] = v
          BY SMT
        <5>1. v \in {step[2] : step \in CandidateSteps[n]}
          BY <4>5, <5>0
        <5>2. Source!Updated(n)
          BY <4>2, <4>5, <5>1 DEF Source!Updated, c
        <5> QED BY <5>2 DEF Source!Next
      <4>6. CASE v = NoValue
        <5>1. Source!Forgotten(n)
          BY <4>2, <4>6 DEF Source!Forgotten, c, NoValue
        <5> QED BY <5>1 DEF Source!Next
      <4> QED BY <4>1, <4>3, <4>4, <4>5, <4>6 DEF NodeStep
    <3>2. CASE nom' = nom
      BY <3>2
    <3> QED BY <2>2, <3>1, <3>2
  <2> QED BY <2>1, <2>2, <1>NominationInvariant, PTL DEF NominationSpec, FeedsBallotProtocol, Source!Spec

<1> QED BY <1>CandidatesStayBacked, <1>NominationFeedsBallots, PTL

\* Candidates are backed by a quorum of nodes that accept them now, however
\* statements are delayed, repeated and reordered and whichever nodes start
\* again: what federatedRatify counts was sent, and setStateFromEnvelope
\* restores all that was sent.
THEOREM CandidatesStayBacked == NominationSpec => []CandidatesBacked
BY NominationCorrect, PTL

\* What nomination hands to the ballot protocol implements what the ballot
\* protocol expects: the composite of a node takes steps of CandidateSteps
\* only, as candidates are never dropped, and is forgotten in a restart.
THEOREM NominationFeedsBallots == NominationSpec => FeedsBallotProtocol
BY NominationCorrect, PTL

(***************************************************************************)
(* Catchup: what a round verifies and replays.                             *)
(*                                                                         *)
(* NodeOK says of the node how its last closed ledger, the ledgers it has  *)
(* buffered and the round in progress fit together.  The part on headers   *)
(* is VerifiedTo: the files from the first checkpoint of the range on form *)
(* one chain with the last header verified, so when that header turns out  *)
(* to be the network's (verifyCatchupCandidate) the others are too, though *)
(* the archive was trusted for none of them.  The part on numbers is       *)
(* Connects: the range makeCatchupRange returns starts at a ledger that    *)
(* the node's state, or the buckets, can be replayed from.                 *)
(***************************************************************************)

USE CatchupAssumption

\* The chains that the headers of the files f name.
Chains(f) == {"net"} \cup {f[k] : k \in Nat}
Headers(f) == [seq : Nat, chain : Chains(f)]

EarlyRounds == [on : {TRUE}, toLedger : Nat, lclAtReset : Nat, stage : {"state"}]

LaterRounds(f) ==
    [on : {TRUE}, toLedger : Nat, lclAtReset : Nat, stage : {"verify", "buckets", "apply"},
     range : [first : Nat, last : Nat, buckets : BOOLEAN], curr : Nat,
     firstVerified : Headers(f), lastVerified : Headers(f)]

Rounds(f) == [on : {FALSE}] \cup EarlyRounds \cup LaterRounds(f)

IsNode(c, f) ==
    c \in [state : {"LM_BOOTING_STATE", "LM_SYNCED_STATE", "LM_CATCHING_UP_STATE"},
           lcl : Headers(f), syncing : Seq(Nat), net : Nat, count : Nat,
           files : {f}, states : {"net", "other"}, round : Rounds(f), gap : BOOLEAN,
           failed : {"no", "inconsistency", "overshot", "assertion"}]

IsCheckpoint(n) == \E k \in Nat \ {0} : n + 1 = k * CatchupFrequency

\* The headers of the files, from the first checkpoint of a range to h, are of
\* one chain with h.
Traced(f, start, h) ==
    h.chain = "net" =>
        \A s \in Nat : FirstOf(start) <= s /\ s <= h.seq
                         => Header(f[Containing(s)], s).chain = "net"

VerifiedTo(f, r) ==
    /\ r.lastVerified.chain = "net" => r.firstVerified.chain = "net"
    /\ r.firstVerified.seq <= r.lastVerified.seq
    /\ r.range.buckets => r.firstVerified.seq = Containing(r.range.first)
    /\ FirstOf(Containing(r.range.first)) <= r.lastVerified.seq
    /\ Traced(f, Containing(r.range.first), r.lastVerified)

\* The replay of a range starts at or before the ledger after lcl.
Connects(range, lcl) ==
    /\ 1 <= range.first /\ range.first <= range.last
    /\ IF range.buckets THEN IsCheckpoint(range.first) /\ lcl < range.first
       ELSE FirstOf(Containing(range.first)) <= lcl + 1

RangeOK(c) ==
    LET r == c.round
    IN  /\ r.range.last = r.toLedger
        /\ r.stage \in {"verify", "buckets"} => Connects(r.range, c.lcl.seq)

\* The next file to verify.
VerifyOK(c, f) ==
    LET r == c.round
    IN  /\ IsCheckpoint(r.curr) /\ Containing(r.range.first) <= r.curr
        /\ Containing(r.range.last) < r.curr =>
              /\ r.range.first = r.range.last
              /\ r.range.first = FirstOf(Containing(r.range.first))
        /\ (\A k \in CheckpointSet : f[k] = "net") => r.lastVerified.chain = "net"
        /\ \/ r.lastVerified.seq = 0 /\ r.curr = Containing(r.range.first)
           \/ r.lastVerified.seq + CatchupFrequency = r.curr /\ VerifiedTo(f, r)

\* The next ledger to replay.
ApplyOK(c, f) ==
    LET r == c.round
    IN  /\ VerifiedTo(f, r)
        /\ r.lastVerified.seq = r.range.last /\ r.lastVerified.chain = "net"
        /\ r.curr = FirstOf(Containing(r.range.first)) \/ r.stage = "apply"
        /\ FirstOf(Containing(r.range.first)) <= r.curr /\ r.curr <= r.range.last
        /\ r.stage = "apply" => r.curr <= c.lcl.seq + 1
        /\ r.stage = "buckets" => r.range.buckets

RoundOK(c, f) ==
    LET r == c.round
    IN  /\ c.lcl.seq <= r.toLedger /\ r.toLedger < MaxNetLedger
        /\ c.syncing[1] = r.toLedger + 1
        /\ r.stage \in {"state", "verify", "buckets"} => r.lclAtReset = c.lcl.seq
        /\ r.stage # "state" => RangeOK(c)
        /\ r.stage = "verify" => VerifyOK(c, f)
        /\ r.stage \in {"buckets", "apply"} => ApplyOK(c, f)

\* The buffer has what was externalized since the round began, up to a gap.
Buffered(c) ==
    /\ c.state = "LM_CATCHING_UP_STATE" <=> c.round.on
    /\ c.state = "LM_CATCHING_UP_STATE" <=> c.syncing # << >>
    /\ \A i \in 1..Len(c.syncing) : c.syncing[i] <= c.net
    /\ c.state = "LM_CATCHING_UP_STATE" /\ ~c.gap => c.syncing[Len(c.syncing)] = c.net

NodeOK(c, f) ==
    /\ c.lcl.chain = "net" /\ 1 <= c.lcl.seq /\ c.lcl.seq <= c.net
    /\ c.state = "LM_SYNCED_STATE" /\ c.failed = "no" => c.lcl.seq = c.net \/ c.gap
    /\ Buffered(c)
    /\ c.round.on => RoundOK(c, f)

-----------------------------------------------------------------------------
(* Checkpoints: numbers one below a multiple of the frequency.             *)

LEMMA MaxOfTwo ==
    ASSUME NEW x \in Int, NEW y \in Int
    PROVE  Max({x, y}) = IF x >= y THEN x ELSE y
<1> DEFINE m == IF x >= y THEN x ELSE y
<1>1. m \in {x, y} /\ \A z \in {x, y} : m >= z
  OBVIOUS
<1>2. \A n \in {x, y} : (\A z \in {x, y} : n >= z) => n = m
  OBVIOUS
<1> QED BY <1>1, <1>2 DEF Max

LEMMA FirstOfCheckpoint ==
    ASSUME NEW n \in Int
    PROVE  /\ FirstOf(n) = IF n - CatchupFrequency >= 0 THEN n - CatchupFrequency + 1 ELSE 1
           /\ FirstOf(n) \in Nat \ {0}
<1>1. FirstOf(n) = IF 1 >= n - CatchupFrequency + 1 THEN 1 ELSE n - CatchupFrequency + 1
  BY MaxOfTwo DEF FirstOf, GENESIS_LEDGER_SEQ
<1> QED BY <1>1

LEMMA ProductOrder ==
    ASSUME NEW j \in Nat, NEW k \in Nat, NEW h \in Nat \ {0}
    PROVE  /\ j * h \in Nat /\ (j + 1) * h = j * h + h
           /\ j < k => j * h + h <= k * h
           /\ (j * h < k * h) => j < k
<1>1. j * h \in Nat /\ k * h \in Nat /\ (j + 1) * h = j * h + h
  BY SMT
<1>2. ASSUME j < k PROVE j * h + h <= k * h
  <2> DEFINE d == k - (j + 1)
  <2>1. d \in Nat /\ k = (j + 1) + d
    BY SMT, <1>2
  <2>2. k * h = (j + 1) * h + d * h /\ d * h \in Nat
    <3> HIDE DEF d
    <3> QED BY SMT, <2>1
  <2> QED BY SMT, <1>1, <2>2
<1>3. ASSUME j * h < k * h, ~(j < k) PROVE FALSE
  <2> DEFINE d == j - k
  <2>1. d \in Nat /\ j = k + d
    BY SMT, <1>3
  <2>2. j * h = k * h + d * h /\ d * h \in Nat
    <3> HIDE DEF d
    <3> QED BY SMT, <2>1
  <2> QED BY SMT, <1>1, <2>2, <1>3
<1> QED BY <1>1, <1>2, <1>3

LEMMA Quotient ==
    ASSUME NEW n \in Nat, NEW h \in Nat \ {0}
    PROVE  /\ n \div h \in Nat
           /\ (n \div h) * h <= n /\ n < (n \div h) * h + h
BY SMT

\* checkpointContainingLedger gives the first checkpoint that is not below.
LEMMA ContainingBounds ==
    ASSUME NEW n \in Nat
    PROVE  /\ Containing(n) \in Nat /\ IsCheckpoint(Containing(n))
           /\ n <= Containing(n) /\ Containing(n) < n + CatchupFrequency
<1> DEFINE F == CatchupFrequency
           k == (n + F) \div F
<1>1. F \in Nat \ {0} /\ n + F \in Nat
  OBVIOUS
<1>2. k \in Nat /\ k * F <= n + F /\ n + F < k * F + F
  <2> HIDE DEF F
  <2> QED BY <1>1, Quotient
<1>3. Containing(n) = k * F - 1
  <2>1. n + 1 # 0 /\ (n + 1) + F - 1 = n + F
    BY <1>1
  <2> QED BY <2>1 DEF Containing, checkpointContainingLedger, nextCheckpointLedger
<1> HIDE DEF F, k
<1>4. k # 0
  BY SMT, <1>1, <1>2
<1>5. k * F \in Nat
  BY SMT, <1>1, <1>2
<1>6. Containing(n) \in Nat /\ n <= Containing(n) /\ Containing(n) < n + F /\ Containing(n) + 1 = k * F
  BY SMT, <1>1, <1>2, <1>3, <1>5
<1> QED BY Zenon, <1>2, <1>4, <1>6 DEF IsCheckpoint, F

\* Two checkpoints are at least the frequency apart.
LEMMA CheckpointsApart ==
    ASSUME NEW m \in Int, IsCheckpoint(m), NEW n \in Int, IsCheckpoint(n), m < n
    PROVE  m + CatchupFrequency <= n
<1>1. PICK j \in Nat \ {0} : m + 1 = j * CatchupFrequency
  BY Zenon DEF IsCheckpoint
<1>2. PICK k \in Nat \ {0} : n + 1 = k * CatchupFrequency
  BY Zenon DEF IsCheckpoint
<1>3. j * CatchupFrequency < k * CatchupFrequency
  BY SMT, <1>1, <1>2
<1>4. j * CatchupFrequency + CatchupFrequency <= k * CatchupFrequency
  BY <1>3, ProductOrder
<1> QED BY SMT, <1>1, <1>2, <1>4

LEMMA NeighbourCheckpoints ==
    ASSUME NEW n \in Nat, IsCheckpoint(n)
    PROVE  /\ IsCheckpoint(n + CatchupFrequency)
           /\ CatchupFrequency <= n => IsCheckpoint(n - CatchupFrequency)
           /\ CatchupFrequency - 1 <= n
<1>1. PICK j \in Nat \ {0} : n + 1 = j * CatchupFrequency
  BY Zenon DEF IsCheckpoint
<1>2. n + CatchupFrequency + 1 = (j + 1) * CatchupFrequency
  BY SMT, <1>1, ProductOrder
<1>3. ASSUME CatchupFrequency <= n
      PROVE  /\ j - 1 \in Nat \ {0}
             /\ n - CatchupFrequency + 1 = (j - 1) * CatchupFrequency
  <2>1. j - 1 \in Nat /\ ((j - 1) + 1) * CatchupFrequency = (j - 1) * CatchupFrequency + CatchupFrequency
    BY SMT, ProductOrder
  <2>2. n - CatchupFrequency + 1 = (j - 1) * CatchupFrequency
    BY SMT, <1>1, <2>1
  <2>3. j - 1 # 0
    BY SMT, <2>2, <1>3
  <2> QED BY <2>1, <2>2, <2>3
<1>4. CatchupFrequency - 1 <= n
  <2>1. j - 1 \in Nat /\ ((j - 1) + 1) * CatchupFrequency = (j - 1) * CatchupFrequency + CatchupFrequency
        /\ (j - 1) * CatchupFrequency \in Nat
    BY SMT, ProductOrder
  <2> QED BY SMT, <1>1, <2>1
<1>5. IsCheckpoint(n + CatchupFrequency)
  <2>1. j + 1 \in Nat \ {0}
    OBVIOUS
  <2> QED BY Zenon, <2>1, <1>2 DEF IsCheckpoint
<1>6. CatchupFrequency <= n => IsCheckpoint(n - CatchupFrequency)
  BY Zenon, <1>3 DEF IsCheckpoint
<1> QED BY Zenon, <1>4, <1>5, <1>6

\* The ledgers of a checkpoint are those down to the checkpoint before.
LEMMA ContainingIs ==
    ASSUME NEW n \in Nat, IsCheckpoint(n), NEW s \in Nat, s <= n, n < s + CatchupFrequency
    PROVE  Containing(s) = n
<1>1. /\ Containing(s) \in Nat /\ IsCheckpoint(Containing(s))
      /\ s <= Containing(s) /\ Containing(s) < s + CatchupFrequency
  BY ContainingBounds
<1>2. ASSUME Containing(s) < n PROVE FALSE
  BY <1>1, <1>2, CheckpointsApart
<1>3. ASSUME n < Containing(s) PROVE FALSE
  BY <1>1, <1>3, CheckpointsApart
<1> QED BY <1>1, <1>2, <1>3

LEMMA ContainingGrows ==
    ASSUME NEW m \in Nat, NEW n \in Nat, m <= n
    PROVE  Containing(m) <= Containing(n)
<1>1. /\ Containing(m) \in Nat /\ IsCheckpoint(Containing(m))
      /\ m <= Containing(m) /\ Containing(m) < m + CatchupFrequency
  BY ContainingBounds
<1>2. /\ Containing(n) \in Nat /\ IsCheckpoint(Containing(n)) /\ n <= Containing(n)
  BY ContainingBounds
<1>3. ASSUME Containing(n) < Containing(m) PROVE FALSE
  BY <1>1, <1>2, <1>3, CheckpointsApart
<1> QED BY <1>1, <1>2, <1>3

-----------------------------------------------------------------------------
(* makeCatchupRange.                                                       *)

LEMMA FirstNeeded ==
    ASSUME NEW to \in Nat \ {0}, NEW count \in Nat
    PROVE  /\ firstNeededLedger(to, count) \in Nat
           /\ 1 <= firstNeededLedger(to, count) /\ firstNeededLedger(to, count) <= to
<1>1. Max({count, 1}) = IF count >= 1 THEN count ELSE 1
  BY MaxOfTwo
<1> QED BY <1>1 DEF firstNeededLedger, GENESIS_LEDGER_SEQ

LEMMA FirstNotFinished ==
    ASSUME NEW lcl \in Nat
    PROVE  /\ firstNotFinishedCheckpoint(lcl) \in Nat
           /\ lcl < firstNotFinishedCheckpoint(lcl)
           /\ IsCheckpoint(firstNotFinishedCheckpoint(lcl))
           /\ firstNotFinishedCheckpoint(lcl) <= lcl + CatchupFrequency
<1>1. /\ Containing(lcl) \in Nat /\ IsCheckpoint(Containing(lcl))
      /\ lcl <= Containing(lcl) /\ Containing(lcl) < lcl + CatchupFrequency
  BY ContainingBounds
<1>2. IsCheckpoint(Containing(lcl) + CatchupFrequency)
  BY <1>1, NeighbourCheckpoints
<1> QED BY <1>1, <1>2 DEF firstNotFinishedCheckpoint

LEMMA CatchupStart ==
    ASSUME NEW lcl \in Nat \ {0}, NEW s \in Nat, lcl <= s,
           NEW b \in Nat, lcl < b, IsCheckpoint(b), b <= lcl + CatchupFrequency
    PROVE  LET start == computeCatchupStart(s, b)
           IN  /\ start \in [buckets : BOOLEAN, first : Nat]
               /\ 1 <= start.first /\ start.first <= s
               /\ start.buckets => IsCheckpoint(start.first)
               /\ ~start.buckets => FirstOf(Containing(start.first)) <= lcl + 1
<1> DEFINE n == Containing(s)
<1>1. n \in Nat /\ IsCheckpoint(n) /\ s <= n /\ n < s + CatchupFrequency
  BY ContainingBounds
<1>2. CASE s = n
  <2>1. computeCatchupStart(s, b) = [buckets |-> TRUE, first |-> s]
    BY Zenon, <1>2 DEF computeCatchupStart
  <2> QED BY <2>1, <1>1, <1>2
<1>3. CASE s # n /\ s < CatchupFrequency - 1
  <2>1. computeCatchupStart(s, b) = [buckets |-> FALSE, first |-> s]
    BY <1>3 DEF computeCatchupStart
  <2>2. CatchupFrequency - 1 \in Nat /\ IsCheckpoint(CatchupFrequency - 1)
    <3>1. (CatchupFrequency - 1) + 1 = 1 * CatchupFrequency
      OBVIOUS
    <3>2. 1 \in Nat \ {0}
      OBVIOUS
    <3>3. IsCheckpoint(CatchupFrequency - 1)
      BY Zenon, <3>1, <3>2 DEF IsCheckpoint
    <3> QED BY <3>3
  <2>3. n = CatchupFrequency - 1
    <3> HIDE DEF n
    <3>1. s <= CatchupFrequency - 1 /\ CatchupFrequency - 1 < s + CatchupFrequency
      BY <1>3
    <3> QED BY <2>2, <3>1, ContainingIs DEF n
  <2>4. FirstOf(n) = 1
    BY <2>3, FirstOfCheckpoint
  <2> QED BY <2>1, <2>4
<1>4. CASE s # n /\ ~(s < CatchupFrequency - 1) /\ n - CatchupFrequency >= b
  <2>1. computeCatchupStart(s, b) = [buckets |-> TRUE, first |-> n - CatchupFrequency]
    BY <1>4 DEF computeCatchupStart
  <2>2. IsCheckpoint(n - CatchupFrequency)
    <3> HIDE DEF n
    <3>1. CatchupFrequency <= n
      BY <1>1, <1>4
    <3> QED BY <1>1, <3>1, NeighbourCheckpoints
  <2> HIDE DEF n
  <2>3. n - CatchupFrequency \in Nat /\ 1 <= n - CatchupFrequency /\ n - CatchupFrequency <= s
    BY <1>1, <1>4
  <2> QED BY <2>1, <2>2, <2>3
<1>5. CASE s # n /\ ~(s < CatchupFrequency - 1) /\ ~(n - CatchupFrequency >= b)
  <2>1. computeCatchupStart(s, b) = [buckets |-> FALSE, first |-> s]
    BY <1>5 DEF computeCatchupStart
  <2>2. FirstOf(n) <= lcl + 1
    <3> HIDE DEF n
    <3>1. ASSUME ~(n <= b) PROVE FALSE
      BY <1>1, <1>5, <3>1, CheckpointsApart
    <3>2. n - CatchupFrequency + 1 <= lcl + 1
      BY <1>1, <3>1
    <3> QED BY <1>1, <3>2, FirstOfCheckpoint
  <2> QED BY <2>1, <2>2
<1> QED BY <1>2, <1>3, <1>4, <1>5

RangeFits(range, lcl, to) ==
    /\ range \in [first : Nat, last : Nat, buckets : BOOLEAN]
    /\ range.last = to
    /\ Connects(range, lcl)

LEMMA RangeConnects ==
    ASSUME NEW lcl \in Nat \ {0}, NEW to \in Nat, lcl <= to, NEW count \in Nat
    PROVE  RangeFits(makeCatchupRange(lcl, to, count), lcl, to)
<1> DEFINE needed == firstNeededLedger(to, count)
           s == Max({needed, lcl})
           b == firstNotFinishedCheckpoint(lcl)
           start == computeCatchupStart(s, b)
           range == makeCatchupRange(lcl, to, count)
<1>1. needed \in Nat /\ 1 <= needed /\ needed <= to
  <2>1. to \in Nat \ {0}
    OBVIOUS
  <2> QED BY <2>1, FirstNeeded
<1>2. s \in Nat /\ lcl <= s /\ s <= to
  <2> HIDE DEF needed
  <2>1. s = IF needed >= lcl THEN needed ELSE lcl
    BY <1>1, MaxOfTwo
  <2> QED BY <1>1, <2>1
<1>3. b \in Nat /\ lcl < b /\ IsCheckpoint(b) /\ b <= lcl + CatchupFrequency
  BY FirstNotFinished
<1>4. /\ start \in [buckets : BOOLEAN, first : Nat]
      /\ 1 <= start.first /\ start.first <= s
      /\ start.buckets => IsCheckpoint(start.first)
      /\ ~start.buckets => FirstOf(Containing(start.first)) <= lcl + 1
  <2> HIDE DEF s, b
  <2> QED BY <1>2, <1>3, CatchupStart
<1>5. range = [first |-> start.first, last |-> to,
               buckets |-> start.buckets /\ start.first > lcl + 1]
  BY Zenon DEF makeCatchupRange
<1> HIDE DEF start, s, range
<1>6. /\ range.first = start.first /\ range.last = to
      /\ range.buckets = (start.buckets /\ start.first > lcl + 1)
      /\ range \in [first : Nat, last : Nat, buckets : BOOLEAN]
  <2>1. start.first \in Nat /\ (start.buckets /\ start.first > lcl + 1) \in BOOLEAN
    BY Zenon, <1>4
  <2> QED BY Zenon, <1>5, <2>1
<1>7. range.first <= range.last /\ 1 <= range.first
  BY <1>4, <1>2, <1>6
<1>8. ASSUME range.buckets PROVE IsCheckpoint(range.first) /\ lcl < range.first
  <2>1. IsCheckpoint(range.first) /\ start.first > lcl + 1
    BY Zenon, <1>4, <1>6, <1>8
  <2> QED BY <2>1, <1>4, <1>6
<1>9. ASSUME ~range.buckets PROVE FirstOf(Containing(range.first)) <= lcl + 1
  <2>1. CASE ~start.buckets
    BY Zenon, <1>4, <1>6, <2>1
  <2>2. CASE ~(start.first > lcl + 1)
    <3> DEFINE n == Containing(start.first)
    <3>1. n \in Nat /\ n < start.first + CatchupFrequency
      BY <1>4, ContainingBounds
    <3> HIDE DEF n
    <3>2. FirstOf(n) <= lcl + 1
      BY <3>1, <2>2, <1>4, FirstOfCheckpoint
    <3> QED BY Zenon, <3>2, <1>6 DEF n
  <2> QED BY Zenon, <2>1, <2>2, <1>6, <1>9
<1>10. Connects(range, lcl)
  BY Zenon, <1>7, <1>8, <1>9 DEF Connects
<1>11. RangeFits(range, lcl, to)
  BY Zenon, <1>6, <1>10 DEF RangeFits
<1> QED BY Zenon, <1>11 DEF range

-----------------------------------------------------------------------------
(* Headers, rounds and the node.                                           *)

LEMMA HeaderFields ==
    ASSUME NEW chain, NEW seq \in Nat
    PROVE  /\ Header(chain, seq).seq = seq
           /\ Header(chain, seq).chain = IF seq < Branch THEN "net" ELSE chain
           /\ Header("net", seq).chain = "net"
BY Zenon DEF Header

LEMMA HeaderType ==
    ASSUME NEW f, NEW seq \in Nat
    PROVE  /\ Header("net", seq) \in Headers(f)
           /\ \A k \in Nat : Header(f[k], seq) \in Headers(f)
BY Zenon DEF Header, Headers, Chains

LEMMA NetHeader ==
    ASSUME NEW f, NEW h \in Headers(f), h.chain = "net"
    PROVE  h = Header("net", h.seq)
<1>1. Header("net", h.seq) = [seq |-> h.seq, chain |-> "net"]
  BY Zenon DEF Header
<1>2. h = [seq |-> h.seq, chain |-> h.chain]
  BY Zenon DEF Headers
<1> QED BY <1>1, <1>2

LEMMA RoundKinds ==
    ASSUME NEW f, NEW r \in Rounds(f)
    PROVE  /\ r.on \in BOOLEAN
           /\ r.on => /\ r.toLedger \in Nat /\ r.lclAtReset \in Nat
                      /\ r.stage \in {"state", "verify", "buckets", "apply"}
                      /\ r.stage # "state" => r \in LaterRounds(f)
BY Zenon DEF Rounds, EarlyRounds, LaterRounds

LEMMA LaterFields ==
    ASSUME NEW f, NEW r \in LaterRounds(f)
    PROVE  /\ r.on /\ r.toLedger \in Nat /\ r.stage \in {"verify", "buckets", "apply"}
           /\ r.lclAtReset \in Nat
           /\ r.range.first \in Nat /\ r.range.last \in Nat /\ r.range.buckets \in BOOLEAN
           /\ r.range \in [first : Nat, last : Nat, buckets : BOOLEAN]
           /\ r.curr \in Nat
           /\ r.firstVerified \in Headers(f) /\ r.lastVerified \in Headers(f)
           /\ r.firstVerified.seq \in Nat /\ r.lastVerified.seq \in Nat
           /\ r \in Rounds(f)
<1>1. /\ r.on /\ r.toLedger \in Nat /\ r.stage \in {"verify", "buckets", "apply"}
      /\ r.lclAtReset \in Nat
      /\ r.range \in [first : Nat, last : Nat, buckets : BOOLEAN]
      /\ r.curr \in Nat
      /\ r.firstVerified \in Headers(f) /\ r.lastVerified \in Headers(f)
  BY Zenon DEF LaterRounds
<1>2. r.range.first \in Nat /\ r.range.last \in Nat /\ r.range.buckets \in BOOLEAN
  BY Zenon, <1>1
<1>3. r.firstVerified.seq \in Nat /\ r.lastVerified.seq \in Nat
  BY Zenon, <1>1 DEF Headers
<1> QED BY Zenon, <1>1, <1>2, <1>3 DEF Rounds

LEMMA NodeFields ==
    ASSUME NEW c, NEW f, IsNode(c, f)
    PROVE  /\ c.state \in {"LM_BOOTING_STATE", "LM_SYNCED_STATE", "LM_CATCHING_UP_STATE"}
           /\ c.lcl \in Headers(f) /\ c.lcl.seq \in Nat
           /\ c.syncing \in Seq(Nat) /\ c.net \in Nat /\ c.count \in Nat /\ c.files = f
           /\ c.states \in {"net", "other"} /\ c.round \in Rounds(f) /\ c.gap \in BOOLEAN
           /\ c.failed \in {"no", "inconsistency", "overshot", "assertion"}
<1>1. /\ c.state \in {"LM_BOOTING_STATE", "LM_SYNCED_STATE", "LM_CATCHING_UP_STATE"} /\ c.lcl \in Headers(f)
      /\ c.syncing \in Seq(Nat) /\ c.net \in Nat /\ c.count \in Nat /\ c.files = f
      /\ c.states \in {"net", "other"} /\ c.round \in Rounds(f) /\ c.gap \in BOOLEAN
      /\ c.failed \in {"no", "inconsistency", "overshot", "assertion"}
  BY Zenon DEF IsNode
<1>2. c.lcl.seq \in Nat
  BY Zenon, <1>1 DEF Headers
<1> QED BY Zenon, <1>1, <1>2

\* A round that is off, and an empty buffer.
LEMMA IdleNode ==
    ASSUME NEW c, NEW f, NodeOK(c, f), IsNode(c, f), NEW d,
           d.lcl = c.lcl, d.net = c.net, d.syncing = << >>, d.round = NoRound,
           d.state # "LM_CATCHING_UP_STATE", d.state = "LM_SYNCED_STATE" /\ d.failed = "no" => d.lcl.seq = d.net \/ d.gap
    PROVE  NodeOK(d, f)
<1>1. ~d.round.on
  BY SMT DEF NoRound
<1>2. \A i \in 1..Len(d.syncing) : d.syncing[i] <= d.net
  OBVIOUS
<1>3. Buffered(d)
  BY Zenon, <1>1, <1>2 DEF Buffered
<1> QED BY Zenon, <1>1, <1>3 DEF NodeOK

LEMMA NoRoundType == ASSUME NEW f PROVE NoRound \in Rounds(f) /\ << >> \in Seq(Nat)
<1>1. NoRound \in Rounds(f)
  BY Zenon DEF NoRound, Rounds
<1>2. << >> \in Seq(Nat)
  OBVIOUS
<1> QED BY Zenon, <1>1, <1>2

LEMMA NotCaughtUp ==
    ASSUME NEW c, NEW f, NodeOK(c, f), IsNode(c, f)
    PROVE  NodeOK(historyNotCaughtup(c), f) /\ IsNode(historyNotCaughtup(c), f)
<1> DEFINE d == historyNotCaughtup(c)
<1>1. d \in [state : {"LM_BOOTING_STATE"}, lcl : {c.lcl}, syncing : {<< >>}, net : {c.net},
             count : {c.count}, files : {c.files}, states : {c.states}, round : {NoRound},
             gap : {c.gap}, failed : {c.failed}]
  BY Zenon DEF historyNotCaughtup, IsNode
<1> HIDE DEF d
<1>2. /\ d.state = "LM_BOOTING_STATE" /\ d.lcl = c.lcl /\ d.syncing = << >> /\ d.net = c.net
      /\ d.round = NoRound
  BY Zenon, <1>1
<1>3. IsNode(d, f)
  <2>1. NoRound \in Rounds(f) /\ << >> \in Seq(Nat)
    BY Zenon, NoRoundType
  <2> QED BY Zenon, <1>1, <2>1, NodeFields DEF IsNode
<1>4. NodeOK(d, f)
  BY Zenon, <1>2, IdleNode
<1> QED BY Zenon, <1>3, <1>4 DEF d

-----------------------------------------------------------------------------
(* valueExternalized.                                                      *)

\* A round does not see the ledgers that are externalized meanwhile.
LEMMA RoundKept ==
    ASSUME NEW c, NEW f, RoundOK(c, f), NEW d, d.lcl = c.lcl, d.round = c.round,
           d.syncing[1] = c.syncing[1]
    PROVE  RoundOK(d, f)
BY Zenon DEF RoundOK, RangeOK, VerifyOK, ApplyOK

LEMMA NewNet ==
    ASSUME NEW c, NEW f, IsNode(c, f), NEW n \in Nat
    PROVE  LET d == [c EXCEPT !.net = n]
           IN  /\ IsNode(d, f) /\ d.net = n
               /\ d.state = c.state /\ d.lcl = c.lcl /\ d.syncing = c.syncing
               /\ d.round = c.round /\ d.gap = c.gap /\ d.failed = c.failed
<1> DEFINE d == [c EXCEPT !.net = n]
<1>1. d \in [state : {c.state}, lcl : {c.lcl}, syncing : {c.syncing}, net : {n},
             count : {c.count}, files : {c.files}, states : {c.states}, round : {c.round},
             gap : {c.gap}, failed : {c.failed}]
  BY Zenon DEF IsNode
<1> HIDE DEF d
<1>2. /\ d.net = n /\ d.state = c.state /\ d.lcl = c.lcl /\ d.syncing = c.syncing
      /\ d.round = c.round /\ d.gap = c.gap /\ d.failed = c.failed
  BY Zenon, <1>1
<1>3. IsNode(d, f)
  BY Zenon, <1>1, NodeFields DEF IsNode
<1> QED BY Zenon, <1>2, <1>3 DEF d

\* add, for a buffer that is in use: d is c with n appended or noted as a gap.
Adds(c, d, n) ==
    /\ d.state = c.state /\ d.lcl = c.lcl /\ d.net = c.net
    /\ d.round = c.round /\ d.failed = c.failed
    /\ \/ d.syncing = Append(c.syncing, n)
       \/ d.syncing = c.syncing /\ d.gap

LEMMA Buffers ==
    ASSUME NEW c, NEW f, IsNode(c, f), NEW n \in Nat,
           c.state = "LM_CATCHING_UP_STATE", c.syncing # << >>
    PROVE  IsNode(add(c, n), f) /\ Adds(c, add(c, n), n)
<1> DEFINE d == add(c, n)
<1>1. CASE LastBuffered(c) + 1 = n
  <2>1. d = [c EXCEPT !.syncing = Append(c.syncing, n)]
    BY Zenon, <1>1 DEF add
  <2>2. d \in [state : {c.state}, lcl : {c.lcl}, syncing : {Append(c.syncing, n)}, net : {c.net},
               count : {c.count}, files : {c.files}, states : {c.states}, round : {c.round},
               gap : {c.gap}, failed : {c.failed}]
    BY Zenon, <2>1 DEF IsNode
  <2> HIDE DEF d
  <2>3. c.syncing \in Seq(Nat)
    BY Zenon, NodeFields
  <2>4. Append(c.syncing, n) \in Seq(Nat)
    BY SMT, <2>3
  <2>5. IsNode(d, f)
    BY Zenon, <2>2, <2>4, NodeFields DEF IsNode
  <2>6. /\ d.net = c.net /\ d.state = c.state /\ d.lcl = c.lcl /\ d.syncing = Append(c.syncing, n)
        /\ d.round = c.round /\ d.failed = c.failed
    BY Zenon, <2>2
  <2> QED BY Zenon, <2>5, <2>6 DEF d, Adds
<1>2. CASE LastBuffered(c) + 1 # n
  <2>1. d = [c EXCEPT !.gap = TRUE]
    BY Zenon, <1>2 DEF add
  <2>2. d \in [state : {c.state}, lcl : {c.lcl}, syncing : {c.syncing}, net : {c.net},
               count : {c.count}, files : {c.files}, states : {c.states}, round : {c.round},
               gap : {TRUE}, failed : {c.failed}]
    BY Zenon, <2>1 DEF IsNode
  <2> HIDE DEF d
  <2>3. IsNode(d, f)
    BY Zenon, <2>2, NodeFields DEF IsNode
  <2>4. /\ d.net = c.net /\ d.state = c.state /\ d.lcl = c.lcl /\ d.syncing = c.syncing
        /\ d.round = c.round /\ d.failed = c.failed /\ d.gap
    BY Zenon, <2>2
  <2> QED BY Zenon, <2>3, <2>4 DEF d, Adds
<1> QED BY Zenon, <1>1, <1>2

LEMMA ExternalizedWhileCatchingUp ==
    ASSUME NEW c, NEW f, NodeOK(c, f), IsNode(c, f), NEW n \in Nat, c.net < n,
           c.state = "LM_CATCHING_UP_STATE"
    PROVE  LET d == valueExternalized([c EXCEPT !.net = n], n)
           IN  NodeOK(d, f) /\ IsNode(d, f)
<1> DEFINE e == [c EXCEPT !.net = n]
           d == add(e, n)
<1>1. /\ IsNode(e, f) /\ e.net = n
      /\ e.state = c.state /\ e.lcl = c.lcl /\ e.syncing = c.syncing
      /\ e.round = c.round /\ e.gap = c.gap /\ e.failed = c.failed
  BY Zenon, NewNet
<1> HIDE DEF e
<1>2. valueExternalized(e, n) = d
  BY Zenon, <1>1 DEF valueExternalized
<1>3. c.syncing # << >> /\ c.round.on /\ \A i \in 1..Len(c.syncing) : c.syncing[i] <= c.net
  BY Zenon DEF NodeOK, Buffered
<1>4. /\ IsNode(d, f) /\ d.state = c.state /\ d.lcl = c.lcl /\ d.net = n
      /\ d.round = c.round /\ d.failed = c.failed
      /\ \/ d.syncing = Append(c.syncing, n)
         \/ d.syncing = c.syncing /\ d.gap
  <2>1. e.state = "LM_CATCHING_UP_STATE" /\ e.syncing # << >>
    BY Zenon, <1>1, <1>3
  <2>2. IsNode(d, f) /\ Adds(e, d, n)
    BY Zenon, <1>1, <2>1, Buffers
  <2> HIDE DEF d
  <2> QED BY Zenon, <1>1, <2>2 DEF Adds
<1> HIDE DEF d
<1>5. c.syncing \in Seq(Nat) /\ c.net \in Nat /\ c.lcl.seq \in Nat
  BY Zenon, NodeFields
<1>6. /\ d.syncing # << >> /\ d.syncing[1] = c.syncing[1]
      /\ \A i \in 1..Len(d.syncing) : d.syncing[i] <= n
      /\ d.gap \/ d.syncing[Len(d.syncing)] = n
  <2>1. CASE d.syncing = Append(c.syncing, n)
    BY SMT, <2>1, <1>3, <1>5
  <2>2. CASE d.syncing = c.syncing /\ d.gap
    BY SMT, <2>2, <1>3, <1>5
  <2> QED BY Zenon, <2>1, <2>2, <1>4
<1>7. RoundOK(d, f)
  <2>1. RoundOK(c, f)
    BY Zenon, <1>3 DEF NodeOK
  <2> QED BY Zenon, <2>1, <1>4, <1>6, RoundKept
<1>8. Buffered(d)
  BY Zenon, <1>3, <1>4, <1>6 DEF Buffered
<1>9. d.lcl.chain = "net" /\ 1 <= d.lcl.seq /\ d.lcl.seq <= d.net
  <2>1. c.lcl.chain = "net" /\ 1 <= c.lcl.seq /\ c.lcl.seq <= c.net
    BY Zenon DEF NodeOK
  <2>2. c.lcl.seq <= n
    BY SMT, <2>1, <1>5
  <2> QED BY Zenon, <2>1, <2>2, <1>4
<1>10. d.state # "LM_SYNCED_STATE"
  BY SMT, <1>4
<1>11. NodeOK(d, f)
  BY Zenon, <1>7, <1>8, <1>9, <1>10 DEF NodeOK
<1> QED BY Zenon, <1>2, <1>4, <1>11 DEF e

\* The next ledger is closed.
LEMMA ExternalizedNext ==
    ASSUME NEW c, NEW f, NodeOK(c, f), IsNode(c, f), NEW n \in Nat, c.net < n,
           c.state # "LM_CATCHING_UP_STATE", n = c.lcl.seq + 1
    PROVE  LET d == valueExternalized([c EXCEPT !.net = n], n)
           IN  NodeOK(d, f) /\ IsNode(d, f)
<1> DEFINE e == [c EXCEPT !.net = n]
           g == [e EXCEPT !.state = "LM_SYNCED_STATE", !.gap = FALSE]
           d == [g EXCEPT !.lcl = Header("net", n)]
<1>1. /\ IsNode(e, f) /\ e.net = n
      /\ e.state = c.state /\ e.lcl = c.lcl /\ e.syncing = c.syncing
      /\ e.round = c.round /\ e.gap = c.gap /\ e.failed = c.failed
  BY Zenon, NewNet
<1> HIDE DEF e
<1>2. c.lcl = Header("net", n - 1)
  <2>1. c.lcl \in Headers(f) /\ c.lcl.seq \in Nat /\ c.lcl.chain = "net"
    BY Zenon, NodeFields DEF NodeOK
  <2>2. c.lcl = Header("net", c.lcl.seq)
    BY Zenon, <2>1, NetHeader
  <2>3. n - 1 = c.lcl.seq
    BY SMT, <2>1
  <2> QED BY Zenon, <2>2, <2>3
<1>3. g \in [state : {"LM_SYNCED_STATE"}, lcl : {e.lcl}, syncing : {e.syncing}, net : {e.net},
             count : {e.count}, files : {e.files}, states : {e.states}, round : {e.round},
             gap : {FALSE}, failed : {e.failed}]
  BY Zenon, <1>1 DEF IsNode
<1>4. valueExternalized(e, n) = closeLedger(g, n)
  <2>1. ~(n <= c.lcl.seq) /\ ~(n > c.lcl.seq + 1)
    <3>1. c.lcl.seq \in Nat
      BY Zenon, NodeFields
    <3> QED BY SMT, <3>1
  <2> QED BY Zenon, <1>1, <2>1 DEF valueExternalized
<1> HIDE DEF g
<1>5. closeLedger(g, n) = d
  <2>1. g.lcl = c.lcl
    BY Zenon, <1>1, <1>3
  <2> QED BY Zenon, <2>1, <1>2 DEF closeLedger
<1>6. d \in [state : {"LM_SYNCED_STATE"}, lcl : {Header("net", n)}, syncing : {e.syncing},
             net : {e.net}, count : {e.count}, files : {e.files}, states : {e.states},
             round : {e.round}, gap : {FALSE}, failed : {e.failed}]
  BY Zenon, <1>3
<1> HIDE DEF d
<1>7. IsNode(d, f)
  <2>1. Header("net", n) \in Headers(f)
    BY Zenon, HeaderType
  <2> QED BY Zenon, <1>1, <1>6, <2>1, NodeFields DEF IsNode
<1>8. ~c.round.on /\ c.syncing = << >>
  BY Zenon DEF NodeOK, Buffered
<1>9. /\ d.state = "LM_SYNCED_STATE" /\ d.lcl = Header("net", n) /\ d.net = n
      /\ d.syncing = << >> /\ d.round = c.round
  BY Zenon, <1>1, <1>6, <1>8
<1>10. d.lcl.chain = "net" /\ d.lcl.seq = n
  <2>1. Header("net", n).chain = "net" /\ Header("net", n).seq = n
    BY Zenon, HeaderFields
  <2> QED BY Zenon, <2>1, <1>9
<1>11. 1 <= d.lcl.seq /\ d.lcl.seq <= d.net
  <2>1. c.lcl.seq \in Nat
    BY Zenon, NodeFields
  <2> QED BY SMT, <2>1, <1>9, <1>10
<1>12. Buffered(d)
  <2>1. \A i \in 1..Len(d.syncing) : d.syncing[i] <= d.net
    BY SMT, <1>9
  <2>2. d.state # "LM_CATCHING_UP_STATE"
    BY SMT, <1>9
  <2> QED BY Zenon, <2>1, <2>2, <1>8, <1>9 DEF Buffered
<1>13. NodeOK(d, f)
  BY Zenon, <1>8, <1>9, <1>10, <1>11, <1>12 DEF NodeOK
<1> QED BY Zenon, <1>4, <1>5, <1>7, <1>13 DEF e

\* A later one starts a round.
LEMMA ExternalizedLater ==
    ASSUME NEW c, NEW f, NodeOK(c, f), IsNode(c, f), NEW n \in Nat, c.net < n, n <= MaxNetLedger,
           c.state # "LM_CATCHING_UP_STATE", n > c.lcl.seq + 1
    PROVE  LET d == valueExternalized([c EXCEPT !.net = n], n)
           IN  NodeOK(d, f) /\ IsNode(d, f)
<1> DEFINE e == [c EXCEPT !.net = n]
           g == [e EXCEPT !.gap = FALSE]
           b == [g EXCEPT !.syncing = Append(g.syncing, n)]
           r == [on |-> TRUE, toLedger |-> n - 1, lclAtReset |-> b.lcl.seq, stage |-> "state"]
           d == [b EXCEPT !.state = "LM_CATCHING_UP_STATE", !.round = r]
<1>1. /\ IsNode(e, f) /\ e.net = n
      /\ e.state = c.state /\ e.lcl = c.lcl /\ e.syncing = c.syncing
      /\ e.round = c.round /\ e.gap = c.gap /\ e.failed = c.failed
  BY Zenon, NewNet
<1> HIDE DEF e
<1>2. c.lcl.seq \in Nat /\ n - 1 \in Nat
  <2>1. c.lcl.seq \in Nat
    BY Zenon, NodeFields
  <2> QED BY SMT, <2>1
<1>3. ~c.round.on /\ c.syncing = << >>
  BY Zenon DEF NodeOK, Buffered
<1>4. g \in [state : {e.state}, lcl : {e.lcl}, syncing : {e.syncing}, net : {e.net},
             count : {e.count}, files : {e.files}, states : {e.states}, round : {e.round},
             gap : {FALSE}, failed : {e.failed}]
  BY Zenon, <1>1 DEF IsNode
<1>5. valueExternalized(e, n) = startCatchUp(add(g, n), n - 1)
  <2>1. ~(n <= c.lcl.seq) /\ ~(n = c.lcl.seq + 1)
    BY SMT, <1>2
  <2> QED BY Zenon, <1>1, <2>1 DEF valueExternalized
<1> HIDE DEF g
<1>6. g.syncing = << >>
  BY Zenon, <1>1, <1>3, <1>4
<1>7. add(g, n) = b
  BY Zenon, <1>6 DEF add
<1>8. b \in [state : {e.state}, lcl : {e.lcl}, syncing : {<<n>>}, net : {e.net},
             count : {e.count}, files : {e.files}, states : {e.states}, round : {e.round},
             gap : {FALSE}, failed : {e.failed}]
  <2>1. Append(g.syncing, n) = <<n>>
    BY SMT, <1>6
  <2> QED BY Zenon, <1>4, <2>1
<1>9. startCatchUp(b, n - 1) = d
  BY Zenon DEF startCatchUp
<1> HIDE DEF b
<1>10. r \in EarlyRounds /\ r.on /\ r.toLedger = n - 1 /\ r.lclAtReset = c.lcl.seq /\ r.stage = "state"
  <2>1. b.lcl = c.lcl
    BY Zenon, <1>1, <1>8
  <2> QED BY Zenon, <2>1, <1>2 DEF EarlyRounds
<1> HIDE DEF r
<1>11. d \in [state : {"LM_CATCHING_UP_STATE"}, lcl : {e.lcl}, syncing : {<<n>>}, net : {e.net},
              count : {e.count}, files : {e.files}, states : {e.states}, round : {r},
              gap : {FALSE}, failed : {e.failed}]
  BY Zenon, <1>8
<1> HIDE DEF d
<1>12. <<n>> \in Seq(Nat) /\ <<n>> # << >> /\ <<n>>[1] = n /\ Len(<<n>>) = 1
  BY SMT
<1>13. IsNode(d, f)
  <2>1. r \in Rounds(f)
    BY Zenon, <1>10 DEF Rounds
  <2> QED BY Zenon, <1>1, <1>11, <1>12, <2>1, NodeFields DEF IsNode
<1>14. /\ d.state = "LM_CATCHING_UP_STATE" /\ d.lcl = c.lcl /\ d.net = n
       /\ d.syncing = <<n>> /\ d.round = r
  BY Zenon, <1>1, <1>11
<1>15. d.lcl.chain = "net" /\ 1 <= d.lcl.seq /\ d.lcl.seq <= d.net
  <2>1. c.lcl.chain = "net" /\ 1 <= c.lcl.seq
    BY Zenon DEF NodeOK
  <2>2. c.lcl.seq <= n
    BY SMT, <1>2
  <2> QED BY Zenon, <2>1, <2>2, <1>14
<1>16. Buffered(d)
  <2>1. /\ \A i \in 1..Len(d.syncing) : d.syncing[i] <= d.net
        /\ d.syncing[Len(d.syncing)] = d.net
    BY SMT, <1>14
  <2> QED BY Zenon, <2>1, <1>10, <1>12, <1>14 DEF Buffered
<1>17. RoundOK(d, f)
  <2>1. c.lcl.seq <= n - 1 /\ n - 1 < MaxNetLedger /\ (n - 1) + 1 = n
    BY SMT, <1>2
  <2>2. "state" # "verify" /\ "state" # "buckets" /\ "state" # "apply"
    BY SMT
  <2> QED BY Zenon, <2>1, <2>2, <1>10, <1>12, <1>14 DEF RoundOK
<1>18. d.state # "LM_SYNCED_STATE"
  BY SMT, <1>14
<1>19. NodeOK(d, f)
  BY Zenon, <1>15, <1>16, <1>17, <1>18 DEF NodeOK
<1> QED BY Zenon, <1>5, <1>7, <1>9, <1>13, <1>19 DEF e

LEMMA ExternalizedStep ==
    ASSUME NEW c, NEW f, NodeOK(c, f), IsNode(c, f), NEW n \in Nat, c.net < n, n <= MaxNetLedger
    PROVE  LET d == valueExternalized([c EXCEPT !.net = n], n)
           IN  NodeOK(d, f) /\ IsNode(d, f)
<1>1. c.lcl.seq \in Nat /\ c.net \in Nat
  BY Zenon, NodeFields
<1>2. c.lcl.seq <= c.net
  BY Zenon DEF NodeOK
<1>3. n = c.lcl.seq + 1 \/ n > c.lcl.seq + 1
  BY SMT, <1>1, <1>2
<1> QED BY Zenon, <1>3, ExternalizedWhileCatchingUp, ExternalizedNext, ExternalizedLater

-----------------------------------------------------------------------------
(* The end of a round.                                                     *)

\* The round has not failed.
Succeeds(d, f) ==
    NodeOK(d, f) /\ IsNode(d, f) /\ d.state # "LM_BOOTING_STATE" /\ d.failed = "no"

\* The buffer begins after the last closed ledger: what it has is closed.
LEMMA CaughtUp ==
    ASSUME NEW c, NEW f, NodeOK(c, f), IsNode(c, f), c.failed = "no", c.round.on,
           c.lcl.seq = c.round.toLedger
    PROVE  Succeeds(historyCaughtup(c), f)
<1> DEFINE done == [c EXCEPT !.round = NoRound, !.syncing = << >>, !.state = "LM_SYNCED_STATE"]
           last == LastBuffered(c)
           d == historyCaughtup(c)
<1>1. done \in [state : {"LM_SYNCED_STATE"}, lcl : {c.lcl}, syncing : {<< >>}, net : {c.net},
                count : {c.count}, files : {c.files}, states : {c.states}, round : {NoRound},
                gap : {c.gap}, failed : {c.failed}]
  BY Zenon DEF IsNode
<1>2. /\ c.lcl.seq \in Nat /\ c.net \in Nat /\ c.syncing \in Seq(Nat) /\ c.round \in Rounds(f)
      /\ c.gap \in BOOLEAN
  BY Zenon, NodeFields
<1>3. /\ c.syncing # << >> /\ \A i \in 1..Len(c.syncing) : c.syncing[i] <= c.net
      /\ ~c.gap => c.syncing[Len(c.syncing)] = c.net
      /\ c.syncing[1] = c.round.toLedger + 1
  BY Zenon DEF NodeOK, Buffered, RoundOK
<1>4. /\ Head(c.syncing) = c.lcl.seq + 1 /\ last \in Nat /\ last <= c.net
      /\ c.gap \/ last = c.net
  <2>1. Head(c.syncing) = c.syncing[1] /\ Len(c.syncing) \in 1..Len(c.syncing)
    BY SMT, <1>2, <1>3
  <2>2. last \in Nat
    BY SMT, <1>2, <2>1 DEF LastBuffered
  <2> QED BY Zenon, <1>2, <1>3, <2>1, <2>2 DEF LastBuffered
<1>5. c.lcl.chain = "net" /\ 1 <= c.lcl.seq /\ c.lcl.seq <= c.net
  BY Zenon DEF NodeOK
<1>6. << >> \in Seq(Nat) /\ NoRound \in Rounds(f)
  BY Zenon, NoRoundType
<1> HIDE DEF last, done
<1>7. ~(Head(c.syncing) > c.lcl.seq + 1) /\ Head(c.syncing) <= c.lcl.seq + 1
  BY SMT, <1>2, <1>4
<1>8. CASE last <= c.lcl.seq
  <2>1. ~(last > c.lcl.seq)
    BY SMT, <1>2, <1>4, <1>8
  <2>2. d = done
    BY Zenon, <1>7, <1>8, <2>1 DEF historyCaughtup, last, done
  <2>3. IsNode(done, f)
    BY Zenon, <1>1, <1>6, NodeFields DEF IsNode
  <2>4. /\ done.state = "LM_SYNCED_STATE" /\ done.lcl = c.lcl /\ done.syncing = << >>
        /\ done.net = c.net /\ done.round = NoRound /\ done.failed = "no" /\ done.gap = c.gap
    BY Zenon, <1>1
  <2>5. done.lcl.seq = done.net \/ done.gap
    BY SMT, <1>2, <1>4, <1>5, <1>8, <2>4
  <2>6. done.state # "LM_CATCHING_UP_STATE"
    BY SMT, <2>4
  <2>7. NodeOK(done, f)
    BY Zenon, <2>4, <2>5, <2>6, IdleNode
  <2>8. done.state # "LM_BOOTING_STATE"
    BY SMT, <2>4
  <2> QED BY Zenon, <2>2, <2>3, <2>4, <2>7, <2>8 DEF Succeeds
<1>9. CASE ~(last <= c.lcl.seq)
  <2> DEFINE e == [done EXCEPT !.lcl = Header("net", last)]
  <2>1. last > c.lcl.seq
    BY SMT, <1>2, <1>4, <1>9
  <2>2. d = e
    BY Zenon, <1>5, <1>7, <1>9, <2>1 DEF historyCaughtup, last, done
  <2>3. e \in [state : {"LM_SYNCED_STATE"}, lcl : {Header("net", last)}, syncing : {<< >>},
               net : {c.net}, count : {c.count}, files : {c.files}, states : {c.states},
               round : {NoRound}, gap : {c.gap}, failed : {c.failed}]
    BY Zenon, <1>1
  <2> HIDE DEF e
  <2>4. Header("net", last) \in Headers(f) /\ Header("net", last).chain = "net"
        /\ Header("net", last).seq = last
    BY Zenon, <1>4, HeaderFields, HeaderType
  <2>5. IsNode(e, f)
    BY Zenon, <2>3, <2>4, <1>6, NodeFields DEF IsNode
  <2>6. /\ e.state = "LM_SYNCED_STATE" /\ e.lcl = Header("net", last) /\ e.syncing = << >>
        /\ e.net = c.net /\ e.round = NoRound /\ e.failed = "no" /\ e.gap = c.gap
    BY Zenon, <2>3
  <2>7. 1 <= e.lcl.seq /\ e.lcl.seq <= e.net /\ e.lcl.chain = "net"
        /\ (e.lcl.seq = e.net \/ e.gap)
    <3>1. 1 <= last
      BY SMT, <2>1, <1>2, <1>4
    <3> QED BY Zenon, <3>1, <1>4, <2>4, <2>6
  <2>8. ~e.round.on
    BY SMT, <2>6 DEF NoRound
  <2>9. Buffered(e)
    <3>1. \A i \in 1..Len(e.syncing) : e.syncing[i] <= e.net
      BY SMT, <2>6
    <3>2. e.state # "LM_CATCHING_UP_STATE"
      BY SMT, <2>6
    <3> QED BY Zenon, <3>1, <3>2, <2>6, <2>8 DEF Buffered
  <2>10. NodeOK(e, f)
    BY Zenon, <2>7, <2>8, <2>9 DEF NodeOK
  <2>11. e.state # "LM_BOOTING_STATE"
    BY SMT, <2>6
  <2> QED BY Zenon, <2>2, <2>5, <2>6, <2>10, <2>11 DEF Succeeds
<1> QED BY Zenon, <1>8, <1>9

\* A round that goes on with what it knows, r, and h as the last closed ledger.
GoesOn(c, d, h, r) ==
    d \in [state : {c.state}, lcl : {h}, syncing : {c.syncing}, net : {c.net},
           count : {c.count}, files : {c.files}, states : {c.states}, round : {r},
           gap : {c.gap}, failed : {c.failed}]

LEMMA RoundContinues ==
    ASSUME NEW c, NEW f, NodeOK(c, f), IsNode(c, f), c.round.on, NEW r \in LaterRounds(f),
           NEW h \in Headers(f), h.chain = "net", 1 <= h.seq, h.seq <= c.net,
           NEW d, GoesOn(c, d, h, r), RoundOK(d, f)
    PROVE  NodeOK(d, f) /\ IsNode(d, f) /\ d.state = "LM_CATCHING_UP_STATE"
<1>1. /\ d.state = c.state /\ d.lcl = h /\ d.syncing = c.syncing /\ d.net = c.net
      /\ d.round = r /\ d.gap = c.gap
  BY Zenon DEF GoesOn
<1>2. r.on /\ r \in Rounds(f)
  BY Zenon, LaterFields
<1>3. c.state = "LM_CATCHING_UP_STATE" /\ Buffered(c)
  BY Zenon DEF NodeOK, Buffered
<1>4. IsNode(d, f)
  BY Zenon, <1>2, NodeFields DEF IsNode, GoesOn
<1>5. Buffered(d)
  BY Zenon, <1>1, <1>2, <1>3 DEF Buffered
<1>6. d.state # "LM_SYNCED_STATE"
  BY SMT, <1>1, <1>3
<1>7. NodeOK(d, f)
  BY Zenon, <1>1, <1>5, <1>6 DEF NodeOK
<1> QED BY Zenon, <1>1, <1>3, <1>4, <1>7

-----------------------------------------------------------------------------
(* GetState: the round learns its range.                                   *)

LEMMA StateFound ==
    ASSUME NEW c, NEW f, NodeOK(c, f), IsNode(c, f), c.round.on, c.round.stage = "state",
           NEW range, range = makeCatchupRange(c.round.lclAtReset, c.round.toLedger, c.count),
           NEW d, d = [c EXCEPT !.round =
                          [on |-> TRUE, toLedger |-> c.round.toLedger,
                           lclAtReset |-> c.round.lclAtReset, stage |-> "verify",
                           range |-> range, curr |-> Containing(range.first),
                           firstVerified |-> NoHeader, lastVerified |-> NoHeader]]
    PROVE  NodeOK(d, f) /\ IsNode(d, f)
<1> DEFINE r == [on |-> TRUE, toLedger |-> c.round.toLedger,
                 lclAtReset |-> c.round.lclAtReset, stage |-> "verify",
                 range |-> range, curr |-> Containing(range.first),
                 firstVerified |-> NoHeader, lastVerified |-> NoHeader]
<1>1. /\ c.round.toLedger \in Nat /\ c.round.lclAtReset \in Nat
      /\ c.lcl \in Headers(f) /\ c.lcl.seq \in Nat /\ c.net \in Nat /\ c.count \in Nat
  BY Zenon, NodeFields, RoundKinds
<1>2. /\ c.lcl.chain = "net" /\ 1 <= c.lcl.seq /\ c.lcl.seq <= c.net
      /\ c.lcl.seq <= c.round.toLedger /\ c.round.toLedger < MaxNetLedger
      /\ c.syncing[1] = c.round.toLedger + 1
      /\ c.round.lclAtReset = c.lcl.seq
  BY Zenon DEF NodeOK, RoundOK
<1>3. /\ range \in [first : Nat, last : Nat, buckets : BOOLEAN]
      /\ range.last = c.round.toLedger
      /\ Connects(range, c.lcl.seq)
  <2>1. c.lcl.seq \in Nat \ {0}
    BY SMT, <1>1, <1>2
  <2>2. range = makeCatchupRange(c.lcl.seq, c.round.toLedger, c.count)
    BY Zenon, <1>2
  <2>3. RangeFits(range, c.lcl.seq, c.round.toLedger)
    BY Zenon, <1>1, <1>2, <2>1, <2>2, RangeConnects
  <2> QED BY Zenon, <2>3 DEF RangeFits
<1>4. range.first \in Nat /\ range.last \in Nat /\ range.first <= range.last
  BY Zenon, <1>3 DEF Connects
<1>5. /\ Containing(range.first) \in Nat /\ IsCheckpoint(Containing(range.first))
      /\ Containing(range.last) \in Nat
  BY Zenon, <1>4, ContainingBounds
<1>6. Containing(range.first) <= Containing(range.last)
  BY Zenon, <1>4, ContainingGrows
<1>7. NoHeader \in Headers(f) /\ NoHeader.seq = 0 /\ NoHeader.chain = "net"
  BY SMT DEF NoHeader, Headers, Chains
<1>8. r \in [on : {TRUE}, toLedger : {c.round.toLedger}, lclAtReset : {c.round.lclAtReset},
             stage : {"verify"}, range : {range}, curr : {Containing(range.first)},
             firstVerified : {NoHeader}, lastVerified : {NoHeader}]
  BY Zenon
<1>9. GoesOn(c, d, c.lcl, r)
  BY Zenon DEF IsNode, GoesOn
<1> HIDE DEF r
<1>10. r \in LaterRounds(f)
  BY Zenon, <1>1, <1>3, <1>5, <1>7, <1>8 DEF LaterRounds
<1>11. /\ r.toLedger = c.round.toLedger /\ r.lclAtReset = c.lcl.seq /\ r.stage = "verify"
       /\ r.range = range /\ r.curr = Containing(range.first)
       /\ r.lastVerified.seq = 0 /\ r.lastVerified.chain = "net"
  BY Zenon, <1>2, <1>7, <1>8
<1>12. d.lcl = c.lcl /\ d.syncing = c.syncing /\ d.round = r
  BY Zenon, <1>9 DEF GoesOn
<1>13. RangeOK(d)
  BY Zenon, <1>3, <1>11, <1>12 DEF RangeOK
<1>14. VerifyOK(d, f)
  <2>1. ~(Containing(range.last) < Containing(range.first))
        /\ Containing(range.first) <= Containing(range.first)
    BY SMT, <1>5, <1>6
  <2> QED BY Zenon, <1>5, <1>11, <1>12, <2>1 DEF VerifyOK
<1>15. RoundOK(d, f)
  <2>1. d.round.stage \notin {"buckets", "apply"}
    BY SMT, <1>11, <1>12
  <2>2. /\ d.lcl.seq <= d.round.toLedger /\ d.round.toLedger < MaxNetLedger
        /\ d.syncing[1] = d.round.toLedger + 1 /\ d.round.lclAtReset = d.lcl.seq
    BY Zenon, <1>2, <1>11, <1>12
  <2> QED BY Zenon, <1>13, <1>14, <2>1, <2>2 DEF RoundOK
<1> QED BY Zenon, <1>1, <1>2, <1>9, <1>10, <1>15, RoundContinues

-----------------------------------------------------------------------------
(* ApplyBuckets.                                                           *)

Stops(c, f, why) == NodeOK(c, f) /\ IsNode(c, f) /\ c.failed = why

\* The process ends; what it held does not change.
LEMMA ProcessEnds ==
    ASSUME NEW c, NEW f, NodeOK(c, f), IsNode(c, f), c.round.on,
           NEW why \in {"inconsistency", "overshot", "assertion"}
    PROVE  Stops([c EXCEPT !.failed = why], f, why)
<1> DEFINE d == [c EXCEPT !.failed = why]
<1>1. d \in [state : {c.state}, lcl : {c.lcl}, syncing : {c.syncing}, net : {c.net},
             count : {c.count}, files : {c.files}, states : {c.states}, round : {c.round},
             gap : {c.gap}, failed : {why}]
  BY Zenon DEF IsNode
<1> HIDE DEF d
<1>2. /\ d.state = c.state /\ d.lcl = c.lcl /\ d.syncing = c.syncing /\ d.net = c.net
      /\ d.round = c.round /\ d.gap = c.gap /\ d.failed = why
  BY Zenon, <1>1
<1>3. IsNode(d, f)
  BY Zenon, <1>1, NodeFields DEF IsNode
<1>4. Buffered(d)
  BY Zenon, <1>2 DEF NodeOK, Buffered
<1>5. RoundOK(d, f)
  <2>1. RoundOK(c, f) /\ d.syncing[1] = c.syncing[1]
    BY Zenon, <1>2 DEF NodeOK
  <2> QED BY Zenon, <2>1, <1>2, RoundKept
<1>6. d.state # "LM_SYNCED_STATE"
  <2>1. c.state = "LM_CATCHING_UP_STATE"
    BY Zenon DEF NodeOK, Buffered
  <2> QED BY SMT, <2>1, <1>2
<1>7. NodeOK(d, f)
  BY Zenon, <1>2, <1>4, <1>5, <1>6 DEF NodeOK
<1> QED BY Zenon, <1>2, <1>3, <1>7 DEF d, Stops

\* What a round from "verify" on knows of the ledgers.
LEMMA RoundNumbers ==
    ASSUME NEW c, NEW f, NodeOK(c, f), IsNode(c, f), c.round.on, c.round.stage # "state"
    PROVE  /\ c.round \in LaterRounds(f) /\ RoundOK(c, f)
           /\ c.round.toLedger \in Nat /\ c.lcl.seq \in Nat /\ c.net \in Nat
           /\ c.round.range.last = c.round.toLedger
           /\ c.lcl.seq <= c.round.toLedger /\ c.round.toLedger < c.net
           /\ 1 <= c.lcl.seq /\ c.lcl.chain = "net"
<1>1. c.round \in LaterRounds(f) /\ c.lcl.seq \in Nat /\ c.net \in Nat /\ c.syncing \in Seq(Nat)
  BY Zenon, NodeFields, RoundKinds
<1>2. c.round.toLedger \in Nat
  BY Zenon, <1>1, LaterFields
<1>3. /\ c.lcl.chain = "net" /\ 1 <= c.lcl.seq
      /\ RoundOK(c, f) /\ Buffered(c) /\ c.state = "LM_CATCHING_UP_STATE"
  BY Zenon DEF NodeOK, Buffered
<1>4. /\ c.round.range.last = c.round.toLedger /\ c.lcl.seq <= c.round.toLedger
      /\ c.syncing[1] = c.round.toLedger + 1
  BY Zenon, <1>3 DEF RoundOK, RangeOK
<1>5. c.syncing # << >> /\ \A i \in 1..Len(c.syncing) : c.syncing[i] <= c.net
  BY Zenon, <1>3 DEF Buffered
<1>6. c.round.toLedger < c.net
  <2>1. 1 \in 1..Len(c.syncing)
    BY SMT, <1>1, <1>5
  <2>2. c.round.toLedger + 1 <= c.net
    BY Zenon, <2>1, <1>4, <1>5
  <2> QED BY SMT, <2>2, <1>1, <1>2
<1> QED BY Zenon, <1>1, <1>2, <1>3, <1>4, <1>6

LEMMA BucketsApplied ==
    ASSUME NEW c, NEW f, NodeOK(c, f), IsNode(c, f), c.failed = "no", c.round.on,
           c.round.stage = "buckets"
    PROVE  LET d == [c EXCEPT !.lcl = c.round.firstVerified, !.round.stage = "apply"]
           IN  /\ NodeOK(d, f) /\ IsNode(d, f)
               /\ d.state # "LM_BOOTING_STATE" /\ d.failed = "no"
               /\ Header("net", Containing(c.round.range.first)) = c.round.firstVerified
               /\ ~(c.round.firstVerified.seq < c.lcl.seq)
<1> DEFINE r == c.round
           h == r.firstVerified
           n == Containing(r.range.first)
           q == [r EXCEPT !.stage = "apply"]
           d == [c EXCEPT !.lcl = h, !.round.stage = "apply"]
<1>1. /\ r \in LaterRounds(f) /\ RoundOK(c, f) /\ r.toLedger \in Nat /\ c.lcl.seq \in Nat
      /\ c.net \in Nat /\ r.range.last = r.toLedger /\ c.lcl.seq <= r.toLedger
      /\ r.toLedger < c.net /\ 1 <= c.lcl.seq /\ c.lcl.chain = "net"
  BY SMT, RoundNumbers
<1>2. /\ r.range.first \in Nat /\ r.curr \in Nat /\ h \in Headers(f) /\ h.seq \in Nat
      /\ r.lastVerified.seq \in Nat
  BY Zenon, <1>1, LaterFields
<1>3. ApplyOK(c, f) /\ Connects(r.range, c.lcl.seq) /\ r.toLedger < MaxNetLedger
      /\ c.syncing[1] = r.toLedger + 1
  BY Zenon, <1>1 DEF RoundOK, RangeOK
<1>4. /\ VerifiedTo(f, r) /\ r.lastVerified.seq = r.range.last /\ r.lastVerified.chain = "net"
      /\ r.range.buckets /\ FirstOf(n) <= r.curr /\ r.curr <= r.range.last
      /\ r.curr = FirstOf(n)
  <2>1. r.stage # "apply"
    BY SMT
  <2> QED BY Zenon, <2>1, <1>3 DEF ApplyOK
<1>5. h.chain = "net" /\ h.seq = n /\ h.seq <= r.range.last
  BY Zenon, <1>4 DEF VerifiedTo
<1>6. 1 <= r.range.first /\ c.lcl.seq < r.range.first
  BY Zenon, <1>3, <1>4 DEF Connects
<1>7. n \in Nat /\ r.range.first <= n
  BY Zenon, <1>2, ContainingBounds
<1>8. q \in [on : {r.on}, toLedger : {r.toLedger}, lclAtReset : {r.lclAtReset}, stage : {"apply"},
             range : {r.range}, curr : {r.curr}, firstVerified : {h},
             lastVerified : {r.lastVerified}]
  BY Zenon, <1>1 DEF LaterRounds
<1>9. GoesOn(c, d, h, q)
  BY Zenon DEF IsNode, GoesOn
<1> HIDE DEF q, d, r, h, n
<1>10. q \in LaterRounds(f)
  BY Zenon, <1>1, <1>8, LaterFields DEF LaterRounds, h
<1>11. /\ q.toLedger = r.toLedger /\ q.stage = "apply" /\ q.range = r.range /\ q.curr = r.curr
       /\ q.firstVerified = h /\ q.lastVerified = r.lastVerified
  BY Zenon, <1>8
<1>12. d.lcl = h /\ d.syncing = c.syncing /\ d.round = q /\ d.failed = "no"
  BY Zenon, <1>9 DEF GoesOn
<1>13. 1 <= h.seq /\ h.seq <= c.net /\ ~(h.seq < c.lcl.seq) /\ h.seq <= r.toLedger
  BY SMT, <1>1, <1>2, <1>5, <1>6, <1>7
<1>14. r.curr <= h.seq + 1
  BY SMT, <1>4, <1>5, <1>7, FirstOfCheckpoint
<1>15. VerifiedTo(f, q)
  BY Zenon, <1>4, <1>11 DEF VerifiedTo, h
<1>16. ApplyOK(d, f)
  <2>1. q.stage # "buckets"
    BY SMT, <1>11
  <2> QED BY Zenon, <1>4, <1>11, <1>12, <1>14, <1>15, <2>1 DEF ApplyOK, n
<1>17. RangeOK(d)
  <2>1. q.stage \notin {"verify", "buckets"}
    BY SMT, <1>11
  <2> QED BY Zenon, <1>1, <1>11, <1>12, <2>1 DEF RangeOK
<1>18. RoundOK(d, f)
  <2>1. d.round.stage \notin {"state", "verify", "buckets"} /\ d.round.stage # "verify"
    BY SMT, <1>11, <1>12
  <2>2. /\ d.lcl.seq <= d.round.toLedger /\ d.round.toLedger < MaxNetLedger
        /\ d.syncing[1] = d.round.toLedger + 1
    BY Zenon, <1>3, <1>11, <1>12, <1>13
  <2> QED BY Zenon, <1>16, <1>17, <2>1, <2>2 DEF RoundOK
<1>19. NodeOK(d, f) /\ IsNode(d, f) /\ d.state = "LM_CATCHING_UP_STATE"
  BY Zenon, <1>2, <1>5, <1>9, <1>10, <1>13, <1>18, RoundContinues
<1>20. d.state # "LM_BOOTING_STATE"
  BY SMT, <1>19
<1>21. Header("net", n) = h
  BY Zenon, <1>2, <1>5, NetHeader
<1> QED BY Zenon, <1>12, <1>13, <1>19, <1>20, <1>21 DEF d, h, r, n

-----------------------------------------------------------------------------
(* ApplyLedger.                                                            *)

\* The round goes on with the next ledger.
LEMMA NextToApply ==
    ASSUME NEW c, NEW f, NodeOK(c, f), IsNode(c, f), c.round.on, c.round.stage = "apply",
           c.round.curr <= c.lcl.seq, c.lcl.seq # c.round.range.last, c.failed = "no"
    PROVE  Succeeds([c EXCEPT !.round.curr = @ + 1], f)
<1> DEFINE r == c.round
           n == Containing(r.range.first)
           q == [r EXCEPT !.curr = r.curr + 1]
           d == [c EXCEPT !.round.curr = @ + 1]
<1>1. /\ r \in LaterRounds(f) /\ RoundOK(c, f) /\ r.toLedger \in Nat /\ c.lcl.seq \in Nat
      /\ c.net \in Nat /\ r.range.last = r.toLedger /\ c.lcl.seq <= r.toLedger
      /\ r.toLedger < c.net /\ 1 <= c.lcl.seq /\ c.lcl.chain = "net"
  BY SMT, RoundNumbers
<1>2. /\ r.range.first \in Nat /\ r.curr \in Nat /\ c.lcl \in Headers(f)
  BY Zenon, <1>1, LaterFields, NodeFields
<1>3. ApplyOK(c, f) /\ r.toLedger < MaxNetLedger /\ c.syncing[1] = r.toLedger + 1
  BY Zenon, <1>1 DEF RoundOK
<1>4. /\ VerifiedTo(f, r) /\ r.lastVerified.seq = r.range.last /\ r.lastVerified.chain = "net"
      /\ FirstOf(n) <= r.curr /\ r.curr <= r.range.last
  BY Zenon, <1>3 DEF ApplyOK
<1>5. n \in Nat
  BY Zenon, <1>2, ContainingBounds
<1>6. FirstOf(n) \in Nat
  BY SMT, <1>5, FirstOfCheckpoint
<1>7. q \in [on : {r.on}, toLedger : {r.toLedger}, lclAtReset : {r.lclAtReset}, stage : {r.stage},
             range : {r.range}, curr : {r.curr + 1}, firstVerified : {r.firstVerified},
             lastVerified : {r.lastVerified}]
  BY Zenon, <1>1 DEF LaterRounds
<1>8. GoesOn(c, d, c.lcl, q)
  BY Zenon DEF IsNode, GoesOn
<1> HIDE DEF q, d, r, n
<1>9. r.curr + 1 \in Nat /\ FirstOf(n) <= r.curr + 1 /\ r.curr + 1 <= r.range.last
      /\ r.curr + 1 <= c.lcl.seq + 1 /\ c.lcl.seq <= c.net
  BY SMT, <1>1, <1>2, <1>4, <1>6 DEF r
<1>10. q \in LaterRounds(f)
  BY Zenon, <1>1, <1>7, <1>9, LaterFields DEF LaterRounds
<1>11. /\ q.toLedger = r.toLedger /\ q.stage = "apply" /\ q.range = r.range
       /\ q.curr = r.curr + 1
       /\ q.firstVerified = r.firstVerified /\ q.lastVerified = r.lastVerified
  BY Zenon, <1>7 DEF r
<1>12. d.lcl = c.lcl /\ d.syncing = c.syncing /\ d.round = q /\ d.failed = c.failed
  BY Zenon, <1>8 DEF GoesOn
<1>13. VerifiedTo(f, q)
  BY Zenon, <1>4, <1>11 DEF VerifiedTo
<1>14. ApplyOK(d, f)
  <2>1. q.stage # "buckets"
    BY SMT, <1>11
  <2> QED BY Zenon, <1>4, <1>9, <1>11, <1>12, <1>13, <2>1 DEF ApplyOK, n
<1>15. RangeOK(d)
  <2>1. q.stage \notin {"verify", "buckets"}
    BY SMT, <1>11
  <2> QED BY Zenon, <1>1, <1>11, <1>12, <2>1 DEF RangeOK
<1>16. RoundOK(d, f)
  <2>1. d.round.stage \notin {"state", "verify", "buckets"} /\ d.round.stage # "verify"
    BY SMT, <1>11, <1>12
  <2>2. /\ d.lcl.seq <= d.round.toLedger /\ d.round.toLedger < MaxNetLedger
        /\ d.syncing[1] = d.round.toLedger + 1
    BY Zenon, <1>1, <1>3, <1>11, <1>12
  <2> QED BY Zenon, <1>14, <1>15, <2>1, <2>2 DEF RoundOK
<1>17. NodeOK(d, f) /\ IsNode(d, f) /\ d.state = "LM_CATCHING_UP_STATE"
  BY Zenon, <1>1, <1>2, <1>8, <1>9, <1>10, <1>16, RoundContinues
<1>18. d.state # "LM_BOOTING_STATE"
  BY SMT, <1>17
<1> QED BY Zenon, <1>12, <1>17, <1>18 DEF d, Succeeds

\* What onSuccess makes of the node e, which has replayed or skipped a ledger.
Proceeds(e, f) ==
    IF e.lcl.seq = e.round.range.last THEN Succeeds(historyCaughtup(e), f)
    ELSE Succeeds([e EXCEPT !.round.curr = @ + 1], f)

LEMMA LedgerDone ==
    ASSUME NEW c, NEW f, NodeOK(c, f), IsNode(c, f), c.failed = "no", c.round.on,
           c.round.stage = "apply", c.round.curr <= c.lcl.seq
    PROVE  Proceeds(c, f)
<1>1. CASE c.lcl.seq = c.round.range.last
  <2>1. c.round.stage # "state"
    BY SMT
  <2>2. c.round.range.last = c.round.toLedger
    BY Zenon, <2>1 DEF NodeOK, RoundOK, RangeOK
  <2>3. c.lcl.seq = c.round.toLedger
    BY Zenon, <2>2, <1>1
  <2>4. Succeeds(historyCaughtup(c), f)
    BY Zenon, <2>3, CaughtUp
  <2> QED BY Zenon, <2>4, <1>1 DEF Proceeds
<1>2. CASE c.lcl.seq # c.round.range.last
  BY Zenon, <1>2, NextToApply DEF Proceeds
<1> QED BY Zenon, <1>1, <1>2

\* The next ledger of the files is the network's, whatever the archive holds,
\* and the last closed ledger, the one after it or an earlier one.
LEMMA LedgerApplied ==
    ASSUME NEW c, NEW f, NodeOK(c, f), IsNode(c, f), c.failed = "no", c.round.on,
           c.round.stage = "apply",
           NEW h, h = Header(f[Containing(c.round.curr)], c.round.curr)
    PROVE  LET replays == h.seq = c.lcl.seq + 1 /\ Links(c.lcl, h)
               skips   == \/ h.seq + 1 < c.lcl.seq
                          \/ h.seq + 1 = c.lcl.seq /\ Links(h, c.lcl)
                          \/ h = c.lcl
           IN  /\ replays \/ skips
               /\ replays => /\ Proceeds([c EXCEPT !.lcl = h], f)
                             /\ [c EXCEPT !.lcl = h].round = c.round
               /\ ~replays => Proceeds(c, f)
<1> DEFINE r == c.round
           n == Containing(r.range.first)
           replays == h.seq = c.lcl.seq + 1 /\ Links(c.lcl, h)
           skips   == \/ h.seq + 1 < c.lcl.seq
                      \/ h.seq + 1 = c.lcl.seq /\ Links(h, c.lcl)
                      \/ h = c.lcl
<1>1. /\ r \in LaterRounds(f) /\ RoundOK(c, f) /\ r.toLedger \in Nat /\ c.lcl.seq \in Nat
      /\ c.net \in Nat /\ r.range.last = r.toLedger /\ c.lcl.seq <= r.toLedger
      /\ r.toLedger < c.net /\ 1 <= c.lcl.seq /\ c.lcl.chain = "net"
  BY SMT, RoundNumbers
<1>2. /\ r.range.first \in Nat /\ r.curr \in Nat /\ c.lcl \in Headers(f)
  BY Zenon, <1>1, LaterFields, NodeFields
<1>3. ApplyOK(c, f) /\ RangeOK(c) /\ r.toLedger < MaxNetLedger /\ c.syncing[1] = r.toLedger + 1
  BY Zenon, <1>1 DEF RoundOK
<1>4. /\ VerifiedTo(f, r) /\ r.lastVerified.seq = r.range.last /\ r.lastVerified.chain = "net"
      /\ FirstOf(n) <= r.curr /\ r.curr <= r.range.last /\ r.curr <= c.lcl.seq + 1
  BY Zenon, <1>3 DEF ApplyOK
<1>5. h.chain = "net"
  BY Zenon, <1>2, <1>4 DEF VerifiedTo, Traced
<1>6. h.seq = r.curr /\ h \in Headers(f)
  <2>1. Containing(r.curr) \in Nat
    BY Zenon, <1>2, ContainingBounds
  <2>2. Header(f[Containing(r.curr)], r.curr).seq = r.curr
    BY Zenon DEF Header
  <2>3. Header(f[Containing(r.curr)], r.curr) \in Headers(f)
    BY Zenon, <1>2, <2>1, HeaderType
  <2> QED BY Zenon, <2>2, <2>3
<1>7. h = Header("net", r.curr) /\ c.lcl = Header("net", c.lcl.seq)
  BY Zenon, <1>1, <1>2, <1>5, <1>6, NetHeader
<1> HIDE DEF r, n
<1>8. CASE r.curr = c.lcl.seq + 1
  <2>1. replays
    <3>1. r.curr - 1 = c.lcl.seq
      BY SMT, <1>1, <1>8
    <3> QED BY Zenon, <3>1, <1>5, <1>6, <1>7, <1>8 DEF Links
  <2> DEFINE e == [c EXCEPT !.lcl = h]
  <2>2. GoesOn(c, e, h, c.round)
    BY Zenon DEF IsNode, GoesOn
  <2> HIDE DEF replays, skips, e
  <2>3. e.lcl = h /\ e.syncing = c.syncing /\ e.round = c.round /\ e.failed = "no"
    BY Zenon, <2>2 DEF GoesOn
  <2>4. 1 <= h.seq /\ h.seq <= c.net /\ h.seq <= r.toLedger /\ r.curr <= h.seq + 1
    BY SMT, <1>1, <1>2, <1>4, <1>6, <1>8
  <2>5. ApplyOK(e, f)
    BY Zenon, <1>3, <2>3, <2>4 DEF ApplyOK, r
  <2>6. RangeOK(e)
    <3>1. c.round.stage \notin {"verify", "buckets"}
      BY SMT
    <3> QED BY Zenon, <1>3, <2>3, <3>1 DEF RangeOK
  <2>7. RoundOK(e, f)
    <3>1. e.round.stage \notin {"state", "verify", "buckets"} /\ e.round.stage # "verify"
      BY SMT, <2>3
    <3>2. /\ e.lcl.seq <= e.round.toLedger /\ e.round.toLedger < MaxNetLedger
          /\ e.syncing[1] = e.round.toLedger + 1
      BY Zenon, <1>3, <2>3, <2>4 DEF r
    <3> QED BY Zenon, <2>5, <2>6, <3>1, <3>2 DEF RoundOK
  <2>8. NodeOK(e, f) /\ IsNode(e, f)
    BY Zenon, <1>1, <1>5, <1>6, <2>2, <2>4, <2>7, RoundContinues DEF r
  <2>9. e.round.on /\ e.round.stage = "apply" /\ e.round.curr <= e.lcl.seq
    <3>1. e.round.curr <= e.lcl.seq
      BY SMT, <2>3, <1>2, <1>6 DEF r
    <3> QED BY Zenon, <2>3, <3>1
  <2>10. Proceeds(e, f)
    BY Zenon, <2>3, <2>8, <2>9, LedgerDone
  <2> QED BY Zenon, <2>1, <2>3, <2>10 DEF e, replays
<1>9. CASE r.curr # c.lcl.seq + 1
  <2>1. ~replays
    BY Zenon, <1>6, <1>9
  <2>2. r.curr <= c.lcl.seq
    BY SMT, <1>1, <1>2, <1>4, <1>9
  <2>3. skips
    <3>1. CASE r.curr = c.lcl.seq
      BY Zenon, <3>1, <1>7
    <3>2. CASE r.curr + 1 = c.lcl.seq
      <4>1. c.lcl.seq - 1 = r.curr
        BY SMT, <3>2, <1>1, <1>2
      <4> QED BY Zenon, <3>2, <4>1, <1>1, <1>6, <1>7 DEF Links
    <3>3. CASE r.curr + 1 < c.lcl.seq
      BY Zenon, <3>3, <1>6
    <3> QED BY SMT, <3>1, <3>2, <3>3, <2>2, <1>1, <1>2
  <2>4. Proceeds(c, f)
    BY Zenon, <2>2, LedgerDone DEF r
  <2> QED BY Zenon, <2>1, <2>3, <2>4
<1> QED BY Zenon, <1>8, <1>9

-----------------------------------------------------------------------------
(* VerifyCheckpoint.                                                       *)

\* Where the reading of the file of checkpoint n may stop, after h.
EndOf(e, n, h, last) ==
    /\ e \in Nat /\ FirstOf(n) <= e /\ e <= n /\ (e = n \/ e = last)
    /\ FirstOf(n) <= last /\ last <= n /\ e # last => h.seq = 0 /\ last = FirstOf(n)

LEMMA FileEnd ==
    ASSUME NEW n \in Nat \ {0}, NEW h, h.seq \in Nat, NEW last \in Nat
    PROVE  EndOf(endsAt(n, h, last), n, h, last)
<1> DEFINE e == endsAt(n, h, last)
<1>1. FirstOf(n) \in Nat /\ FirstOf(n) <= n
  BY SMT, FirstOfCheckpoint
<1>2. last \in FirstOf(n)..n <=> FirstOf(n) <= last /\ last <= n
  BY SMT, <1>1
<1>3. CASE last \in FirstOf(n)..n /\ (h.seq = 0 => last # FirstOf(n))
  <2>1. e = last
    BY Zenon, <1>3 DEF endsAt
  <2> QED BY Zenon, <2>1, <1>2, <1>3 DEF EndOf
<1>4. CASE ~(last \in FirstOf(n)..n /\ (h.seq = 0 => last # FirstOf(n)))
  <2>1. e = n
    BY Zenon, <1>4 DEF endsAt
  <2>2. n <= n
    BY SMT
  <2> QED BY Zenon, <2>1, <2>2, <1>1, <1>2, <1>4 DEF EndOf
<1> QED BY Zenon, <1>3, <1>4

\* The file of checkpoint n, read up to e, goes on with what was verified.
LEMMA FileVerified ==
    ASSUME NEW f, NEW r \in LaterRounds(f), NEW c, c.round = r, VerifyOK(c, f),
           NEW lcl \in Nat, Connects(r.range, lcl),
           linksUp(f[r.curr], r.curr, r.lastVerified),
           NEW e, e = endsAt(r.curr, r.lastVerified, r.range.last),
           NEW q, q.range = r.range, q.lastVerified = Header(f[r.curr], e),
           q.firstVerified = IF r.curr = Containing(r.range.first)
                             THEN Header(f[r.curr], e) ELSE r.firstVerified
    PROVE  VerifiedTo(f, q)
<1> DEFINE n == r.curr
           chain == f[n]
           first == Containing(r.range.first)
           lv == r.lastVerified
           fv == r.firstVerified
<1>1. /\ n \in Nat /\ r.range.first \in Nat /\ r.range.last \in Nat /\ lv.seq \in Nat
      /\ fv.seq \in Nat /\ r.range.buckets \in BOOLEAN
  BY Zenon, LaterFields
<1>2. first \in Nat /\ r.range.first <= first /\ IsCheckpoint(first)
  BY Zenon, <1>1, ContainingBounds
<1>3. 1 <= r.range.first /\ r.range.first <= r.range.last
      /\ (r.range.buckets => IsCheckpoint(r.range.first))
  BY Zenon DEF Connects
<1>4. /\ IsCheckpoint(n) /\ first <= n
      /\ \/ lv.seq = 0 /\ n = first
         \/ lv.seq + CatchupFrequency = n /\ VerifiedTo(f, r)
  BY Zenon DEF VerifyOK
<1>5. q.lastVerified.seq = e /\ q.lastVerified.chain = IF e < Branch THEN "net" ELSE chain
  <2>1. Header(chain, e).seq = e /\ Header(chain, e).chain = IF e < Branch THEN "net" ELSE chain
    BY Zenon DEF Header
  <2> QED BY Zenon, <2>1
<1> HIDE DEF n, chain, first, lv, fv
<1>6. n \in Nat \ {0}
  BY SMT, <1>1, <1>2, <1>3, <1>4
<1>7. e \in Nat /\ FirstOf(n) <= e /\ e <= n /\ (e = n \/ e = r.range.last)
  <2>1. EndOf(endsAt(n, lv, r.range.last), n, lv, r.range.last)
    BY Zenon, <1>1, <1>6, FileEnd
  <2>2. EndOf(e, n, lv, r.range.last)
    BY Zenon, <2>1 DEF n, lv
  <2> QED BY Zenon, <2>2 DEF EndOf
<1>8. FirstOf(n) \in Nat \ {0} /\ n < FirstOf(n) + CatchupFrequency
      /\ FirstOf(first) \in Nat \ {0}
  BY SMT, <1>2, <1>6, FirstOfCheckpoint
  \* The ledgers of this file.
<1>9. ASSUME q.lastVerified.chain = "net", NEW s \in Nat, FirstOf(n) <= s, s <= e
      PROVE  Header(f[Containing(s)], s).chain = "net"
  <2>1. s <= n /\ n < s + CatchupFrequency
    BY SMT, <1>6, <1>7, <1>8, <1>9
  <2>2. Containing(s) = n
    BY Zenon, <1>4, <1>6, <2>1, ContainingIs
  <2>3. Header(chain, s).chain = IF s < Branch THEN "net" ELSE chain
    BY Zenon DEF Header
  <2>4. s < Branch \/ chain = "net"
    <3>1. CASE e < Branch
      BY SMT, <3>1, <1>7, <1>9
    <3>2. CASE ~(e < Branch)
      BY Zenon, <3>2, <1>5, <1>9
    <3> QED BY Zenon, <3>1, <3>2
  <2> QED BY Zenon, <2>2, <2>3, <2>4 DEF chain
<1>10. CASE n = first
  <2>1. q.firstVerified = q.lastVerified
    BY Zenon, <1>10 DEF n, first
  <2>2. e <= e
    BY SMT, <1>7
  <2>3. r.range.buckets => e = first
    <3> SUFFICES ASSUME r.range.buckets PROVE e = first
      OBVIOUS
    <3>1. r.range.first <= r.range.first /\ r.range.first < r.range.first + CatchupFrequency
      BY SMT, <1>1
    <3>2. first = r.range.first
      BY Zenon, <3>1, <1>1, <1>3, ContainingIs DEF first
    <3> QED BY SMT, <3>2, <1>1, <1>3, <1>6, <1>7, <1>10
  <2>4. Traced(f, first, q.lastVerified)
    BY Zenon, <1>5, <1>9, <1>10 DEF Traced
  <2> QED BY Zenon, <2>1, <2>2, <2>3, <2>4, <1>5, <1>7, <1>10 DEF VerifiedTo, first
<1>11. CASE n # first
  <2>1. q.firstVerified = fv
    BY Zenon, <1>11 DEF n, first, fv
  <2>2. lv.seq + CatchupFrequency = n /\ VerifiedTo(f, r)
    BY Zenon, <1>4, <1>11
  <2>3. /\ lv.chain = "net" => fv.chain = "net"
        /\ fv.seq <= lv.seq
        /\ r.range.buckets => fv.seq = first
        /\ FirstOf(first) <= lv.seq
        /\ Traced(f, first, lv)
    BY Zenon, <2>2 DEF VerifiedTo, lv, fv, first
  <2>4. lv.seq # 0 /\ FirstOf(n) = lv.seq + 1
    BY SMT, <1>1, <1>6, <1>8, <2>2, <2>3, FirstOfCheckpoint
  <2>5. lv = Header(Header(chain, FirstOf(n)).chain, FirstOf(n) - 1)
    <3>1. Links(lv, Header(chain, FirstOf(n)))
      BY Zenon, <2>4 DEF linksUp, lv, chain, n
    <3>2. Header(chain, FirstOf(n)).seq = FirstOf(n)
      BY Zenon DEF Header
    <3> QED BY Zenon, <3>1, <3>2 DEF Links
  <2>6. q.lastVerified.chain = "net" => lv.chain = "net"
    <3> SUFFICES ASSUME q.lastVerified.chain = "net" PROVE lv.chain = "net"
      OBVIOUS
    <3>1. lv.chain = IF FirstOf(n) - 1 < Branch THEN "net" ELSE Header(chain, FirstOf(n)).chain
      BY Zenon, <2>5 DEF Header
    <3>2. Header(chain, FirstOf(n)).chain = IF FirstOf(n) < Branch THEN "net" ELSE chain
      BY Zenon DEF Header
    <3>3. CASE e < Branch
      <4>1. FirstOf(n) - 1 < Branch
        BY SMT, <3>3, <1>7, <1>8
      <4> QED BY Zenon, <4>1, <3>1
    <3>4. CASE ~(e < Branch)
      BY Zenon, <3>1, <3>2, <3>4, <1>5
    <3> QED BY Zenon, <3>3, <3>4
  <2>7. fv.seq <= e /\ FirstOf(first) <= e
    BY SMT, <1>1, <1>7, <1>8, <2>3, <2>4
  <2>8. Traced(f, first, q.lastVerified)
    <3> SUFFICES ASSUME q.lastVerified.chain = "net", NEW s \in Nat, FirstOf(first) <= s, s <= e
                 PROVE  Header(f[Containing(s)], s).chain = "net"
      BY Zenon, <1>5 DEF Traced
    <3>1. CASE FirstOf(n) <= s
      BY Zenon, <3>1, <1>9
    <3>2. CASE ~(FirstOf(n) <= s)
      <4>1. s <= lv.seq
        BY SMT, <3>2, <2>4, <1>1, <1>8
      <4> QED BY Zenon, <4>1, <2>3, <2>6 DEF Traced
    <3> QED BY Zenon, <3>1, <3>2
  <2> QED BY Zenon, <2>1, <2>3, <2>6, <2>7, <2>8, <1>5 DEF VerifiedTo, first
<1> QED BY Zenon, <1>10, <1>11

\* A file that is read belongs to a checkpoint of the archive.
LEMMA FileExists ==
    ASSUME NEW n \in Nat \ {0}, IsCheckpoint(n), NEW last \in Nat \ {0}, last <= MaxNetLedger,
           n <= Containing(last)
    PROVE  n \in CheckpointSet
<1>1. /\ Containing(last) \in Nat /\ IsCheckpoint(Containing(last)) /\ last <= Containing(last)
      /\ Containing(last) < last + CatchupFrequency
  BY Zenon, ContainingBounds
<1>2. CASE n <= last
  <2>1. n <= n /\ n < n + CatchupFrequency
    BY SMT
  <2>2. n = Containing(n)
    BY Zenon, <2>1, ContainingIs
  <2>3. n \in 1..MaxNetLedger
    BY SMT, <1>2
  <2> QED BY Zenon, <2>2, <2>3 DEF CheckpointSet
<1>3. CASE ~(n <= last)
  <2>1. n = Containing(last)
    <3>1. ASSUME n < Containing(last) PROVE FALSE
      BY SMT, <3>1, <1>1, <1>3, CheckpointsApart
    <3> QED BY SMT, <3>1, <1>1
  <2>2. last \in 1..MaxNetLedger
    BY SMT
  <2> QED BY Zenon, <2>1, <2>2 DEF CheckpointSet
<1> QED BY Zenon, <1>2, <1>3

\* The round q records the first and the last header verified so far.
Records(q, r, first, last) ==
    q.range = r.range /\ q.firstVerified = first /\ q.lastVerified = last

\* What a file that passes leaves behind: the round goes on with the next
\* file, or with the replay once the last ledger of the range was read.
LEMMA FilePasses ==
    ASSUME NEW c, NEW f, NodeOK(c, f), IsNode(c, f), c.failed = "no", c.round.on,
           c.round.stage = "verify", ~(c.round.curr > Containing(c.round.range.last)),
           NEW v, v = verifyHistoryOfSingleCheckpoint(f[c.round.curr], c.round.curr,
                          c.round.lastVerified, c.round.range.last, c.syncing),
           v.ok
    PROVE  Succeeds(verified(c, c.round, v), f)
<1> DEFINE r == c.round
           n == r.curr
           last == r.range.last
           first == Containing(r.range.first)
           e == endsAt(n, r.lastVerified, last)
           h == Header(f[n], e)
           fv == IF n = first THEN h ELSE r.firstVerified
           d == verified(c, r, v)
<1>1. /\ r \in LaterRounds(f) /\ RoundOK(c, f) /\ r.toLedger \in Nat /\ c.lcl.seq \in Nat
      /\ c.net \in Nat /\ last = r.toLedger /\ c.lcl.seq <= r.toLedger
      /\ r.toLedger < c.net /\ 1 <= c.lcl.seq /\ c.lcl.chain = "net"
  <2>1. r.stage # "state"
    BY SMT
  <2> QED BY SMT, <2>1, RoundNumbers
<1>2. /\ r.range.first \in Nat /\ last \in Nat /\ n \in Nat /\ c.lcl \in Headers(f)
      /\ r.range.buckets \in BOOLEAN
      /\ r.lastVerified.seq \in Nat /\ r.firstVerified \in Headers(f)
  BY Zenon, <1>1, LaterFields, NodeFields
<1>3. /\ VerifyOK(c, f) /\ RangeOK(c) /\ Connects(r.range, c.lcl.seq) /\ r.toLedger < MaxNetLedger
      /\ c.syncing[1] = r.toLedger + 1 /\ r.lclAtReset = c.lcl.seq
  <2>1. r.stage \in {"state", "verify", "buckets"} /\ r.stage \in {"verify", "buckets"}
        /\ r.stage # "state"
    BY SMT
  <2> QED BY Zenon, <2>1, <1>1 DEF RoundOK, RangeOK
<1>4. v.curr = h /\ linksUp(f[n], n, r.lastVerified)
      /\ (h.seq = last => verifyCatchupCandidate(c.syncing, h))
  BY Zenon DEF verifyHistoryOfSingleCheckpoint
<1>5. h.seq = e
  BY Zenon DEF Header
<1>6. 1 <= r.range.first /\ r.range.first <= last
      /\ (~r.range.buckets => FirstOf(first) <= c.lcl.seq + 1)
  BY Zenon, <1>3 DEF Connects
<1>7. /\ first \in Nat /\ r.range.first <= first /\ IsCheckpoint(first)
      /\ first < r.range.first + CatchupFrequency
      /\ Containing(last) \in Nat /\ IsCheckpoint(Containing(last)) /\ last <= Containing(last)
      /\ Containing(last) < last + CatchupFrequency
  BY Zenon, <1>2, ContainingBounds
<1>8. IsCheckpoint(n) /\ first <= n
      /\ (r.lastVerified.seq = 0 => n = first \/ VerifiedTo(f, r))
  BY Zenon, <1>3 DEF VerifyOK
<1>9. n \in Nat \ {0}
  BY SMT, <1>2, <1>6, <1>7, <1>8
<1>10. EndOf(e, n, r.lastVerified, last)
  BY Zenon, <1>2, <1>9, FileEnd
<1>11. e \in Nat /\ FirstOf(n) <= e /\ e <= n /\ (e = n \/ e = last)
  BY Zenon, <1>10 DEF EndOf
<1>12. h \in Headers(f)
  BY Zenon, <1>9, <1>11, HeaderType
<1>13. fv \in Headers(f)
  BY Zenon, <1>2, <1>12
<1>14. FirstOf(first) \in Nat /\ FirstOf(n) \in Nat
  BY SMT, <1>7, <1>9, FirstOfCheckpoint
<1>15. ASSUME NEW q, Records(q, r, fv, h) PROVE VerifiedTo(f, q)
  BY Zenon, <1>1, <1>3, <1>4, <1>15, FileVerified DEF Records
<1>16. c.syncing[1] = last + 1 /\ c.failed = "no" /\ c.state = "LM_CATCHING_UP_STATE"
  BY Zenon, <1>1, <1>3 DEF NodeOK, Buffered
<1>17. CASE h.seq = last
  <2> DEFINE stage == IF r.range.buckets THEN "buckets" ELSE "apply"
             q == [r EXCEPT !.firstVerified = fv, !.lastVerified = h, !.stage = stage,
                            !.curr = FirstOf(first)]
  <2>1. d = [c EXCEPT !.round = q]
    BY Zenon, <1>4, <1>17 DEF verified
  <2>2. q \in [on : {r.on}, toLedger : {r.toLedger}, lclAtReset : {r.lclAtReset},
               stage : {stage}, range : {r.range}, curr : {FirstOf(first)},
               firstVerified : {fv}, lastVerified : {h}]
    BY Zenon, <1>1 DEF LaterRounds
  <2> HIDE DEF d, q, stage, r, n, last, first, e, h, fv
  <2>3. GoesOn(c, d, c.lcl, q)
    BY Zenon, <2>1 DEF IsNode, GoesOn
  <2>4. /\ stage \in {"buckets", "apply"} /\ (stage = "buckets" => r.range.buckets)
        /\ (stage = "apply" => ~r.range.buckets)
    BY SMT, <1>2 DEF stage
  <2>5. q \in LaterRounds(f)
    BY ZenonT(40), <1>1, <1>12, <1>13, <1>14, <2>2, <2>4, LaterFields DEF LaterRounds
  <2>6. /\ q.toLedger = r.toLedger /\ q.lclAtReset = r.lclAtReset /\ q.stage = stage
        /\ q.range = r.range /\ q.curr = FirstOf(first)
        /\ q.firstVerified = fv /\ q.lastVerified = h
    BY Zenon, <2>2
  <2>7. d.lcl = c.lcl /\ d.syncing = c.syncing /\ d.round = q /\ d.failed = "no"
    BY Zenon, <2>3 DEF GoesOn
  <2>8. VerifiedTo(f, q)
    <3>1. Records(q, r, fv, h)
      BY Zenon, <2>6 DEF Records
    <3> QED BY Zenon, <3>1, <1>15
  <2>9. h.chain = "net" /\ FirstOf(first) <= last
    <3>1. h.chain = "net"
      BY Zenon, <1>4, <1>17 DEF verifyCatchupCandidate
    <3>2. FirstOf(first) <= h.seq
      BY Zenon, <2>6, <2>8 DEF VerifiedTo, first
    <3> QED BY Zenon, <3>1, <3>2, <1>17
  <2>10. ApplyOK(d, f)
    <3>1. FirstOf(first) <= FirstOf(first)
      BY SMT, <1>14
    <3>2. d.round.stage = "apply" => FirstOf(first) <= c.lcl.seq + 1
      BY Zenon, <1>6, <2>4, <2>6, <2>7
    <3> QED BY Zenon, <1>17, <2>4, <2>6, <2>7, <2>8, <2>9, <3>1, <3>2 DEF ApplyOK, first, last
  <2>11. RangeOK(d)
    BY Zenon, <1>1, <1>3, <2>6, <2>7 DEF RangeOK, last
  <2>12. RoundOK(d, f)
    <3>1. d.round.stage # "verify" /\ d.round.stage # "state"
      BY SMT, <2>4, <2>6, <2>7
    <3>2. /\ d.lcl.seq <= d.round.toLedger /\ d.round.toLedger < MaxNetLedger
          /\ d.syncing[1] = d.round.toLedger + 1 /\ d.round.lclAtReset = d.lcl.seq
      BY Zenon, <1>1, <1>3, <2>6, <2>7
    <3> QED BY Zenon, <2>10, <2>11, <3>1, <3>2 DEF RoundOK
  <2>13. c.lcl.seq <= c.net
    BY SMT, <1>1
  <2>14. NodeOK(d, f) /\ IsNode(d, f) /\ d.state = "LM_CATCHING_UP_STATE"
    BY Zenon, <1>1, <1>2, <2>3, <2>5, <2>12, <2>13, RoundContinues
  <2>15. d.state # "LM_BOOTING_STATE"
    BY SMT, <2>14
  <2>16. Succeeds(d, f)
    BY Zenon, <2>7, <2>14, <2>15 DEF Succeeds
  <2> QED BY Zenon, <2>16 DEF d, r
<1>18. CASE h.seq # last
  <2> DEFINE m == n + CatchupFrequency
             q == [r EXCEPT !.firstVerified = fv, !.lastVerified = h, !.curr = m]
  <2>1. d = [c EXCEPT !.round = q]
    BY Zenon, <1>4, <1>18 DEF verified
  <2>2. q \in [on : {r.on}, toLedger : {r.toLedger}, lclAtReset : {r.lclAtReset},
               stage : {r.stage}, range : {r.range}, curr : {m},
               firstVerified : {fv}, lastVerified : {h}]
    BY Zenon, <1>1 DEF LaterRounds
  <2>3. r.stage = "verify" /\ ~(n > Containing(last))
    BY Zenon
  <2> HIDE DEF d, q, m, r, n, last, first, e, h, fv
  <2>4. GoesOn(c, d, c.lcl, q)
    BY Zenon, <2>1 DEF IsNode, GoesOn
  <2>5. m \in Nat /\ IsCheckpoint(m) /\ first <= m /\ h.seq + CatchupFrequency = m
    <3>1. IsCheckpoint(m)
      BY Zenon, <1>2, <1>8, NeighbourCheckpoints DEF m
    <3>2. e = n
      BY Zenon, <1>5, <1>11, <1>18
    <3> QED BY SMT, <3>1, <3>2, <1>2, <1>5, <1>7, <1>8 DEF m
  <2>6. q \in LaterRounds(f)
    BY ZenonT(40), <1>1, <1>12, <1>13, <2>2, <2>5, LaterFields DEF LaterRounds
  <2>7. /\ q.toLedger = r.toLedger /\ q.lclAtReset = r.lclAtReset /\ q.stage = "verify"
        /\ q.range = r.range /\ q.curr = m
        /\ q.firstVerified = fv /\ q.lastVerified = h
    BY Zenon, <2>2, <2>3
  <2>8. d.lcl = c.lcl /\ d.syncing = c.syncing /\ d.round = q /\ d.failed = "no"
    BY Zenon, <2>4, <1>16 DEF GoesOn
  <2>9. VerifiedTo(f, q)
    <3>1. Records(q, r, fv, h)
      BY Zenon, <2>7 DEF Records
    <3> QED BY Zenon, <3>1, <1>15
  <2>10. ASSUME Containing(last) < m PROVE r.range.first = last /\ r.range.first = FirstOf(first)
    <3>1. n = Containing(last)
      <4>1. ASSUME n < Containing(last) PROVE FALSE
        <5>1. n + CatchupFrequency <= Containing(last)
          BY SMT, <4>1, <1>2, <1>7, <1>8, CheckpointsApart
        <5> QED BY SMT, <5>1, <2>10, <1>2, <1>7 DEF m
      <4> QED BY SMT, <4>1, <2>3, <1>2, <1>7
    <3>2. FirstOf(n) <= last /\ last <= n
      BY SMT, <3>1, <1>2, <1>6, <1>7, <1>9, FirstOfCheckpoint
    <3>3. r.lastVerified.seq = 0 /\ last = FirstOf(n)
      BY Zenon, <3>2, <1>5, <1>10, <1>18 DEF EndOf
    <3>4. n = first
      <4>1. ASSUME VerifiedTo(f, r) PROVE FALSE
        <5>1. FirstOf(first) <= 0
          BY Zenon, <3>3, <4>1 DEF VerifiedTo, first
        <5> QED BY SMT, <5>1, <1>7, FirstOfCheckpoint
      <4> QED BY Zenon, <4>1, <3>3, <1>8
    <3> QED BY SMT, <3>3, <3>4, <1>2, <1>6, <1>7, FirstOfCheckpoint
  <2>11. (\A k \in CheckpointSet : f[k] = "net") => h.chain = "net"
    <3> SUFFICES ASSUME \A k \in CheckpointSet : f[k] = "net" PROVE h.chain = "net"
      OBVIOUS
    <3>1. last \in Nat \ {0} /\ last <= MaxNetLedger /\ n <= Containing(last)
      BY SMT, <2>3, <1>1, <1>2, <1>3, <1>7
    <3>2. f[n] = "net"
      BY Zenon, <3>1, <1>8, <1>9, FileExists
    <3> QED BY Zenon, <3>2 DEF h, Header
  <2>12. VerifyOK(d, f)
    BY Zenon, <2>5, <2>7, <2>8, <2>9, <2>10, <2>11 DEF VerifyOK, first, last
  <2>13. RangeOK(d)
    BY Zenon, <1>1, <1>3, <2>7, <2>8 DEF RangeOK, last
  <2>14. RoundOK(d, f)
    <3>1. d.round.stage \notin {"buckets", "apply"}
      BY SMT, <2>7, <2>8
    <3>2. /\ d.lcl.seq <= d.round.toLedger /\ d.round.toLedger < MaxNetLedger
          /\ d.syncing[1] = d.round.toLedger + 1 /\ d.round.lclAtReset = d.lcl.seq
      BY Zenon, <1>1, <1>3, <2>7, <2>8
    <3> QED BY ZenonT(40), <2>12, <2>13, <3>1, <3>2 DEF RoundOK
  <2>15. c.lcl.seq <= c.net
    BY SMT, <1>1
  <2>16. NodeOK(d, f) /\ IsNode(d, f) /\ d.state = "LM_CATCHING_UP_STATE"
    BY Zenon, <1>1, <1>2, <2>4, <2>6, <2>14, <2>15, RoundContinues
  <2>17. d.state # "LM_BOOTING_STATE"
    BY SMT, <2>16
  <2>18. Succeeds(d, f)
    BY Zenon, <2>8, <2>16, <2>17 DEF Succeeds
  <2> QED BY Zenon, <2>18 DEF d, r
<1> QED BY Zenon, <1>17, <1>18

\* With an archive of the network's chain every file passes.
LEMMA HonestFilePasses ==
    ASSUME NEW c, NEW f, NodeOK(c, f), IsNode(c, f), c.round.on, c.round.stage = "verify",
           ~(c.round.curr > Containing(c.round.range.last)),
           \A k \in CheckpointSet : f[k] = "net"
    PROVE  verifyHistoryOfSingleCheckpoint(f[c.round.curr], c.round.curr, c.round.lastVerified,
                                           c.round.range.last, c.syncing).ok
<1> DEFINE r == c.round
           n == r.curr
           last == r.range.last
           first == Containing(r.range.first)
           lv == r.lastVerified
           e == endsAt(n, lv, last)
<1>1. /\ r \in LaterRounds(f) /\ RoundOK(c, f) /\ r.toLedger \in Nat
      /\ last = r.toLedger /\ c.syncing \in Seq(Nat)
  <2>1. r.stage # "state"
    BY SMT
  <2>2. /\ r \in LaterRounds(f) /\ RoundOK(c, f) /\ r.toLedger \in Nat /\ last = r.toLedger
    BY SMT, <2>1, RoundNumbers
  <2> QED BY Zenon, <2>2, NodeFields
<1>2. /\ r.range.first \in Nat /\ last \in Nat /\ n \in Nat
      /\ lv \in Headers(f) /\ lv.seq \in Nat
  BY Zenon, <1>1, LaterFields
<1>3. /\ VerifyOK(c, f) /\ Connects(r.range, c.lcl.seq) /\ r.toLedger < MaxNetLedger
      /\ c.syncing[1] = r.toLedger + 1 /\ c.syncing # << >>
  <2>1. r.stage \in {"verify", "buckets"} /\ r.stage # "state"
    BY SMT
  <2> QED BY Zenon, <2>1, <1>1 DEF RoundOK, RangeOK, NodeOK, Buffered
<1>4. /\ IsCheckpoint(n) /\ first <= n /\ lv.chain = "net"
      /\ lv.seq = 0 \/ lv.seq + CatchupFrequency = n
  BY Zenon, <1>3 DEF VerifyOK
<1>5. 1 <= r.range.first /\ r.range.first <= last
  BY Zenon, <1>3 DEF Connects
<1>6. first \in Nat /\ r.range.first <= first /\ Containing(last) \in Nat
  BY Zenon, <1>2, ContainingBounds
<1>7. n \in Nat \ {0} /\ last \in Nat \ {0} /\ last <= MaxNetLedger /\ n <= Containing(last)
  <2>1. ~(n > Containing(last))
    BY Zenon
  <2> HIDE DEF n, last, first, r
  <2> QED BY SMT, <2>1, <1>1, <1>2, <1>3, <1>4, <1>5, <1>6
<1>8. f[n] = "net"
  BY Zenon, <1>4, <1>7, FileExists
<1>9. linksUp("net", n, lv)
  <2>1. CASE lv.seq = 0
    BY Zenon, <2>1 DEF linksUp
  <2>2. CASE lv.seq # 0
    <3> HIDE DEF n, lv
    <3>1. FirstOf(n) - 1 = lv.seq
      BY SMT, <2>2, <1>2, <1>4, <1>7, FirstOfCheckpoint
    <3>2. lv = Header("net", lv.seq)
      BY Zenon, <1>2, <1>4, NetHeader
    <3>3. Header("net", FirstOf(n)).chain = "net" /\ Header("net", FirstOf(n)).seq = FirstOf(n)
      BY Zenon DEF Header
    <3>4. Links(lv, Header("net", FirstOf(n)))
      BY Zenon, <3>1, <3>2, <3>3 DEF Links
    <3> QED BY Zenon, <3>4 DEF linksUp
  <2> QED BY Zenon, <2>1, <2>2
<1>10. Header("net", e).seq = last => verifyCatchupCandidate(c.syncing, Header("net", e))
  <2>1. Header("net", e).seq = e /\ Header("net", e).chain = "net"
    BY Zenon DEF Header
  <2>2. Head(c.syncing) = last + 1
    BY SMT, <1>1, <1>3
  <2> QED BY Zenon, <2>1, <2>2, <1>3 DEF verifyCatchupCandidate
<1> QED BY Zenon, <1>8, <1>9, <1>10 DEF verifyHistoryOfSingleCheckpoint

-----------------------------------------------------------------------------
(* The theorems.                                                           *)

CatchupInv == IsNode(cu, cu.files) /\ NodeOK(cu, cu.files)

LEMMA CatchupStarts == CatchupInit => CatchupInv
<1> SUFFICES ASSUME CatchupInit PROVE CatchupInv
  OBVIOUS
<1>1. PICK count \in Counts, bad \in BadFiles, states \in {"net", "other"},
           lcl \in 1..(CatchupFrequency + 1) :
        cu = [state |-> "LM_BOOTING_STATE", lcl |-> Header("net", lcl), syncing |-> << >>,
              net |-> lcl, count |-> count,
              files |-> [c \in CheckpointSet |-> IF c \in bad THEN "other" ELSE "net"],
              states |-> states, round |-> NoRound, gap |-> FALSE, failed |-> "no"]
  BY Zenon DEF CatchupInit
<1> DEFINE f == [c \in CheckpointSet |-> IF c \in bad THEN "other" ELSE "net"]
<1>2. cu \in [state : {"LM_BOOTING_STATE"}, lcl : {Header("net", lcl)}, syncing : {<< >>},
              net : {lcl}, count : {count}, files : {f}, states : {states}, round : {NoRound},
              gap : {FALSE}, failed : {"no"}]
  BY Zenon, <1>1
<1> HIDE DEF f
<1>3. lcl \in Nat /\ 1 <= lcl /\ lcl <= lcl /\ count \in Nat
  BY SMT
<1>4. Header("net", lcl) \in Headers(f)
  BY Zenon, <1>3, HeaderType
<1>5. Header("net", lcl).seq = lcl /\ Header("net", lcl).chain = "net"
  BY Zenon DEF Header
<1>6. NoRound \in Rounds(f) /\ << >> \in Seq(Nat)
  BY Zenon, NoRoundType
<1>7. IsNode(cu, f) /\ cu.files = f
  BY Zenon, <1>2, <1>3, <1>4, <1>6 DEF IsNode
<1>8. /\ cu.state = "LM_BOOTING_STATE" /\ cu.lcl = Header("net", lcl) /\ cu.syncing = << >>
      /\ cu.net = lcl /\ cu.round = NoRound
  BY Zenon, <1>2
<1>9. ~cu.round.on /\ (\A i \in 1..Len(cu.syncing) : cu.syncing[i] <= cu.net)
      /\ cu.state # "LM_CATCHING_UP_STATE" /\ cu.state # "LM_SYNCED_STATE"
  BY SMT, <1>8 DEF NoRound
<1>10. Buffered(cu)
  BY Zenon, <1>8, <1>9 DEF Buffered
<1>11. NodeOK(cu, f)
  BY Zenon, <1>3, <1>5, <1>8, <1>9, <1>10 DEF NodeOK
<1> QED BY Zenon, <1>7, <1>11 DEF CatchupInv

\* A step of a round, in a state that satisfies the invariant.
LEMMA VerifySteps ==
    ASSUME NEW f, NodeOK(cu, f), IsNode(cu, f), VerifyCheckpoint
    PROVE  /\ NodeOK(cu', f) /\ IsNode(cu', f)
           /\ (\A k \in CheckpointSet : f[k] = "net") =>
                \/ cu'.state # "LM_BOOTING_STATE" /\ cu'.failed = "no"
                \/ /\ cu'.failed = "overshot"
                   /\ cu.round.range.first = cu.round.range.last
                   /\ cu.round.range.first = FirstOf(Containing(cu.round.range.first))
<1> DEFINE r == cu.round
           v == verifyHistoryOfSingleCheckpoint(f[r.curr], r.curr, r.lastVerified,
                                                r.range.last, cu.syncing)
           over == r.curr > Containing(r.range.last)
<1>1. /\ cu.failed = "no" /\ r.on /\ r.stage = "verify" /\ cu.files = f
      /\ cu' = IF over THEN [cu EXCEPT !.failed = "overshot"] ELSE verified(cu, r, v)
  <2>1. cu.files = f
    BY Zenon, NodeFields
  <2> QED BY Zenon, <2>1 DEF VerifyCheckpoint, InStage
<1>2. CASE over
  <2>1. cu' = [cu EXCEPT !.failed = "overshot"]
    BY Zenon, <1>1, <1>2
  <2>2. NodeOK(cu', f) /\ IsNode(cu', f) /\ cu'.failed = "overshot"
    <3>1. Stops([cu EXCEPT !.failed = "overshot"], f, "overshot")
      BY Zenon, <1>1, ProcessEnds
    <3>2. Stops(cu', f, "overshot")
      BY Zenon, <3>1, <2>1
    <3> QED BY Zenon, <3>2 DEF Stops
  <2>3. VerifyOK(cu, f) /\ r \in LaterRounds(f)
    <3>1. r.stage # "state"
      BY SMT, <1>1
    <3>2. RoundOK(cu, f) /\ r \in LaterRounds(f)
      BY SMT, <3>1, <1>1, RoundNumbers
    <3> QED BY Zenon, <3>2, <1>1 DEF RoundOK
  <2>4. Containing(r.range.last) < r.curr
    <3>1. r.curr \in Nat /\ r.range.last \in Nat
      BY Zenon, <2>3, LaterFields
    <3>2. Containing(r.range.last) \in Nat
      BY Zenon, <3>1, ContainingBounds
    <3> QED BY SMT, <1>2, <3>1, <3>2
  <2>5. r.range.first = r.range.last /\ r.range.first = FirstOf(Containing(r.range.first))
    BY Zenon, <2>3, <2>4 DEF VerifyOK
  <2> QED BY Zenon, <2>2, <2>5
<1>3. CASE ~over /\ v.ok
  <2>1. Succeeds(verified(cu, r, v), f)
    BY Zenon, <1>1, <1>3, FilePasses
  <2>2. Succeeds(cu', f)
    BY Zenon, <2>1, <1>1, <1>3
  <2> QED BY Zenon, <2>2 DEF Succeeds
<1>4. CASE ~over /\ ~v.ok
  <2>1. cu' = historyNotCaughtup(cu)
    BY Zenon, <1>1, <1>4 DEF verified
  <2>2. NodeOK(cu', f) /\ IsNode(cu', f)
    BY Zenon, <2>1, NotCaughtUp
  <2>3. ~(\A k \in CheckpointSet : f[k] = "net")
    BY Zenon, <1>1, <1>4, HonestFilePasses
  <2> QED BY Zenon, <2>2, <2>3
<1> QED BY Zenon, <1>2, <1>3, <1>4

LEMMA BucketSteps ==
    ASSUME NEW f, NodeOK(cu, f), IsNode(cu, f), ApplyBuckets
    PROVE  /\ NodeOK(cu', f) /\ IsNode(cu', f)
           /\ cu.states = "net" => cu'.state # "LM_BOOTING_STATE" /\ cu'.failed = "no"
<1> DEFINE r == cu.round
           d == [cu EXCEPT !.lcl = r.firstVerified, !.round.stage = "apply"]
           bad == \/ Header(cu.states, Containing(r.range.first)) # r.firstVerified
                  \/ r.firstVerified.seq < cu.lcl.seq
<1>1. /\ cu.failed = "no" /\ r.on /\ r.stage = "buckets"
      /\ cu' = IF bad THEN [cu EXCEPT !.failed = "assertion"] ELSE d
  BY Zenon DEF ApplyBuckets, InStage
<1>2. /\ Succeeds(d, f)
      /\ Header("net", Containing(r.range.first)) = r.firstVerified
      /\ ~(r.firstVerified.seq < cu.lcl.seq)
  BY Zenon, <1>1, BucketsApplied DEF Succeeds
<1>3. CASE bad
  <2>1. cu' = [cu EXCEPT !.failed = "assertion"]
    BY Zenon, <1>1, <1>3
  <2>2. NodeOK(cu', f) /\ IsNode(cu', f)
    <3>1. Stops([cu EXCEPT !.failed = "assertion"], f, "assertion")
      BY Zenon, <1>1, ProcessEnds
    <3>2. Stops(cu', f, "assertion")
      BY Zenon, <3>1, <2>1
    <3> QED BY Zenon, <3>2 DEF Stops
  <2>3. cu.states # "net"
    BY Zenon, <1>2, <1>3
  <2> QED BY Zenon, <2>2, <2>3
<1>4. CASE ~bad
  <2>1. cu' = d
    BY Zenon, <1>1, <1>4
  <2>2. Succeeds(cu', f)
    BY Zenon, <2>1, <1>2
  <2> QED BY Zenon, <2>2 DEF Succeeds
<1> QED BY Zenon, <1>3, <1>4

LEMMA LedgerSteps ==
    ASSUME NEW f, NodeOK(cu, f), IsNode(cu, f), ApplyLedger
    PROVE  Succeeds(cu', f)
<1> DEFINE r == cu.round
           h == Header(f[Containing(r.curr)], r.curr)
           replays == h.seq = cu.lcl.seq + 1 /\ Links(cu.lcl, h)
           skips   == \/ h.seq + 1 < cu.lcl.seq
                      \/ h.seq + 1 = cu.lcl.seq /\ Links(h, cu.lcl)
                      \/ h = cu.lcl
           e == [cu EXCEPT !.lcl = h]
           c == IF replays THEN e ELSE cu
<1>1. /\ cu.failed = "no" /\ r.on /\ r.stage = "apply"
      /\ cu' = IF ~replays /\ ~skips THEN historyNotCaughtup(cu)
               ELSE IF c.lcl.seq = r.range.last THEN historyCaughtup(c)
               ELSE [c EXCEPT !.round.curr = @ + 1]
  <2>1. cu.files = f
    BY Zenon, NodeFields
  <2> QED BY Zenon, <2>1 DEF ApplyLedger, InStage
<1>2. /\ replays \/ skips
      /\ replays => Proceeds(e, f) /\ e.round = r
      /\ ~replays => Proceeds(cu, f)
  BY Zenon, <1>1, LedgerApplied
<1> HIDE DEF replays, skips, e
<1>3. Proceeds(c, f) /\ c.round = r
  BY Zenon, <1>2
<1> HIDE DEF c, r
<1>4. cu' = IF c.lcl.seq = c.round.range.last THEN historyCaughtup(c)
            ELSE [c EXCEPT !.round.curr = @ + 1]
  BY Zenon, <1>1, <1>2, <1>3
<1> QED BY Zenon, <1>3, <1>4 DEF Proceeds

LEMMA CatchupInductive == CatchupInv /\ [CatchupNext]_cu => CatchupInv'
<1> SUFFICES ASSUME CatchupInv, [CatchupNext]_cu PROVE CatchupInv'
  OBVIOUS
<1> DEFINE f == cu.files
<1>1. IsNode(cu, f) /\ NodeOK(cu, f)
  BY Zenon DEF CatchupInv
<1> HIDE DEF f
<1>2. SUFFICES IsNode(cu', f) /\ NodeOK(cu', f)
  <2>1. cu'.files = f
    BY Zenon, <1>2, NodeFields
  <2> QED BY Zenon, <1>2, <2>1 DEF CatchupInv
<1>3. ASSUME NEW missed \in 0..MaxMissed, Externalize(cu.net + missed + 1)
      PROVE  IsNode(cu', f) /\ NodeOK(cu', f)
  <2> DEFINE n == cu.net + missed + 1
  <2>1. cu.net \in Nat
    BY Zenon, <1>1, NodeFields
  <2>2. n \in Nat /\ cu.net < n
    BY SMT, <2>1
  <2>3. n <= MaxNetLedger /\ cu' = valueExternalized([cu EXCEPT !.net = n], n)
    BY Zenon, <1>3 DEF Externalize
  <2> HIDE DEF n
  <2> QED BY Zenon, <1>1, <2>2, <2>3, ExternalizedStep
<1>4. ASSUME GetState PROVE IsNode(cu', f) /\ NodeOK(cu', f)
  BY Zenon, <1>1, <1>4, StateFound DEF GetState, InStage
<1>5. ASSUME RoundFails PROVE IsNode(cu', f) /\ NodeOK(cu', f)
  BY Zenon, <1>1, <1>5, NotCaughtUp DEF RoundFails
<1>6. ASSUME UNCHANGED cu PROVE IsNode(cu', f) /\ NodeOK(cu', f)
  BY Zenon, <1>1, <1>6
<1>7. ASSUME ApplyLedger PROVE IsNode(cu', f) /\ NodeOK(cu', f)
  BY Zenon, <1>1, <1>7, LedgerSteps DEF Succeeds
<1> QED BY ZenonT(40), <1>1, <1>3, <1>4, <1>5, <1>6, <1>7, VerifySteps, BucketSteps DEF CatchupNext

\* verifyCatchupCandidate, applyHistoryOfSingleLedger: whatever the archive
\* holds, whatever the network does meanwhile and wherever a round stops, the
\* last closed ledger is one that the network closed.
THEOREM ClosedLedgersAreTheNetworks == CatchupSpec => []LclOnChain
<1>1. CatchupInv => LclOnChain
  BY Zenon DEF CatchupInv, NodeOK, LclOnChain
<1> QED BY CatchupStarts, CatchupInductive, <1>1, PTL DEF CatchupSpec

\* historyCaughtup: a node that says it is in sync has closed the ledger the
\* network closed last, unless one was missed during the round.
THEOREM InSyncMeansCurrent == CatchupSpec => []SyncedMeansCurrent
<1>1. CatchupInv => SyncedMeansCurrent
  BY Zenon DEF CatchupInv, NodeOK, SyncedMeansCurrent
<1> QED BY CatchupStarts, CatchupInductive, <1>1, PTL DEF CatchupSpec

\* makeCatchupRange, VerifyLedgerChainWork, ApplyLedgerChainWork: with an
\* archive of the network's chain no step of a round fails, for every
\* checkpoint frequency and every number of ledgers asked for, but for the
\* range that is the first ledger of a checkpoint alone.
THEOREM RoundsSucceed == CatchupSpec => HonestRoundsSucceed
<1> DEFINE Fine == Honest /\ (VerifyCheckpoint \/ ApplyBuckets \/ ApplyLedger) =>
                     \/ cu'.state # "LM_BOOTING_STATE" /\ cu'.failed = "no"
                     \/ /\ cu'.failed = "overshot"
                        /\ cu.round.range.first = cu.round.range.last
                        /\ cu.round.range.first = FirstOf(Containing(cu.round.range.first))
<1>1. CatchupInv => Fine
  <2> SUFFICES ASSUME CatchupInv PROVE Fine
    OBVIOUS
  <2> DEFINE f == cu.files
  <2>1. IsNode(cu, f) /\ NodeOK(cu, f)
    BY Zenon DEF CatchupInv
  <2>2. Honest => cu.states = "net" /\ \A k \in CheckpointSet : f[k] = "net"
    BY Zenon DEF Honest
  <2> HIDE DEF f
  <2>3. ASSUME ApplyLedger PROVE cu'.state # "LM_BOOTING_STATE" /\ cu'.failed = "no"
    BY Zenon, <2>1, <2>3, LedgerSteps DEF Succeeds
  <2> QED BY Zenon, <2>1, <2>2, <2>3, VerifySteps, BucketSteps
<1> HIDE DEF Fine
<1>2. CatchupSpec => [][Fine]_cu
  <2>1. CatchupInv /\ [CatchupNext]_cu => [Fine]_cu
    BY Zenon, <1>1
  <2> QED BY CatchupStarts, CatchupInductive, <2>1, PTL DEF CatchupSpec
<1> QED BY <1>2 DEF HonestRoundsSucceed, Fine

=============================================================================
