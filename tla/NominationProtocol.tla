------------------------- MODULE NominationProtocol -------------------------
(***************************************************************************)
(* The nomination protocol of one slot, run by every node                  *)
(* (src/src/scp/NominationProtocol.cpp).                                   *)
(*                                                                         *)
(* As in BallotProtocol, a node's state is a record and the functions of   *)
(* the class are operators on it.  processEnvelope emits the node's own    *)
(* new statement, which it processes itself before it goes on: a frame of  *)
(* the stack is an emitNomination that has not returned.                   *)
(***************************************************************************)
EXTENDS LocalNode

CONSTANTS
    Node,
    MaxValue,          \* how many values there are
    QSetOf,            \* QSetOf[n]: the quorum set of node n
    Validator,         \* nodes with NODE_IS_VALIDATOR, whose slot is fully validated
    ValidateValue,     \* ValidateValue[n][v]: what the driver of n says of v
    ExtractValidValue, \* ExtractValidValue[n][v]: a valid variation of v, or NoValue
    CombineCandidates, \* CombineCandidates[S]: the driver's composite of a set of values
    Proposal,          \* Proposal[n]: the value the herder of n nominates
    UINT64_MAX,        \* the scale of weights and hashes
    HashNode,          \* HashNode[r][n]: hash of n in round r, below its weight if lucky
    Priority,          \* Priority[r][n]: the other hash, that orders the lucky nodes
    HashValue,         \* HashValue[r][v]: the order in which values are taken over
    CandidateSteps,    \* what the ballot protocol expects of the composites
    Hears,             \* Hears[n]: the nodes whose statements reach n
    MaxRound,          \* model bound: rounds
    Externalizes,      \* model bound: the nodes that may externalize meanwhile
    MaxRestarts        \* model bound: MaxRestarts[n] lives of n after the first

Value   == 1..MaxValue
NoValue == 0

\* The first round is always reached; quorum sets name nodes; what is
\* proposed or extracted are values.
ASSUME ConstantTypes ==
    /\ MaxRound \in Nat \ {0}
    /\ \A n \in Node :
          /\ forAllNodes(QSetOf[n]) \subseteq Node
          /\ Proposal[n] \in Value
          /\ \A v \in Value : ExtractValidValue[n][v] \in Value \cup {NoValue}

\* 64 bit hashes of different nodes or values are taken to differ: in every
\* set of values there is one with the highest hash.
ASSUME PriorityAssumption ==
    \A r \in 1..MaxRound : \A n, m \in Node :
        n # m => Priority[r][n] # Priority[r][m]
ASSUME HashValueAssumption ==
    \A r \in 1..MaxRound : \A S \in (SUBSET Value) \ {{}} :
        \E v \in S : \A w \in S :
            HashValue[r][w] <= HashValue[r][v] /\ (HashValue[r][w] = HashValue[r][v] => w = v)

\* CandidateSteps allows what more candidates do to the driver's composite.
ASSUME CandidateStepsAssumption ==
    \A n \in Node : \A S, T \in (SUBSET Value) \ {{}} :
        /\ <<NoValue, CombineCandidates[T]>> \in CandidateSteps[n]
        /\ \/ ~(S \subseteq T)
           \/ CombineCandidates[S] = CombineCandidates[T]
           \/ <<CombineCandidates[S], CombineCandidates[T]>> \in CandidateSteps[n]

VARIABLE nom          \* nom[n]: the NominationProtocol object of node n


-----------------------------------------------------------------------------
(* Statements.  The vectors are sorted and without duplicates (isSane), so *)
(* they are sets; the empty statement is no statement.                     *)

Nomination(votes, accepted) == [votes |-> votes, accepted |-> accepted]
NoNomination == Nomination({}, {})

isSane(st) == st # NoNomination

\* One of the sets grew and none shrank.
isNewerStatement(old, st) ==
    /\ old.votes \subseteq st.votes /\ old.accepted \subseteq st.accepted
    /\ old # st

-----------------------------------------------------------------------------
(* Local state.                                                            *)

InitNomination(n) ==
    [self |-> n, round |-> 0, votes |-> {}, accepted |-> {}, candidates |-> {},
     latest |-> [m \in Node |-> NoNomination], lastEnvelope |-> NoNomination,
     leaders |-> {}, started |-> FALSE, timer |-> FALSE, composite |-> NoValue,
     stack |-> << >>, failure |-> FALSE, emitted |-> {}, lives |-> 0]

Running(s) == s.stack # << >> /\ ~s.failure
Idle(s)    == s.stack = << >> /\ ~s.failure
Stopped(s) == s.round > 0 /\ ~s.started

\* An emitNomination: its statement, whether the node has begun to process
\* it, and whether the caller has new candidates to combine afterwards.
Frame(st, combine) == [st |-> st, entered |-> FALSE, combine |-> combine]

Slices == [n \in Node |-> {U \in SUBSET Node : isQuorumSlice(QSetOf[n], U)}]
VBlockingSets == [n \in Node |-> {U \in SUBSET Node : isVBlocking(QSetOf[n], U)}]

Accepts(s, v) == {m \in Node : v \in s.latest[m].accepted}
Votes(s, v)   == {m \in Node : v \in s.latest[m].votes}

federatedAccept(s, v) ==
    \/ Accepts(s, v) \in VBlockingSets[s.self]
    \/ isQuorum(Slices[s.self], Slices, Accepts(s, v) \cup Votes(s, v))

federatedRatify(s, v) == isQuorum(Slices[s.self], Slices, Accepts(s, v))

-----------------------------------------------------------------------------
(* Leaders, and what a node takes over from them.                          *)

getNodePriority(n, q, round) ==
    IF HashNode[round][n] < getNodeWeight(n, q, UINT64_MAX) THEN Priority[round][n] ELSE 0

RoundLeaders(n, round) ==
    LET P(m) == getNodePriority(m, QSetOf[n], round)
        all == forAllNodes(QSetOf[n])
    IN  {m \in all : P(m) > 0 /\ \A k \in all : P(k) <= P(m)}

\* The value a node votes for instead of v: v itself, or a valid variation.
ValueToNominate(n, v) ==
    IF ValidateValue[n][v] = "kFullyValidatedValue" THEN v ELSE ExtractValidValue[n][v]

\* The one with the highest hash among those the node has not voted for.
getNewValueFromNomination(s, st) ==
    LET new == {ValueToNominate(s.self, v) : v \in st.votes \cup st.accepted}
                 \ ({NoValue} \cup s.votes)
    IN  IF new = {} THEN NoValue
        ELSE CHOOSE v \in new : \A w \in new : HashValue[s.round][w] <= HashValue[s.round][v]

Adding(s, v) == [s EXCEPT !.votes = @ \cup ({v} \ {NoValue})]

-----------------------------------------------------------------------------
(* Processing a statement and emitting one.                                *)

\* The composite of all candidates goes to the ballot protocol (bumpState).
combine(s) == [s EXCEPT !.composite = CombineCandidates[s.candidates]]

emitNomination(s, more) ==
    [s EXCEPT !.stack = <<Frame(Nomination(s.votes, s.accepted), more)>> \o @]

Acceptable(s, m, st) == isNewerStatement(s.latest[m], st) /\ isSane(st)

recordEnvelope(s, m, st) == [s EXCEPT !.latest[m] = st]

SharedVotes(s, st) == {v \in st.votes \ s.accepted : federatedAccept(s, v)}

\* Wrong: only the latest candidates are kept.
addCandidatesOnly(s, new) == IF new = {} THEN s ELSE [s EXCEPT !.candidates = new]

addCandidates(s, new) == [s EXCEPT !.candidates = @ \cup new]

\* The end of processEnvelope: a statement if something changed, then the
\* composite of the candidates if there are new ones.
conclude(s, modified, newCandidates) ==
    IF modified THEN emitNomination(s, newCandidates)
    ELSE IF newCandidates THEN combine(s) ELSE s

\* Without a candidate, the value of a leader is voted for.
voteWithLeader(s, m, st, modified, newCandidates) ==
    LET newVote == IF s.candidates = {} /\ m \in s.leaders
                   THEN getNewValueFromNomination(s, st) ELSE NoValue
    IN  conclude(Adding(s, newVote), modified \/ newVote # NoValue, newCandidates)

\* Accepted values that a quorum accepts become candidates.
promoteAccepted(s, m, st, modified) ==
    LET new == {a \in s.accepted \ s.candidates : federatedRatify(s, a)}
    IN  voteWithLeader(addCandidates(s, new), m, st, modified, new # {})

\* Votes that enough nodes share are accepted, or a valid variation of them
\* is voted for.
promoteVotes(s, m, st, shared) ==
    LET valid  == {v \in shared : ValidateValue[s.self][v] = "kFullyValidatedValue"}
        others == {ExtractValidValue[s.self][v] : v \in shared \ valid} \ {NoValue}
    IN  promoteAccepted(
            [s EXCEPT !.accepted = @ \cup valid, !.votes = @ \cup valid \cup others],
            m, st, valid # {} \/ ~(others \subseteq s.votes))

processEnvelope(s, m, st) ==
    LET known == recordEnvelope(s, m, st)
    IN  IF s.started THEN promoteVotes(known, m, st, SharedVotes(known, st)) ELSE known

\* emitNomination calls processEnvelope: anything but VALID is an exception.
enterEmitNomination(s) ==
    LET f == s.stack[1]
        t == [s EXCEPT !.stack[1].entered = TRUE]
    IN  IF Acceptable(s, s.self, f.st) THEN processEnvelope(t, s.self, f.st)
        ELSE [s EXCEPT !.failure = TRUE]

\* The end of emitNomination: sent unless a nested call sent a newer one.
send(s, st) ==
    IF isNewerStatement(s.lastEnvelope, st)
    THEN [s EXCEPT !.lastEnvelope = st,
                   !.emitted = IF s.self \in Validator THEN @ \cup {st} ELSE @]
    ELSE s

returnFromEmitNomination(s) ==
    LET f == s.stack[1]
        t == send([s EXCEPT !.stack = Tail(@)], f.st)
    IN  IF f.combine THEN combine(t) ELSE t

\* Wrong: a new round does not look at what the leader already said.
takeLeaderValueNot(s, leader) == s

\* A leader that has spoken gives the value to vote for.
takeLeaderValue(s, leader) ==
    IF s.latest[leader] = NoNomination THEN s
    ELSE Adding(s, getNewValueFromNomination(s, s.latest[leader]))

\* A new round.  Priorities differ, so there is one leader at most.
nominate(s, value, timedout) ==
    LET r == s.round + 1
        leaders == RoundLeaders(s.self, r)
        t == [s EXCEPT !.started = TRUE, !.round = r, !.leaders = leaders, !.timer = TRUE]
        u == IF s.self \in leaders THEN Adding(t, value)
             ELSE IF leaders = {} THEN t
             ELSE takeLeaderValue(t, CHOOSE m \in leaders : TRUE)
    IN  IF timedout /\ ~s.started THEN s
        ELSE IF u.votes # s.votes THEN emitNomination(u, FALSE) ELSE u

-----------------------------------------------------------------------------
(* The events of a slot.                                                   *)

Update(n, s) == nom' = [nom EXCEPT ![n] = s]

NoneRunning == \A n \in Node : ~Running(nom[n])

EmitNomination(n) ==
    /\ Running(nom[n])
    /\ Update(n, IF nom[n].stack[1].entered THEN returnFromEmitNomination(nom[n])
                 ELSE enterEmitNomination(nom[n]))

\* A statement of m reaches n: first time, again, late or out of order.
ReceiveEnvelope(n, m) ==
    /\ NoneRunning /\ Idle(nom[n])
    /\ m \in Hears[n] \ {n}
    /\ \E st \in nom[m].emitted :
          /\ Acceptable(nom[n], m, st)
          /\ Update(n, processEnvelope(nom[n], m, st))

\* The herder triggers the next ledger, once.
Nominate(n) ==
    /\ NoneRunning /\ Idle(nom[n])
    /\ n \in Validator /\ nom[n].round = 0
    /\ Update(n, nominate(nom[n], Proposal[n], FALSE))

NominationTimerExpired(n) ==
    /\ NoneRunning /\ Idle(nom[n])
    /\ nom[n].timer /\ nom[n].round < MaxRound
    /\ Update(n, nominate([nom[n] EXCEPT !.timer = FALSE], Proposal[n], TRUE))

\* The ballot protocol externalized; the driver cancels the timer.
StopNomination(n) ==
    /\ NoneRunning /\ Idle(nom[n])
    /\ n \in Externalizes /\ nom[n].started
    /\ Update(n, [nom[n] EXCEPT !.started = FALSE, !.timer = FALSE])

\* Wrong: what was accepted is not restored.
setStateFromVotes(s, st) ==
    [recordEnvelope(s, s.self, st) EXCEPT !.votes = st.votes, !.lastEnvelope = st]

setStateFromEnvelope(s, st) ==
    [recordEnvelope(s, s.self, st) EXCEPT
        !.votes = st.votes, !.accepted = st.accepted, !.lastEnvelope = st]

\* The process stops between two handlers and starts again from the last
\* statement it sent, which emitEnvelope saves before it broadcasts it.
Restart(n) ==
    /\ NoneRunning
    /\ nom[n].lives < MaxRestarts[n]
    /\ LET fresh == [InitNomination(n) EXCEPT !.emitted = nom[n].emitted,
                                             !.lives = nom[n].lives + 1]
       IN  Update(n, IF nom[n].emitted = {} THEN fresh
                     ELSE setStateFromEnvelope(fresh, nom[n].lastEnvelope))

NominationInit == nom = [n \in Node |-> InitNomination(n)]

NominationNext ==
    \E n \in Node :
        \/ EmitNomination(n)
        \/ \E m \in Node : ReceiveEnvelope(n, m)
        \/ Nominate(n)
        \/ NominationTimerExpired(n)
        \/ StopNomination(n)
        \/ Restart(n)

NominationSpec == NominationInit /\ [][NominationNext]_nom

\* Weak fairness of everything but stops and restarts: statements flood and
\* are sent again, the herder triggers the ledger, timers fire.
CanStep ==
    \E n \in Node :
        \/ Running(nom[n])
        \/ /\ NoneRunning /\ Idle(nom[n])
           /\ \/ \E m \in Hears[n] \ {n} : \E st \in nom[m].emitted :
                    Acceptable(nom[n], m, st)
              \/ n \in Validator /\ nom[n].round = 0
              \/ nom[n].timer /\ nom[n].round < MaxRound

Step ==
    \E n \in Node :
        \/ EmitNomination(n)
        \/ \E m \in Node : ReceiveEnvelope(n, m)
        \/ Nominate(n)
        \/ NominationTimerExpired(n)

NominationFairness == []<>(~CanStep) \/ []<><<Step>>_nom

-----------------------------------------------------------------------------
(* Properties.                                                             *)

\* A candidate is backed by a quorum of nodes that accept it now: what a node
\* said it accepts, and others counted on (federatedRatify), it never forgets,
\* over restarts too (setStateFromEnvelope).
CandidatesBacked ==
    \A n \in Node : \A v \in nom[n].candidates :
        isQuorum(Slices[n], Slices, {m \in Node : v \in nom[m].accepted})

\* The composite values follow the steps that the ballot protocol is checked
\* against: candidates are only added (mCandidates), so a composite is never
\* taken back within a life.
Source == INSTANCE CandidateSource
              WITH candidate <- [n \in Node |-> nom[n].composite]
FeedsBallotProtocol == Source!Spec

\* While nobody externalizes or starts again, nomination converges: all
\* validators come to hold the same candidates, at least one, and the same
\* composite, although what arrives before nominate() is only recorded.
Converges ==
    [](\A n \in Node : ~Stopped(nom[n]) /\ nom[n].lives = 0) =>
        <>[](\A n, m \in Validator :
                /\ nom[n].candidates # {}
                /\ nom[n].candidates = nom[m].candidates
                /\ nom[n].composite = nom[m].composite)
=============================================================================
