----------------------- MODULE BallotAgreementProofs ------------------------
(***************************************************************************)
(* Why nodes agree. The argument is about the states S of all nodes,       *)
(* before and after a step, and uses of the code only what BallotFacts     *)
(* states.                                                                 *)
(*                                                                         *)
(* A ballot q is against a commit (c, v) when it has another value and is  *)
(* above it: accepting q as prepared aborts the commit. Whatever a node    *)
(* accepts as prepared has behind it, for every commit it is against, a    *)
(* quorum that never votes for that commit (AbortQuorum), or a commit of   *)
(* its own value that is protected; whatever it accepts as committed is    *)
(* protected: a quorum voted for it and nothing against it is accepted     *)
(* (Protected). Quorums intersect, so the two exclude each other. What     *)
(* stands behind a ballot must survive a restart, in which a node forgets  *)
(* what it had not sent: facts are relative to the set V of nodes whose    *)
(* unsent statements they use.                                             *)
(***************************************************************************)
EXTENDS BallotFacts

USE Zenon

-----------------------------------------------------------------------------
(* Statements about one commit.                                            *)

\* No empty set blocks a node: VBlockingTest asks for a hit.
NothingBlocks == \A n \in Node : {} \notin VBlockingSets[n]

\* A statement after which no vote to commit (c, w) can follow.
Shuns(st, c, w) ==
    /\ st # NoStatement
    /\ IsPrepare(st) => /\ Less(Ballot(c, w), st.ballot)
                        /\ ~(st.ballot.value = w /\ st.nC # 0 /\ st.nC <= c)

\* A statement that votes to commit (c, v), or that accepts some commit.
Backs(st, c, v) == st # NoStatement /\ (IsPrepare(st) => VotesCommit(st, c, v))

LEMMA CommitBallot ==
    ASSUME NEW c \in Counters, NEW v \in Values
    PROVE  /\ Ballot(c, v) \in Ballots /\ Ballot(c, v).counter = c /\ Ballot(c, v).value = v
           /\ c \in Nat /\ v \in Nat
<1>1. Ballot(c, v) \in Ballots
  BY BallotType DEF Values
<1>2. c \in Nat /\ v \in Nat
  BY SMT, CountersAreNat, ValueAssumption DEF Values, Value, NoValue
<1> QED BY <1>1, <1>2 DEF Ballot

\* Of two ballots of different values one is against the other.
LEMMA AgainstTotal ==
    ASSUME NEW q \in Ballots, NEW c \in Counters, NEW v \in Values, q.value # v
    PROVE  Against(q, c, v) \/ Less(q, Ballot(c, v))
<1> DEFINE b == Ballot(c, v)
<1>1. b \in Ballots /\ b.value = v
  BY CommitBallot
<1> HIDE DEF b
<1>2. Less(b, q) \/ LessEq(q, b)
  BY <1>1, LessTransitive
<1> QED BY <1>1, <1>2 DEF Against, LessEq, b

\* What is against a lower ballot of the same value is against the higher.
LEMMA AgainstLower ==
    ASSUME NEW p \in Ballots, NEW q \in Ballots, NEW c \in Counters, NEW v \in Values,
           areBallotsLessAndCompatible(p, q), Against(p, c, v)
    PROVE  Against(q, c, v)
<1>1. LessEq(p, q) /\ p.value = q.value /\ p.value # v
  BY DEF areBallotsLessAndCompatible, areBallotsCompatible, Against
<1> QED BY <1>1, AgainstHigher

LEMMA AgainstTransitive ==
    ASSUME NEW q \in Ballots, NEW d \in Counters, NEW w \in Values,
           NEW c \in Counters, NEW v \in Values,
           Against(q, d, w), Against(Ballot(d, w), c, v), q.value # v
    PROVE  Against(q, c, v)
<1> DEFINE b == Ballot(d, w)
<1>1. b \in Ballots
  BY CommitBallot
<1>2. LessEq(b, q) /\ Against(b, c, v)
  BY DEF Against, LessEq
<1> HIDE DEF b
<1> QED BY <1>1, <1>2, AgainstHigher

LEMMA AgainstNotBack ==
    ASSUME NEW d \in Counters, NEW w \in Values, NEW c \in Counters, NEW v \in Values,
           w # v, ~Against(Ballot(d, w), c, v)
    PROVE  Against(Ballot(c, v), d, w)
<1> DEFINE b == Ballot(d, w)
           e == Ballot(c, v)
<1>1. b \in Ballots /\ b.value = w /\ e \in Ballots /\ e.value = v
  BY CommitBallot
<1>2. ~Less(e, b)
  BY <1>1 DEF Against
<1> HIDE DEF b, e
<1>3. LessEq(b, e) /\ b # e
  BY <1>1, <1>2, LessTransitive
<1> QED BY <1>1, <1>3 DEF Against, LessEq, b, e

LEMMA ShunsNoVote ==
    ASSUME NEW st, NEW c, NEW w, Shuns(st, c, w)
    PROVE  ~VotesCommit(st, c, w)
BY DEF Shuns, VotesCommit

LEMMA FollowsTypes ==
    ASSUME NEW a \in Statements, NEW z \in Statements, Follows(a, z)
    PROVE  /\ IsPrepare(z) => IsPrepare(a) /\ Continues(a, z) /\ LessEq(a.ballot, z.ballot)
           /\ ~IsPrepare(a) => ~IsPrepare(z) /\ CommitValue(z) = CommitValue(a)
<1>1. isNewerStatement(a, z)
  BY DEF Follows
<1>2. IsPrepare(z) => IsPrepare(a)
  BY SMT, <1>1, RankFields DEF isNewerStatement, IsPrepare
<1> QED BY <1>1, <1>2, NewerBallot DEF Follows

\* The votes that a statement above a commit excludes stay excluded.
LEMMA ShunsFollows ==
    ASSUME NEW a \in Statements, NEW z \in Statements, Follows(a, z),
           NEW c \in Counters, NEW w \in Values, Shuns(a, c, w)
    PROVE  Shuns(z, c, w)
<1>1. z # NoStatement
  BY RankFields
<1>2. ASSUME IsPrepare(z)
      PROVE  /\ Less(Ballot(c, w), z.ballot)
             /\ ~(z.ballot.value = w /\ z.nC # 0 /\ z.nC <= c)
  <2>1. IsPrepare(a) /\ Continues(a, z) /\ LessEq(a.ballot, z.ballot)
    BY <1>2, FollowsTypes
  <2> DEFINE e == Ballot(c, w)
  <2>2. e \in Ballots /\ c \in Nat
    BY CommitBallot
  <2>3. a.ballot \in Ballots /\ z.ballot \in Ballots /\ z.nC \in Counters
    BY <1>2, <2>1, StatementFields
  <2>4. Less(e, a.ballot) /\ ~(a.ballot.value = w /\ a.nC # 0 /\ a.nC <= c)
    BY <2>1 DEF Shuns
  <2>5. ASSUME z.ballot.value = w, z.nC # 0, z.nC <= c PROVE FALSE
    <3> DEFINE f == Ballot(z.nC, w)
    <3>1. f \in Ballots
      BY <2>3, CommitBallot
    <3>2. LessEq(f, e)
      <4>1. z.nC \in Nat
        BY <2>3, CountersAreNat
      <4> QED BY SMT, <2>2, <2>5, <4>1 DEF LessEq, Less, Ballot
    <3>3. LessEq(a.ballot, f) \/ (a.ballot.value = w /\ a.nC = z.nC)
      BY <2>1, <2>5 DEF Continues
    <3> HIDE DEF e, f
    <3>4. ~LessEq(a.ballot, f)
      BY <2>2, <2>3, <2>4, <3>1, <3>2, LessTransitive
    <3> QED BY <2>4, <2>5, <3>3, <3>4
  <2> HIDE DEF e
  <2>6. Less(e, z.ballot)
    BY <2>1, <2>2, <2>3, <2>4, LessTransitive
  <2> QED BY <2>5, <2>6 DEF e
<1> QED BY <1>1, <1>2 DEF Shuns

\* A vote to prepare a ballot excludes the votes it is against.
LEMMA VoteShuns ==
    ASSUME NEW st \in Statements, IsPrepare(st), NEW c, NEW w, Against(st.ballot, c, w)
    PROVE  Shuns(st, c, w)
BY RankFields DEF Shuns, Against

\* A vote to commit stays unless what aborts it was accepted.
LEMMA BacksFollows ==
    ASSUME NEW a \in Statements, NEW z \in Statements, Follows(a, z),
           NEW c \in Counters, NEW v \in Values, Backs(a, c, v),
           IsPrepare(z) => ~Aborts(z, c, v)
    PROVE  Backs(z, c, v)
<1>1. z # NoStatement
  BY RankFields
<1>2. ASSUME IsPrepare(z) PROVE VotesCommit(z, c, v)
  <2>1. IsPrepare(a) /\ Continues(a, z)
    BY <1>2, FollowsTypes
  <2>2. VotesCommit(a, c, v)
    BY <2>1 DEF Backs
  <2> QED BY <1>2, <2>1, <2>2 DEF Continues
<1> QED BY <1>1, <1>2 DEF Backs

LEMMA BackedNotAgainst ==
    ASSUME NEW st, IsPrepare(st), NEW c, NEW v, Backs(st, c, v)
    PROVE  ~Against(st.ballot, c, v)
BY DEF Backs, VotesCommit, Against

-----------------------------------------------------------------------------
(* What the nodes accepted, and what stands behind it.  S is the state of  *)
(* all nodes.  A fact that depends on what node n knows but has not sent   *)
(* holds for V = {n}: it may be lost when n restarts.  What is sent holds  *)
(* for V = {}.                                                             *)

\* Ballots accepted as prepared, by a PREPARE statement and by a state.  The
\* ballots of a node that accepted a commit all have the value of that commit.
HasPrepared(st, q) ==
    /\ IsPrepare(st)
    /\ \/ q \in {st.prepared, st.preparedPrime} \ {NoBallot}
       \/ st.nC # 0 /\ q = Ballot(st.nH, st.ballot.value)

StateAccepted(s, q) ==
    \/ q \in {s.prepared, s.preparedPrime} \ {NoBallot}
    \/ s.phase = "PREPARE" /\ s.commit # NoBallot /\ q = s.highBallot

Accepted(s, q) == StateAccepted(s, q) \/ \E a \in Made(s) : HasPrepared(a, q)

\* Commits accepted.
HasCommitted(st, b) == ~IsPrepare(st) /\ b = getWorkingBallot(st)

StateCommitting(s, b) == s.phase # "PREPARE" /\ b = s.commit

Committing(s, b) == StateCommitting(s, b) \/ \E a \in Made(s) : HasCommitted(a, b)

HasShunned(s, c, w) == Shuns(Own(s), c, w) /\ \A a \in Made(s) : ~VotesCommit(a, c, w)

HasBacked(s, c, v) ==
    Backs(Own(s), c, v) /\ \A a \in Made(s) : IsPrepare(a) => ~Against(a.ballot, c, v)

\* A quorum that does not and will not vote to commit (c, w).
AbortQuorum(S, V, c, w) ==
    \E U \in QuorumSets : \A y \in U :
        HasShunned(S[y], c, w) /\ (y \in V \/ Shuns(S[y].lastEnvelopeEmit, c, w))

\* A quorum that voted to commit (c, v) and never voted against it.
CommitQuorum(S, V, c, v) ==
    \E U \in QuorumSets : \A y \in U :
        HasBacked(S[y], c, v) /\ (y \in V \/ Backs(S[y].lastEnvelopeEmit, c, v))

\* Some node has accepted a commit of v.
CommitKnown(S, V, v) ==
    \E x \in Node : \/ \E st \in S[x].emitted : \E b : HasCommitted(st, b) /\ b.value = v
                    \/ x \in V /\ \E b : Committing(S[x], b) /\ b.value = v

\* Nothing can be accepted any more that is against the commit of (c, v), and
\* no commit of another value below it can be.
Ready(S, V, c, v) ==
    /\ CommitQuorum(S, V, c, v)
    /\ \A m \in Node : \A q : Accepted(S[m], q) => ~Against(q, c, v)
    /\ \A d \in Counters, w \in Values : Against(Ballot(c, v), d, w) => AbortQuorum(S, V, d, w)

Protected(S, V, c, v) == CommitKnown(S, V, v) /\ Ready(S, V, c, v)

\* Every commit that q is against is aborted by a quorum, or lies above a
\* protected commit of q's value.
Supported(S, V, q) ==
    \A d \in Counters, w \in Values : Against(q, d, w) =>
        \/ AbortQuorum(S, V, d, w)
        \/ \E c \in Counters : Against(Ballot(d, w), c, q.value) /\ Protected(S, V, c, q.value)

Protects(S, V, b) == \E c \in Counters : c <= b.counter /\ Protected(S, V, c, b.value)

\* q is against no protected commit.
Clear(S, q) ==
    \A V \in SUBSET Node : \A c \in Counters, v \in Values :
        Protected(S, V, c, v) => ~Against(q, c, v)

\* A node knows its own statements and those the others sent.
NetOK(S) ==
    \A n \in Node :
        /\ HistoryOK(S[n]) /\ S[n].self = n
        /\ \A m \in Node \ {n} : S[n].latest[m] \in S[m].emitted \cup {NoStatement}

GoodNode(S, n) ==
    /\ \A q : Accepted(S[n], q) => Supported(S, {n}, q)
    /\ \A b : Committing(S[n], b) => Protects(S, {n}, b)
    /\ \A st \in S[n].emitted :
          /\ \A q : HasPrepared(st, q) => Supported(S, {}, q)
          /\ \A b : HasCommitted(st, b) => Protects(S, {}, b)

SameValue(S) ==
    \A m, n \in Node : \A a, b : Committing(S[m], a) /\ Committing(S[n], b) => a.value = b.value

Good(S) == SameValue(S) /\ \A n \in Node : GoodNode(S, n)

\* A fact about what is sent is a fact about what is known.
LEMMA SentIsKnown ==
    ASSUME NEW S, NEW V, NEW W, V \subseteq W
    PROVE  /\ \A c, w : AbortQuorum(S, V, c, w) => AbortQuorum(S, W, c, w)
           /\ \A c, v : Protected(S, V, c, v) => Protected(S, W, c, v)
           /\ \A q : Supported(S, V, q) => Supported(S, W, q)
           /\ \A b : Protects(S, V, b) => Protects(S, W, b)
<1>1. ASSUME NEW c, NEW w, AbortQuorum(S, V, c, w) PROVE AbortQuorum(S, W, c, w)
  BY <1>1 DEF AbortQuorum
<1>2. ASSUME NEW c, NEW v, CommitQuorum(S, V, c, v) PROVE CommitQuorum(S, W, c, v)
  BY <1>2 DEF CommitQuorum
<1>3. ASSUME NEW v, CommitKnown(S, V, v) PROVE CommitKnown(S, W, v)
  BY <1>3 DEF CommitKnown
<1>4. ASSUME NEW c, NEW v, Protected(S, V, c, v) PROVE Protected(S, W, c, v)
  BY <1>1, <1>2, <1>3, <1>4 DEF Protected, Ready
<1>5. ASSUME NEW q, Supported(S, V, q) PROVE Supported(S, W, q)
  BY <1>1, <1>4, <1>5 DEF Supported
<1>6. ASSUME NEW b, Protects(S, V, b) PROVE Protects(S, W, b)
  BY <1>4, <1>6 DEF Protects
<1> QED BY <1>1, <1>4, <1>5, <1>6

\* What stands behind a ballot stands behind the lower ones of its value.
LEMMA SupportedBelow ==
    ASSUME NEW S, NEW V, NEW p \in Ballots, NEW q \in Ballots,
           areBallotsLessAndCompatible(p, q)
    PROVE  /\ Supported(S, V, q) => Supported(S, V, p)
           /\ Clear(S, q) => Clear(S, p)
<1>1. p.value = q.value
  BY DEF areBallotsLessAndCompatible, areBallotsCompatible
<1>2. \A c \in Counters, v \in Values : Against(p, c, v) => Against(q, c, v)
  BY AgainstLower
<1> QED BY <1>1, <1>2 DEF Supported, Clear

\* A protected commit stands behind every ballot of its value.
LEMMA ProtectedSupports ==
    ASSUME NEW S, NEW V, NEW c \in Counters, NEW v \in Values, Protected(S, V, c, v),
           NEW q, q.value = v
    PROVE  Supported(S, V, q)
<1> SUFFICES ASSUME NEW d \in Counters, NEW w \in Values, Against(q, d, w),
                    ~AbortQuorum(S, V, d, w)
             PROVE  Against(Ballot(d, w), c, v)
  BY DEF Supported
<1>1. v # w
  BY DEF Against
<1>2. ~Against(Ballot(c, v), d, w)
  BY DEF Protected, Ready
<1> QED BY <1>1, <1>2, AgainstNotBack

\* The typing of what is accepted.
LEMMA AcceptedTypes ==
    ASSUME NEW s, SlotOK(s)
    PROVE  /\ \A q : Accepted(s, q) => q \in Ballots
           /\ \A b : Committing(s, b) => b \in Ballots
           /\ \A a \in Statements :
                 /\ \A q : HasPrepared(a, q) => q \in Ballots
                 /\ \A b : HasCommitted(a, b) => b \in Ballots /\ b.value = CommitValue(a)
<1>1. ASSUME NEW a \in Statements, NEW q, HasPrepared(a, q) PROVE q \in Ballots
  <2>1. IsPrepare(a)
    BY <1>1 DEF HasPrepared
  <2>2. a.ballot \in Ballots /\ a.prepared \in Ballots /\ a.preparedPrime \in Ballots
        /\ a.nH \in Counters
    BY <2>1, StatementFields
  <2>3. a.ballot.value \in Values
    BY <2>2 DEF Ballots, Values
  <2>4. Ballot(a.nH, a.ballot.value) \in Ballots
    BY <2>2, <2>3, CommitBallot
  <2> QED BY <1>1, <2>2, <2>4 DEF HasPrepared
<1>2. ASSUME NEW a \in Statements, NEW b, HasCommitted(a, b)
      PROVE  b \in Ballots /\ b.value = CommitValue(a)
  <2>1. ~IsPrepare(a) /\ b = getWorkingBallot(a)
    BY <1>2 DEF HasCommitted
  <2>2. CASE a.type = "CONFIRM"
    <3>1. a.ballot \in Ballots /\ a.nCommit \in Counters
      BY <2>2, StatementFields
    <3>2. a.ballot.value \in Values
      BY <3>1 DEF Ballots, Values
    <3>3. b = Ballot(a.nCommit, a.ballot.value)
      BY SMT, <2>1, <2>2 DEF getWorkingBallot
    <3>4. CommitValue(a) = a.ballot.value
      BY <2>2 DEF CommitValue
    <3> QED BY <3>1, <3>2, <3>3, <3>4, CommitBallot
  <2>3. CASE a.type = "EXTERNALIZE"
    <3>1. a.commit \in Ballots
      BY <2>3, StatementFields
    <3>2. b = a.commit /\ CommitValue(a) = a.commit.value
      BY SMT, <2>1, <2>3 DEF getWorkingBallot, CommitValue
    <3> QED BY <3>1, <3>2
  <2> QED BY <2>1, <2>2, <2>3, RankFields DEF IsPrepare
<1>3. Made(s) \subseteq Statements
  BY MadeTypes
<1>4. /\ s.prepared \in Ballots /\ s.preparedPrime \in Ballots
      /\ s.highBallot \in Ballots /\ s.commit \in Ballots
  BY DEF SlotOK, SlotStates
<1>5. ASSUME NEW q, Accepted(s, q) PROVE q \in Ballots
  BY <1>1, <1>3, <1>4, <1>5 DEF Accepted, StateAccepted
<1>6. ASSUME NEW b, Committing(s, b) PROVE b \in Ballots
  BY <1>2, <1>3, <1>4, <1>6 DEF Committing, StateCommitting
<1> QED BY <1>1, <1>2, <1>5, <1>6

-----------------------------------------------------------------------------
(* What stands behind the statements a node knows.                         *)

LEMMA NetNode ==
    ASSUME NEW S, NetOK(S), NEW n \in Node
    PROVE  /\ HistoryOK(S[n]) /\ SlotOK(S[n]) /\ ChainOK(S[n]) /\ SentOK(S[n]) /\ S[n].self = n
           /\ Made(S[n]) \subseteq Statements /\ S[n].emitted \subseteq Made(S[n])
           /\ S[n].latest[n] = Own(S[n])
BY MadeTypes DEF NetOK, HistoryOK, Own

LEMMA KnownStatement ==
    ASSUME NEW S, NetOK(S), NEW n \in Node, NEW m \in Node, S[n].latest[m] # NoStatement
    PROVE  /\ S[n].latest[m] \in Made(S[m]) /\ S[n].latest[m] \in Statements
           /\ m = n \/ S[n].latest[m] \in S[m].emitted
<1>1. CASE m = n
  <2>1. S[n].latest[n] = Own(S[n]) /\ SlotOK(S[n])
    BY NetNode
  <2>2. Own(S[n]) \in Made(S[n]) /\ Made(S[n]) \subseteq Statements
    BY <1>1, <2>1, MadeTypes
  <2> QED BY <1>1, <2>1, <2>2
<1>2. CASE m # n
  <2>1. S[n].latest[m] \in S[m].emitted
    BY <1>2 DEF NetOK
  <2> QED BY <2>1, NetNode
<1> QED BY <1>1, <1>2

\* A protected commit has the value of every accepted one.
LEMMA ProtectedValue ==
    ASSUME NEW S, NetOK(S), SameValue(S), NEW V \in SUBSET Node, NEW c, NEW v,
           Protected(S, V, c, v), NEW m \in Node, NEW b, Committing(S[m], b)
    PROVE  v = b.value
<1>1. PICK x \in Node : \/ \E st \in S[x].emitted : \E e : HasCommitted(st, e) /\ e.value = v
                        \/ \E e : Committing(S[x], e) /\ e.value = v
  BY DEF Protected, CommitKnown
<1>2. S[x].emitted \subseteq Made(S[x])
  BY NetNode
<1>3. PICK e : Committing(S[x], e) /\ e.value = v
  BY <1>1, <1>2 DEF Committing
<1>4. e.value = b.value
  BY SMT, <1>3 DEF SameValue
<1> QED BY <1>3, <1>4

\* The ballots of an accepted commit's value are against no protected one.
LEMMA CommittedClear ==
    ASSUME NEW S, NetOK(S), SameValue(S), NEW m \in Node, NEW b, Committing(S[m], b),
           NEW q, q.value = b.value
    PROVE  Clear(S, q)
<1> SUFFICES ASSUME NEW V \in SUBSET Node, NEW c \in Counters, NEW v \in Values,
                    Protected(S, V, c, v)
             PROVE  ~Against(q, c, v)
  BY DEF Clear
<1>1. v = b.value
  BY ProtectedValue
<1> QED BY <1>1 DEF Against

LEMMA AcceptedClear ==
    ASSUME NEW S, NEW m \in Node, NEW q, Accepted(S[m], q)
    PROVE  Clear(S, q)
BY DEF Clear, Protected, Ready

\* The values of the ballots are Values.
LEMMA BallotValue ==
    ASSUME NEW q \in Ballots
    PROVE  q.value \in Values /\ q.counter \in Counters
BY DEF Ballots, Values

\* What node n may accept on what it knows.
Admissible(S, n, q) == Supported(S, {n}, q) /\ Clear(S, q)

\* A commit that n may accept because another node did.
Backed(S, n, b) ==
    /\ Protects(S, {n}, b)
    /\ \E m \in Node : \E e : Committing(S[m], e) /\ e.value = b.value

LEMMA BackedAdmits ==
    ASSUME NEW S, NetOK(S), SameValue(S), NEW n \in Node, NEW b \in Ballots, Backed(S, n, b),
           NEW q, q.value = b.value
    PROVE  Admissible(S, n, q)
<1>1. PICK c \in Counters : Protected(S, {n}, c, b.value)
  BY DEF Backed, Protects
<1>2. b.value \in Values
  BY BallotValue
<1>3. Supported(S, {n}, q)
  BY <1>1, <1>2, ProtectedSupports
<1>4. PICK m \in Node : \E e : Committing(S[m], e) /\ e.value = b.value
  BY DEF Backed
<1>5. Clear(S, q)
  BY <1>4, CommittedClear
<1> QED BY <1>3, <1>5 DEF Admissible

\* The ballots and commits of a known statement.
LEMMA KnownIsGood ==
    ASSUME NEW S, NetOK(S), Good(S), NEW n \in Node, NEW m \in Node,
           NEW st, st = S[n].latest[m], st # NoStatement
    PROVE  /\ \A q : HasPrepared(st, q) => Admissible(S, n, q)
           /\ \A b : HasCommitted(st, b) => Backed(S, n, b)
<1>1. st \in Made(S[m]) /\ (m = n \/ st \in S[m].emitted)
  BY KnownStatement
<1>2. SameValue(S) /\ GoodNode(S, m) /\ GoodNode(S, n)
  BY DEF Good
<1>3. ASSUME NEW q, HasPrepared(st, q) PROVE Admissible(S, n, q)
  <2>1. Accepted(S[m], q)
    BY <1>1, <1>3 DEF Accepted
  <2>2. CASE m = n
    BY <1>2, <2>1, <2>2, AcceptedClear DEF GoodNode, Admissible
  <2>3. CASE st \in S[m].emitted
    <3>1. Supported(S, {}, q)
      BY <1>2, <1>3, <2>3 DEF GoodNode
    <3>2. Supported(S, {n}, q)
      BY <3>1, SentIsKnown
    <3> QED BY <2>1, <3>2, AcceptedClear DEF Admissible
  <2> QED BY <1>1, <2>2, <2>3
<1>4. ASSUME NEW b, HasCommitted(st, b) PROVE Backed(S, n, b)
  <2>1. Committing(S[m], b)
    BY <1>1, <1>4 DEF Committing
  <2>2. CASE m = n
    BY <1>2, <2>1, <2>2 DEF GoodNode, Backed
  <2>3. CASE st \in S[m].emitted
    <3>1. Protects(S, {}, b)
      BY <1>2, <1>4, <2>3 DEF GoodNode
    <3>2. Protects(S, {n}, b)
      BY <3>1, SentIsKnown
    <3> QED BY <2>1, <3>2 DEF Backed
  <2> QED BY <1>1, <2>2, <2>3
<1> QED BY <1>3, <1>4

\* A ballot that a known statement has accepted as prepared, or that a node
\* in CONFIRM or EXTERNALIZE votes for.
LEMMA Inherits ==
    ASSUME NEW S, NetOK(S), Good(S), NEW n \in Node, NEW m \in Node,
           NEW st, st = S[n].latest[m], st # NoStatement, NEW b \in Ballots,
           hasPreparedBallot(b, st) \/ (~IsPrepare(st) /\ votesPrepared(b, st))
    PROVE  Admissible(S, n, b)
<1>1. st \in Statements
  BY KnownStatement
<1>2. SlotOK(S[n])
  BY NetNode
<1>3. CASE IsPrepare(st)
  <2>1. PICK p \in {st.prepared, st.preparedPrime} \ {NoBallot} :
           areBallotsLessAndCompatible(b, p)
    BY SMT, <1>3 DEF IsPrepare, hasPreparedBallot
  <2>2. HasPrepared(st, p)
    BY <1>3, <2>1 DEF HasPrepared
  <2>3. p \in Ballots
    BY <1>1, <1>2, <2>2, AcceptedTypes
  <2>4. Admissible(S, n, p)
    BY <2>2, KnownIsGood
  <2> QED BY <2>1, <2>3, <2>4, SupportedBelow DEF Admissible
<1>4. CASE ~IsPrepare(st)
  <2> DEFINE e == getWorkingBallot(st)
  <2>1. HasCommitted(st, e)
    BY <1>4 DEF HasCommitted
  <2> HIDE DEF e
  <2>2. e \in Ballots /\ e.value = CommitValue(st)
    BY <1>1, <1>2, <2>1, AcceptedTypes
  <2>3. Backed(S, n, e)
    BY <2>1, KnownIsGood
  <2>4. b.value = CommitValue(st)
    <3>1. st.type = "CONFIRM" \/ st.type = "EXTERNALIZE"
      BY <1>1, <1>4, RankFields DEF IsPrepare
    <3>2. CASE st.type = "CONFIRM"
      BY SMT, <3>2 DEF hasPreparedBallot, votesPrepared, areBallotsLessAndCompatible,
         areBallotsCompatible, CommitValue, Ballot
    <3>3. CASE st.type = "EXTERNALIZE"
      BY SMT, <3>3 DEF hasPreparedBallot, votesPrepared, areBallotsCompatible, CommitValue
    <3> QED BY <3>1, <3>2, <3>3
  <2>5. SameValue(S)
    BY DEF Good
  <2> QED BY <2>2, <2>3, <2>4, <2>5, BackedAdmits
<1> QED BY <1>3, <1>4

\* A commit that a known statement accepts or, after PREPARE, votes for.
LEMMA InheritsCommit ==
    ASSUME NEW S, NetOK(S), Good(S), NEW n \in Node, NEW m \in Node,
           NEW st, st = S[n].latest[m], st # NoStatement,
           NEW v \in Values, NEW i \in Counters, NEW j \in Counters,
           ~IsPrepare(st), commitPredicate(v, i, j, st) \/ votesCommit(v, i, j, st)
    PROVE  Backed(S, n, Ballot(i, v))
<1>1. st \in Statements /\ SlotOK(S[n])
  BY KnownStatement, NetNode
<1> DEFINE e == getWorkingBallot(st)
<1>2. HasCommitted(st, e)
  BY DEF HasCommitted
<1>3. e.value = v /\ e.counter <= i
  <2>1. st.type = "CONFIRM" \/ st.type = "EXTERNALIZE"
    BY <1>1, RankFields DEF IsPrepare
  <2>2. CASE st.type = "CONFIRM"
    BY SMT, <2>2 DEF commitPredicate, votesCommit, getWorkingBallot, Ballot
  <2>3. CASE st.type = "EXTERNALIZE"
    BY SMT, <2>3 DEF commitPredicate, votesCommit, getWorkingBallot
  <2> QED BY <2>1, <2>2, <2>3
<1> HIDE DEF e
<1>4. e \in Ballots /\ Backed(S, n, e)
  BY <1>1, <1>2, AcceptedTypes, KnownIsGood
<1>5. PICK c \in Counters : c <= e.counter /\ Protected(S, {n}, c, e.value)
  BY <1>4 DEF Backed, Protects
<1>6. c <= i
  BY SMT, <1>3, <1>4, <1>5, BallotFields, CountersAreNat
<1> DEFINE f == Ballot(i, v)
<1>7. f.counter = i /\ f.value = v
  BY CommitBallot
<1> HIDE DEF f
<1>8. Protects(S, {n}, f)
  BY <1>3, <1>5, <1>6, <1>7 DEF Protects
<1>9. Backed(S, n, f)
  BY <1>3, <1>4, <1>7, <1>8 DEF Backed
<1> QED BY <1>9 DEF f

-----------------------------------------------------------------------------
(* Federated voting.                                                       *)

\* A quorum a node finds, unless it rests on an EXTERNALIZE statement, is one
\* for everybody.
LEMMA RatifyQuorum ==
    ASSUME QuorumIntersection, NEW s, s.self \in Node, NEW voted \in SUBSET Node,
           federatedRatify(s, voted)
    PROVE  \E U \in SUBSET voted :
              /\ U # {}
              /\ (\A y \in U : s.latest[y].type # "EXTERNALIZE") => U \in QuorumSets
<1> DEFINE g == getQuorumSetFromStatement(s)
<1>1. PICK U \in SUBSET voted : U \in Slices[s.self] /\ \A y \in U : U \in g[y]
  BY DEF federatedRatify, isQuorum
<1>2. ASSUME NEW y \in U, s.latest[y].type # "EXTERNALIZE" PROVE U \in Slices[y]
  <2>1. y \in Node
    OBVIOUS
  <2>2. g[y] = Slices[y]
    BY <1>2, <2>1 DEF getQuorumSetFromStatement
  <2> QED BY <1>1, <2>2
<1> HIDE DEF g
<1>3. ASSUME \A y \in U : s.latest[y].type # "EXTERNALIZE" PROVE U \in QuorumSets
  BY <1>1, <1>2, <1>3 DEF QuorumSets
<1>4. U # {}
  <2> SUFFICES ASSUME U = {} PROVE FALSE
    OBVIOUS
  <2>1. U \in QuorumSets
    BY <1>3
  <2> QED BY <2>1 DEF QuorumIntersection
<1> QED BY <1>1, <1>3, <1>4

\* Two quorums, one of which backs a commit while the other votes against it.
LEMMA CommitQuorumMeets ==
    ASSUME QuorumIntersection, NEW S, NEW V, NEW c, NEW v, NEW U \in QuorumSets
    PROVE  /\ CommitQuorum(S, V, c, v) => \E y \in U : HasBacked(S[y], c, v)
           /\ AbortQuorum(S, V, c, v) => \E y \in U : HasShunned(S[y], c, v)
<1>1. \A W \in QuorumSets : \E y \in U : y \in W
  BY DEF QuorumIntersection
<1>2. ASSUME CommitQuorum(S, V, c, v) PROVE \E y \in U : HasBacked(S[y], c, v)
  BY <1>1, <1>2 DEF CommitQuorum
<1>3. ASSUME AbortQuorum(S, V, c, v) PROVE \E y \in U : HasShunned(S[y], c, v)
  BY <1>1, <1>3 DEF AbortQuorum
<1> QED BY <1>2, <1>3

\* A statement made is the latest and the last one sent, or they follow it.
LEMMA MadeThenLatest ==
    ASSUME NEW S, NetOK(S), NEW n \in Node, NEW m \in Node,
           NEW st, st = S[n].latest[m], st # NoStatement
    PROVE  /\ Own(S[m]) \in Statements /\ (st = Own(S[m]) \/ Follows(st, Own(S[m])))
           /\ m # n =>
                 /\ S[m].lastEnvelopeEmit \in Statements /\ S[m].lastEnvelopeEmit \in Made(S[m])
                 /\ (st = S[m].lastEnvelopeEmit \/ Follows(st, S[m].lastEnvelopeEmit))
<1>1. st \in Made(S[m]) /\ (m = n \/ st \in S[m].emitted)
  BY KnownStatement
<1>2. /\ SlotOK(S[m]) /\ ChainOK(S[m]) /\ SentOK(S[m]) /\ Made(S[m]) \subseteq Statements
      /\ S[m].emitted \subseteq Made(S[m])
  BY NetNode
<1>3. Own(S[m]) \in Statements
  BY <1>1, <1>2, OwnIsNewest
<1>4. st = Own(S[m]) \/ Follows(st, Own(S[m]))
  BY <1>1, <1>2 DEF ChainOK
<1>5. ASSUME st \in S[m].emitted
      PROVE  /\ S[m].lastEnvelopeEmit \in Made(S[m])
             /\ (st = S[m].lastEnvelopeEmit \/ Follows(st, S[m].lastEnvelopeEmit))
  <2> DEFINE l == S[m].lastEnvelopeEmit
  <2>1. (st = l \/ Follows(st, l)) /\ l \in S[m].emitted \cup {NoStatement}
    BY <1>2, <1>5 DEF SentOK
  <2>2. l # NoStatement
    <3>1. ~isNewerStatement(st, NoStatement)
      <4>1. st \in Statements
        BY <1>1, <1>2
      <4> QED BY SMT, <4>1, RankFields DEF isNewerStatement, NoStatement, IsPrepare
    <3> QED BY <2>1, <3>1 DEF Follows
  <2> QED BY <1>2, <2>1, <2>2
<1> QED BY <1>1, <1>2, <1>3, <1>4, <1>5

\* A node that votes against a commit, and never voted for it, shuns it.
LEMMA VoterShuns ==
    ASSUME NEW S, NetOK(S), NEW n \in Node, NEW y \in Node,
           NEW st, st = S[n].latest[y], st # NoStatement, IsPrepare(st),
           NEW d \in Counters, NEW w \in Values, Against(st.ballot, d, w),
           \A a \in Made(S[y]) : ~VotesCommit(a, d, w)
    PROVE  HasShunned(S[y], d, w) /\ (y \in {n} \/ Shuns(S[y].lastEnvelopeEmit, d, w))
<1>1. st \in Statements
  BY KnownStatement
<1>2. Shuns(st, d, w)
  BY <1>1, VoteShuns
<1>3. Own(S[y]) \in Statements /\ (st = Own(S[y]) \/ Follows(st, Own(S[y])))
  BY SMT, MadeThenLatest
<1>4. Shuns(Own(S[y]), d, w)
  BY <1>1, <1>2, <1>3, ShunsFollows
<1>5. ASSUME y # n PROVE Shuns(S[y].lastEnvelopeEmit, d, w)
  <2>1. S[y].lastEnvelopeEmit \in Statements
        /\ (st = S[y].lastEnvelopeEmit \/ Follows(st, S[y].lastEnvelopeEmit))
    BY <1>5, MadeThenLatest
  <2> QED BY <1>1, <1>2, <2>1, ShunsFollows
<1> QED BY <1>4, <1>5 DEF HasShunned

\* A node that voted for a commit and now votes against it has accepted a
\* ballot that aborts it.
LEMMA VoterAborted ==
    ASSUME NEW S, NetOK(S), NEW n \in Node, NEW y \in Node,
           NEW st, st = S[n].latest[y], st # NoStatement, IsPrepare(st),
           NEW d \in Counters, NEW w \in Values, Against(st.ballot, d, w),
           NEW a \in Made(S[y]), VotesCommit(a, d, w)
    PROVE  Aborts(st, d, w)
<1>1. st \in Statements /\ st \in Made(S[y])
  BY KnownStatement
<1>2. ChainOK(S[y]) /\ Made(S[y]) \subseteq Statements
  BY NetNode
<1>3. st.ballot.value # w
  BY DEF Against
<1>4. a.ballot.value = w /\ a.nC # 0 /\ a.nC <= d /\ IsPrepare(a) /\ a \in Statements
  BY <1>2 DEF VotesCommit
<1>5. a # st
  BY <1>3, <1>4
<1>6. ~Follows(st, a)
  <2> SUFFICES ASSUME Follows(st, a) PROVE FALSE
    OBVIOUS
  <2>1. Shuns(st, d, w)
    BY <1>1, VoteShuns
  <2>2. Shuns(a, d, w)
    BY <1>1, <1>4, <2>1, ShunsFollows
  <2> QED BY <2>2, ShunsNoVote
<1>7. Follows(a, st)
  BY <1>1, <1>2, <1>5, <1>6 DEF ChainOK
<1>8. Continues(a, st)
  BY <1>4, <1>7 DEF Follows
<1>9. ~VotesCommit(st, d, w)
  BY <1>3 DEF VotesCommit
<1> QED BY <1>8, <1>9 DEF Continues

\* The vote of a quorum for a ballot.
LEMMA VotedAdmits ==
    ASSUME QuorumIntersection, NEW S, NetOK(S), Good(S), NEW n \in Node,
           NEW b \in Ballots, NEW U \in QuorumSets,
           \A y \in U : /\ S[n].latest[y] # NoStatement /\ IsPrepare(S[n].latest[y])
                        /\ areBallotsLessAndCompatible(b, S[n].latest[y].ballot)
    PROVE  Admissible(S, n, b)
<1>1. U \subseteq Node
  BY DEF QuorumSets
<1>2. ASSUME NEW y \in U, NEW c \in Counters, NEW v \in Values, Against(b, c, v)
      PROVE  Against(S[n].latest[y].ballot, c, v)
  <2> DEFINE st == S[n].latest[y]
  <2>1. st \in Statements /\ IsPrepare(st) /\ areBallotsLessAndCompatible(b, st.ballot)
    BY <1>1, KnownStatement
  <2> HIDE DEF st
  <2>2. st.ballot \in Ballots
    BY <2>1, StatementFields
  <2>3. Against(st.ballot, c, v)
    BY <1>2, <2>1, <2>2, AgainstLower
  <2> QED BY <2>3 DEF st
<1>3. ASSUME NEW V \in SUBSET Node, NEW c \in Counters, NEW v \in Values,
             Protected(S, V, c, v), Against(b, c, v)
      PROVE  FALSE
  <2>1. PICK y \in U : HasBacked(S[y], c, v)
    BY <1>3, CommitQuorumMeets DEF Protected, Ready
  <2>2. S[n].latest[y] \in Made(S[y]) /\ IsPrepare(S[n].latest[y])
    BY <1>1, KnownStatement
  <2>3. Against(S[n].latest[y].ballot, c, v)
    BY <1>2, <1>3
  <2> QED BY <2>1, <2>2, <2>3 DEF HasBacked
<1>4. Clear(S, b)
  BY <1>3 DEF Clear
<1>5. ASSUME NEW d \in Counters, NEW w \in Values, Against(b, d, w)
      PROVE  \/ AbortQuorum(S, {n}, d, w)
             \/ \E c \in Counters : Against(Ballot(d, w), c, b.value)
                                    /\ Protected(S, {n}, c, b.value)
  <2>1. CASE \A y \in U : \A a \in Made(S[y]) : ~VotesCommit(a, d, w)
    <3>1. ASSUME NEW y \in U
          PROVE  HasShunned(S[y], d, w) /\ (y \in {n} \/ Shuns(S[y].lastEnvelopeEmit, d, w))
      <4>1. Against(S[n].latest[y].ballot, d, w) /\ y \in Node
            /\ S[n].latest[y] # NoStatement /\ IsPrepare(S[n].latest[y])
        BY <1>1, <1>2, <1>5
      <4>2. \A a \in Made(S[y]) : ~VotesCommit(a, d, w)
        BY <2>1
      <4> QED BY ONLY <4>1, <4>2, VoterShuns, NetOK(S), n \in Node, d \in Counters, w \in Values
    <3> QED BY <3>1 DEF AbortQuorum
  <2>2. ASSUME NEW y \in U, NEW a \in Made(S[y]), VotesCommit(a, d, w)
        PROVE  \/ AbortQuorum(S, {n}, d, w)
               \/ \E c \in Counters : Against(Ballot(d, w), c, b.value)
                                      /\ Protected(S, {n}, c, b.value)
    <3> DEFINE st == S[n].latest[y]
    <3>1. /\ Against(st.ballot, d, w) /\ y \in Node /\ st # NoStatement /\ IsPrepare(st)
          /\ st \in Statements
      BY <1>1, <1>2, <1>5, KnownStatement
    <3>2. Aborts(st, d, w)
      BY <2>2, <3>1, VoterAborted
    <3>3. PICK p \in {st.prepared, st.preparedPrime} \ {NoBallot} : Against(p, d, w)
      BY <3>2 DEF Aborts
    <3>4. HasPrepared(st, p)
      BY <3>1, <3>3 DEF HasPrepared
    <3>5. Supported(S, {n}, p) /\ p \in Ballots
      <4>1. SlotOK(S[n])
        BY NetNode
      <4> QED BY <3>1, <3>4, <4>1, KnownIsGood, AcceptedTypes DEF Admissible
    <3>6. CASE p.value = b.value
      BY <3>3, <3>5, <3>6 DEF Supported
    <3>7. ASSUME p.value # b.value, NEW c \in Counters, Against(Ballot(d, w), c, p.value),
                 Protected(S, {n}, c, p.value)
          PROVE  FALSE
      <4>1. p.value \in Values
        BY <3>5, BallotValue
      <4>2. Against(b, c, p.value)
        BY <1>5, <3>7, <4>1, AgainstTransitive
      <4> QED BY <1>3, <3>7, <4>1, <4>2
    <3> QED BY <3>3, <3>5, <3>6, <3>7 DEF Supported
  <2> QED BY <2>1, <2>2
<1> QED BY <1>4, <1>5 DEF Admissible, Supported

\* attemptPreparedAccept and attemptPreparedConfirmed find only such ballots.
LEMMA AcceptsAdmits ==
    ASSUME QuorumIntersection, NothingBlocks, NEW S, NetOK(S), Good(S), NEW n \in Node, NEW b \in Ballots,
           AcceptsPrepared(S[n], b) \/ ConfirmsPrepared(S[n], b)
    PROVE  Admissible(S, n, b)
<1> DEFINE s == S[n]
           voted == Pledged(s, LAMBDA st : votesPrepared(b, st))
           accepted == Pledged(s, LAMBDA st : hasPreparedBallot(b, st))
<1>1. s.self = n /\ SlotOK(s)
  BY NetNode
<1>2. /\ voted \in SUBSET Node /\ accepted \in SUBSET Node
      /\ \A y \in voted : s.latest[y] # NoStatement /\ votesPrepared(b, s.latest[y])
      /\ \A y \in accepted : s.latest[y] # NoStatement /\ hasPreparedBallot(b, s.latest[y])
  BY DEF Pledged
<1>3. \/ accepted \in VBlockingSets[n] \/ federatedRatify(s, accepted \cup voted)
      \/ federatedRatify(s, accepted)
  BY <1>1 DEF AcceptsPrepared, ConfirmsPrepared, federatedAccept
<1> HIDE DEF s, voted, accepted
<1>4. ASSUME NEW y \in accepted PROVE Admissible(S, n, b)
  BY <1>2, Inherits DEF s
<1>5. CASE accepted \in VBlockingSets[n]
  <2>1. PICK y : y \in accepted
    BY <1>5 DEF NothingBlocks
  <2> QED BY <1>4, <2>1
<1>6. CASE federatedRatify(s, accepted)
  <2>1. s.self \in Node /\ accepted \in SUBSET Node
    BY <1>1, <1>2
  <2>2. \E U \in SUBSET accepted :
           /\ U # {}
           /\ (\A y \in U : s.latest[y].type # "EXTERNALIZE") => U \in QuorumSets
    BY ONLY QuorumIntersection, <1>6, <2>1, RatifyQuorum, Zenon
  <2>3. PICK y : y \in accepted
    BY <2>2
  <2> QED BY <1>4, <2>3
<1>7. CASE federatedRatify(s, accepted \cup voted)
  <2>1. accepted \cup voted \in SUBSET Node
    BY <1>2
  <2>2. PICK U \in SUBSET (accepted \cup voted) :
           (\A y \in U : s.latest[y].type # "EXTERNALIZE") => U \in QuorumSets
    BY <1>1, <1>7, <2>1, RatifyQuorum
  <2>3. ASSUME NEW y \in U, y \in accepted \/ ~IsPrepare(s.latest[y])
        PROVE  Admissible(S, n, b)
    <3>1. CASE y \in accepted
      BY <1>4, <3>1
    <3>2. CASE y \in voted /\ ~IsPrepare(s.latest[y])
      BY <1>2, <3>2, Inherits DEF s
    <3> QED BY <2>3, <3>1, <3>2
  <2>4. ASSUME \A y \in U : y \notin accepted /\ IsPrepare(s.latest[y])
        PROVE  Admissible(S, n, b)
    <3>1. U \in QuorumSets
      BY <2>2, <2>4 DEF IsPrepare
    <3>2. ASSUME NEW y \in U
          PROVE  /\ s.latest[y] # NoStatement /\ IsPrepare(s.latest[y])
                 /\ areBallotsLessAndCompatible(b, s.latest[y].ballot)
      <4>1. s.latest[y] # NoStatement /\ votesPrepared(b, s.latest[y]) /\ IsPrepare(s.latest[y])
        BY <1>2, <2>4
      <4> QED BY SMT, <4>1 DEF votesPrepared, IsPrepare
    <3> QED BY <3>1, <3>2, VotedAdmits DEF s
  <2> QED BY <2>3, <2>4
<1> QED BY <1>3, <1>5, <1>6, <1>7

-----------------------------------------------------------------------------
(* The vote of a quorum for a commit.                                      *)

\* What a member of the quorum says.
LEMMA CommitVoter ==
    ASSUME NEW S, NetOK(S), NEW n \in Node, NEW y \in Node,
           NEW st, st = S[n].latest[y], st # NoStatement, IsPrepare(st),
           NEW v \in Values, NEW i \in Counters, NEW j \in Counters, i <= j,
           votesCommit(v, i, j, st)
    PROVE  /\ st \in Statements /\ st \in Made(S[y]) /\ VotesCommit(st, i, v)
           /\ st.ballot \in Ballots /\ st.ballot.value = v /\ LessEq(Ballot(i, v), st.ballot)
           /\ HasPrepared(st, Ballot(st.nH, v)) /\ Ballot(st.nH, v) \in Ballots
           /\ LessEq(Ballot(i, v), Ballot(st.nH, v))
<1>1. st \in Statements /\ st \in Made(S[y])
  BY KnownStatement
<1>2. st.ballot.value = v /\ st.nC # 0 /\ st.nC <= i /\ j <= st.nH
  BY SMT DEF votesCommit, IsPrepare
<1>3. st.ballot \in Ballots /\ st.nC \in Counters /\ st.nH \in Counters
  BY <1>1, StatementFields
<1>4. i \in Nat /\ j \in Nat /\ st.nC \in Nat /\ st.nH \in Nat /\ st.ballot.counter \in Nat
  BY <1>3, CountersAreNat, BallotFields
<1>5. i <= st.nH
  BY SMT, <1>2, <1>4
<1>6. VotesCommit(st, i, v)
  BY <1>2, <1>5 DEF VotesCommit
<1>7. st.nH <= st.ballot.counter
  <2>1. Sound(st)
    BY <1>1, NetNode DEF ChainOK
  <2> QED BY <1>2, <2>1 DEF Sound
<1>8. HasPrepared(st, Ballot(st.nH, v)) /\ Ballot(st.nH, v) \in Ballots
  BY <1>2, <1>3, CommitBallot DEF HasPrepared
<1>9. LessEq(Ballot(i, v), Ballot(st.nH, v))
  BY SMT, <1>4, <1>5 DEF LessEq, Less, Ballot
<1>10. LessEq(Ballot(i, v), st.ballot)
  <2> DEFINE e == Ballot(i, v)
             f == st.ballot
  <2>1. e \in Ballots /\ e.counter = i /\ e.value = v /\ f \in Ballots /\ f.value = v
    BY <1>2, <1>3, CommitBallot
  <2>2. e.counter <= f.counter
    BY SMT, <1>4, <1>5, <1>7, <2>1
  <2> HIDE DEF e, f
  <2>3. e.counter \in Nat /\ f.counter \in Nat
    BY <2>1, BallotFields
  <2>4. e.counter < f.counter \/ e = f
    BY SMT, <2>1, <2>2, <2>3, BallotEqual
  <2>5. LessEq(e, f)
    BY <2>4 DEF LessEq, Less
  <2> QED BY <2>5 DEF e, f
<1> QED BY <1>1, <1>2, <1>3, <1>6, <1>8, <1>9, <1>10

\* The vote of every member of U for the commits of v from i to j.
VotedCommit(S, n, U, v, i, j) ==
    \A y \in U : /\ S[n].latest[y] # NoStatement /\ IsPrepare(S[n].latest[y])
                 /\ votesCommit(v, i, j, S[n].latest[y])

\* Nothing accepted as prepared is against a commit that a quorum votes for.
LEMMA VotedNotAgainst ==
    ASSUME QuorumIntersection, NEW S, NetOK(S), Good(S), NEW n \in Node,
           NEW v \in Values, NEW i \in Counters, NEW j \in Counters, i <= j,
           NEW U \in QuorumSets, VotedCommit(S, n, U, v, i, j)
    PROVE  /\ \A V : ~AbortQuorum(S, V, i, v)
           /\ \A V : \A c \in Counters, x \in Values :
                 Protected(S, V, c, x) => ~Against(Ballot(i, v), c, x)
           /\ \A m \in Node : \A q : Accepted(S[m], q) => ~Against(q, i, v)
<1>1. U \subseteq Node
  BY DEF QuorumSets
<1>2. ASSUME NEW y \in U
      PROVE  /\ S[n].latest[y] \in Made(S[y]) /\ VotesCommit(S[n].latest[y], i, v)
             /\ S[n].latest[y].ballot \in Ballots /\ S[n].latest[y].ballot.value = v
             /\ LessEq(Ballot(i, v), S[n].latest[y].ballot) /\ IsPrepare(S[n].latest[y])
  BY ONLY <1>1, y \in U, VotedCommit(S, n, U, v, i, j), NetOK(S), n \in Node, v \in Values,
          i \in Counters, j \in Counters, i <= j, CommitVoter DEF VotedCommit
<1>3. ASSUME NEW V, AbortQuorum(S, V, i, v) PROVE FALSE
  <2>1. PICK y \in U : HasShunned(S[y], i, v)
    BY <1>3, CommitQuorumMeets
  <2> QED BY <1>2, <2>1 DEF HasShunned
<1>4. ASSUME NEW V, NEW c \in Counters, NEW x \in Values, Protected(S, V, c, x),
             Against(Ballot(i, v), c, x)
      PROVE  FALSE
  <2>1. PICK y \in U : HasBacked(S[y], c, x)
    BY <1>4, CommitQuorumMeets DEF Protected, Ready
  <2>2. ~Against(S[n].latest[y].ballot, c, x)
    BY <1>2, <2>1 DEF HasBacked
  <2>3. Ballot(i, v) \in Ballots /\ v # x
    BY <1>4, CommitBallot DEF Against
  <2> QED BY <1>2, <1>4, <2>2, <2>3, AgainstHigher
<1>5. ASSUME NEW m \in Node, NEW q, Accepted(S[m], q), Against(q, i, v) PROVE FALSE
  <2>1. Supported(S, {m}, q)
    BY <1>5 DEF Good, GoodNode
  <2>2. q \in Ballots
    BY <1>5, NetNode, AcceptedTypes
  <2>3. q.value \in Values
    BY <2>2, BallotValue
  <2>4. PICK c \in Counters : Against(Ballot(i, v), c, q.value) /\ Protected(S, {m}, c, q.value)
    BY <1>3, <1>5, <2>1 DEF Supported
  <2> QED BY <1>4, <2>3, <2>4
<1> QED BY <1>3, <1>4, <1>5

LEMMA NoAborts ==
    ASSUME NEW s, NEW a \in Made(s), IsPrepare(a), NEW c, NEW v,
           \A q : Accepted(s, q) => ~Against(q, c, v)
    PROVE  ~Aborts(a, c, v)
BY DEF Aborts, Accepted, HasPrepared

LEMMA VoterBacks ==
    ASSUME NEW S, NetOK(S), NEW n \in Node, NEW y \in Node,
           NEW st, st = S[n].latest[y], st # NoStatement, IsPrepare(st), st \in Statements,
           NEW v \in Values, NEW i \in Counters, VotesCommit(st, i, v),
           \A q : Accepted(S[y], q) => ~Against(q, i, v)
    PROVE  HasBacked(S[y], i, v) /\ (y \in {n} \/ Backs(S[y].lastEnvelopeEmit, i, v))
<1>1. /\ SlotOK(S[y]) /\ ChainOK(S[y]) /\ Made(S[y]) \subseteq Statements
      /\ S[y].emitted \subseteq Made(S[y])
  BY NetNode
<1>2. Backs(st, i, v) /\ st \in Made(S[y])
  BY KnownStatement DEF Backs
<1>3. ASSUME NEW z \in Made(S[y]), st = z \/ Follows(st, z) PROVE Backs(z, i, v)
  <2>1. IsPrepare(z) => ~Aborts(z, i, v)
    BY NoAborts
  <2>2. z \in Statements
    BY <1>1
  <2> QED BY <1>2, <1>3, <2>1, <2>2, BacksFollows
<1>4. Backs(Own(S[y]), i, v)
  <2>1. Own(S[y]) \in Statements /\ (st = Own(S[y]) \/ Follows(st, Own(S[y])))
    BY SMT, MadeThenLatest
  <2>2. Own(S[y]) \in Made(S[y])
    BY <1>1, <2>1, MadeTypes, RankFields
  <2> QED BY <1>3, <2>1, <2>2
<1>5. ASSUME y # n PROVE Backs(S[y].lastEnvelopeEmit, i, v)
  <2> DEFINE l == S[y].lastEnvelopeEmit
  <2>1. l \in Made(S[y]) /\ (st = l \/ Follows(st, l))
    BY <1>5, MadeThenLatest
  <2> QED BY <1>3, <2>1
<1>6. ASSUME NEW a \in Made(S[y]), IsPrepare(a), Against(a.ballot, i, v) PROVE FALSE
  <2>1. a \in Statements
    BY <1>1
  <2>2. CASE st = a \/ Follows(st, a)
    BY <1>3, <1>6, <2>2, BackedNotAgainst
  <2>3. CASE Follows(a, st)
    <3>1. Shuns(a, i, v)
      BY <1>6, <2>1, VoteShuns
    <3>2. Shuns(st, i, v)
      BY <2>1, <2>3, <3>1, ShunsFollows
    <3> QED BY <3>2, ShunsNoVote
  <2> QED BY <1>1, <1>2, <2>2, <2>3 DEF ChainOK
<1> QED BY <1>4, <1>5, <1>6 DEF HasBacked

\* Such a commit is as good as protected, and no commit of another value has
\* been accepted.
LEMMA VotedReady ==
    ASSUME QuorumIntersection, NEW S, NetOK(S), Good(S), NEW n \in Node,
           NEW v \in Values, NEW i \in Counters, NEW j \in Counters, i <= j,
           NEW U \in QuorumSets, VotedCommit(S, n, U, v, i, j)
    PROVE  /\ \E c \in Counters : c <= i /\ Ready(S, {n}, c, v)
           /\ \A m \in Node : \A e : Committing(S[m], e) => e.value = v
<1>1. /\ \A V : ~AbortQuorum(S, V, i, v)
      /\ \A V : \A c \in Counters, x \in Values :
            Protected(S, V, c, x) => ~Against(Ballot(i, v), c, x)
      /\ \A m \in Node : \A q : Accepted(S[m], q) => ~Against(q, i, v)
  BY VotedNotAgainst
<1>2. U \subseteq Node /\ U # {}
  BY DEF QuorumSets, QuorumIntersection
<1>3. ASSUME NEW y \in U
      PROVE  /\ S[n].latest[y] \in Statements /\ VotesCommit(S[n].latest[y], i, v)
             /\ S[n].latest[y] # NoStatement /\ IsPrepare(S[n].latest[y])
             /\ HasPrepared(S[n].latest[y], Ballot(S[n].latest[y].nH, v))
             /\ Ballot(S[n].latest[y].nH, v) \in Ballots
             /\ LessEq(Ballot(i, v), Ballot(S[n].latest[y].nH, v))
  BY ONLY <1>2, y \in U, VotedCommit(S, n, U, v, i, j), NetOK(S), n \in Node, v \in Values,
          i \in Counters, j \in Counters, i <= j, CommitVoter DEF VotedCommit
<1>4. CommitQuorum(S, {n}, i, v)
  <2>1. ASSUME NEW y \in U
        PROVE  HasBacked(S[y], i, v) /\ (y \in {n} \/ Backs(S[y].lastEnvelopeEmit, i, v))
    <3>1. y \in Node /\ \A q : Accepted(S[y], q) => ~Against(q, i, v)
      BY <1>1, <1>2
    <3> QED BY ONLY Zenon, <1>3, <3>1, y \in U, VoterBacks, NetOK(S), n \in Node,
               v \in Values, i \in Counters
  <2> QED BY <2>1 DEF CommitQuorum
<1>5. ASSUME NEW m \in Node, NEW e, Committing(S[m], e), e.value # v PROVE FALSE
  <2>1. PICK c \in Counters : Protected(S, {m}, c, e.value)
    BY <1>5 DEF Good, GoodNode, Protects
  <2>2. e.value \in Values
    BY <1>5, NetNode, AcceptedTypes, BallotValue
  <2>3. ~Against(Ballot(i, v), c, e.value)
    BY <1>1, <2>1, <2>2
  <2>4. Against(Ballot(c, e.value), i, v)
    BY <1>5, <2>2, <2>3, AgainstNotBack
  <2>5. AbortQuorum(S, {m}, i, v)
    BY <2>1, <2>4 DEF Protected, Ready
  <2> QED BY <1>1, <2>5
<1>6. PICK y : y \in U
  BY <1>2
<1> DEFINE h == Ballot(S[n].latest[y].nH, v)
<1>7. h.value = v /\ h \in Ballots /\ LessEq(Ballot(i, v), h)
  BY <1>3, <1>6 DEF h, Ballot
<1>8. Supported(S, {n}, h)
  <2>1. y \in Node
    BY <1>2, <1>6
  <2> QED BY ONLY <1>3, <1>6, <2>1, KnownIsGood, NetOK(S), Good(S), n \in Node DEF Admissible
<1> HIDE DEF h
<1>9. ASSUME NEW d \in Counters, NEW w \in Values, Against(Ballot(i, v), d, w),
             ~AbortQuorum(S, {n}, d, w)
      PROVE  \E c \in Counters : c <= i /\ Ready(S, {n}, c, v)
  <2>1. Ballot(i, v) \in Ballots /\ v # w /\ Ballot(i, v).value = v
    BY <1>9, CommitBallot DEF Against
  <2>2. Against(h, d, w)
    BY <1>7, <1>9, <2>1, AgainstHigher
  <2>3. PICK c \in Counters : Against(Ballot(d, w), c, v) /\ Protected(S, {n}, c, v)
    BY <1>7, <1>8, <1>9, <2>2 DEF Supported
  <2>4. c <= i
    <3>1. Less(Ballot(c, v), Ballot(d, w)) /\ Less(Ballot(d, w), Ballot(i, v))
      BY <1>9, <2>3 DEF Against
    <3>2. c \in Nat /\ i \in Nat /\ d \in Nat
      BY CountersAreNat
    <3> QED BY SMT, <3>1, <3>2 DEF Less, Ballot
  <2> QED BY <2>3, <2>4 DEF Protected
<1>10. ASSUME \A d \in Counters, w \in Values :
                 Against(Ballot(i, v), d, w) => AbortQuorum(S, {n}, d, w)
       PROVE  \E c \in Counters : c <= i /\ Ready(S, {n}, c, v)
  <2>1. i <= i
    BY SMT, CountersAreNat
  <2> QED BY <1>1, <1>4, <1>10, <2>1 DEF Ready
<1> QED BY <1>5, <1>9, <1>10

\* A commit on which n may settle.
Settled(S, n, v, i) ==
    \/ Backed(S, n, Ballot(i, v))
    \/ /\ \E c \in Counters : c <= i /\ Ready(S, {n}, c, v)
       /\ \A m \in Node : \A e : Committing(S[m], e) => e.value = v

\* attemptAcceptCommit and attemptConfirmCommit find only such commits.
LEMMA AcceptsSettled ==
    ASSUME QuorumIntersection, NothingBlocks, NEW S, NetOK(S), Good(S), NEW n \in Node,
           NEW v \in Values, NEW i \in Counters, NEW j \in Counters, i <= j,
           AcceptsCommit(S[n], v, i, j) \/ ConfirmsCommit(S[n], v, i, j)
    PROVE  Settled(S, n, v, i)
<1> DEFINE s == S[n]
           voted == Pledged(s, LAMBDA st : votesCommit(v, i, j, st))
           accepted == Pledged(s, LAMBDA st : commitPredicate(v, i, j, st))
<1>1. s.self = n /\ SlotOK(s)
  BY NetNode
<1>2. /\ voted \in SUBSET Node /\ accepted \in SUBSET Node
      /\ \A y \in voted : s.latest[y] # NoStatement /\ votesCommit(v, i, j, s.latest[y])
      /\ \A y \in accepted : s.latest[y] # NoStatement /\ commitPredicate(v, i, j, s.latest[y])
  BY DEF Pledged
<1>3. \/ accepted \in VBlockingSets[n] \/ federatedRatify(s, accepted \cup voted)
      \/ federatedRatify(s, accepted)
  BY <1>1 DEF AcceptsCommit, ConfirmsCommit, federatedAccept
<1> HIDE DEF s, voted, accepted
<1>4. ASSUME NEW y \in accepted \cup voted, y \in accepted \/ ~IsPrepare(s.latest[y])
      PROVE  Settled(S, n, v, i)
  <2>1. ~IsPrepare(s.latest[y])
    <3>1. ASSUME y \in accepted, IsPrepare(s.latest[y]) PROVE FALSE
      <4>1. commitPredicate(v, i, j, s.latest[y])
        BY <1>2, <3>1
      <4> QED BY SMT, <3>1, <4>1 DEF commitPredicate, IsPrepare
    <3> QED BY <1>4, <3>1
  <2>2. /\ y \in Node /\ s.latest[y] # NoStatement
        /\ commitPredicate(v, i, j, s.latest[y]) \/ votesCommit(v, i, j, s.latest[y])
    BY <1>2, <1>4
  <2>3. Backed(S, n, Ballot(i, v))
    BY ONLY <2>1, <2>2, InheritsCommit, NetOK(S), Good(S), n \in Node, v \in Values,
            i \in Counters, j \in Counters DEF s
  <2> QED BY <2>3 DEF Settled
<1>5. CASE accepted \in VBlockingSets[n]
  <2>1. PICK y : y \in accepted
    BY <1>5 DEF NothingBlocks
  <2> QED BY <1>4, <2>1
<1>6. CASE federatedRatify(s, accepted)
  <2>1. s.self \in Node /\ accepted \in SUBSET Node
    BY <1>1, <1>2
  <2>2. \E U \in SUBSET accepted :
           /\ U # {}
           /\ (\A y \in U : s.latest[y].type # "EXTERNALIZE") => U \in QuorumSets
    BY ONLY QuorumIntersection, <1>6, <2>1, RatifyQuorum, Zenon
  <2>3. PICK y : y \in accepted
    BY <2>2
  <2> QED BY <1>4, <2>3
<1>7. CASE federatedRatify(s, accepted \cup voted)
  <2>1. accepted \cup voted \in SUBSET Node
    BY <1>2
  <2>2. PICK U \in SUBSET (accepted \cup voted) :
           (\A y \in U : s.latest[y].type # "EXTERNALIZE") => U \in QuorumSets
    BY <1>1, <1>7, <2>1, RatifyQuorum
  <2>3. CASE \E y \in U : y \in accepted \/ ~IsPrepare(s.latest[y])
    BY <1>4, <2>3
  <2>4. CASE \A y \in U : y \notin accepted /\ IsPrepare(s.latest[y])
    <3>1. U \in QuorumSets
      BY <2>2, <2>4 DEF IsPrepare
    <3>2. VotedCommit(S, n, U, v, i, j)
      BY <1>2, <2>4 DEF VotedCommit, s
    <3> QED BY <3>1, <3>2, VotedReady DEF Settled
  <2> QED BY <2>3, <2>4
<1> QED BY <1>3, <1>5, <1>6, <1>7

-----------------------------------------------------------------------------
(* What stands behind a ballot or a commit stays.                          *)

\* What becomes of the statements of a node that does not restart.
Grown(s, t) ==
    /\ Own(t) = Own(s) \/ (Own(t) # NoStatement /\ (Own(s) # NoStatement => Follows(Own(s), Own(t))))
    /\ Made(t) \subseteq Made(s) \cup {Own(t)}
    /\ s.emitted \subseteq t.emitted
    /\ t.lastEnvelopeEmit = s.lastEnvelopeEmit \/ t.lastEnvelopeEmit = Own(s)

\* Only n takes a step, and what is known only to V is not lost.
Evolves(S, T, n, V) ==
    /\ \A m \in Node \ {n} : T[m] = S[m]
    /\ Grown(S[n], T[n]) \/ (Restarts(S[n], T[n]) /\ n \notin V)

LEMMA OwnTypes ==
    ASSUME NEW S, NetOK(S), NEW n \in Node, Own(S[n]) # NoStatement
    PROVE  Own(S[n]) \in Statements /\ Own(S[n]) \in Made(S[n])
BY NetNode, MadeTypes

LEMMA ShunStays ==
    ASSUME NEW S, NEW T, NetOK(S), NetOK(T), NEW n \in Node, NEW V, Evolves(S, T, n, V),
           NEW y \in Node, NEW c \in Counters, NEW w \in Values,
           HasShunned(S[y], c, w), y \in V \/ Shuns(S[y].lastEnvelopeEmit, c, w)
    PROVE  HasShunned(T[y], c, w) /\ (y \in V \/ Shuns(T[y].lastEnvelopeEmit, c, w))
<1>1. CASE y # n
  <2>1. T[y] = S[y]
    BY <1>1 DEF Evolves
  <2> QED BY <2>1
<1> DEFINE s == S[y]
           t == T[y]
<1>2. /\ SlotOK(s) /\ ChainOK(s) /\ SentOK(s) /\ s.emitted \subseteq Made(s)
      /\ Shuns(Own(s), c, w) /\ \A a \in Made(s) : ~VotesCommit(a, c, w)
  BY NetNode DEF HasShunned
<1>3. Own(s) # NoStatement /\ Own(s) \in Statements
  <2>1. Own(s) # NoStatement
    BY <1>2 DEF Shuns
  <2> QED BY <2>1, OwnTypes
<1>4. Own(t) # NoStatement => Own(t) \in Statements
  BY OwnTypes
<1>5. CASE y = n /\ Grown(s, t)
  <2> HIDE DEF s, t
  <2>1. Own(t) = Own(s) \/ (Own(t) # NoStatement /\ Follows(Own(s), Own(t)))
    BY <1>3, <1>5 DEF Grown
  <2>2. Shuns(Own(t), c, w)
    BY <1>2, <1>3, <1>4, <2>1, ShunsFollows
  <2>3. \A a \in Made(t) : ~VotesCommit(a, c, w)
    BY <1>2, <1>5, <2>2, ShunsNoVote DEF Grown
  <2>4. Shuns(s.lastEnvelopeEmit, c, w) => Shuns(t.lastEnvelopeEmit, c, w)
    BY <1>2, <1>5 DEF Grown
  <2>5. HasShunned(t, c, w) /\ (y \in V \/ Shuns(t.lastEnvelopeEmit, c, w))
    BY <2>2, <2>3, <2>4 DEF HasShunned, s
  <2> QED BY <2>5 DEF t
<1>6. CASE y = n /\ Restarts(s, t) /\ n \notin V
  <2>1. Shuns(s.lastEnvelopeEmit, c, w)
    BY <1>6
  <2> HIDE DEF s, t
  <2>2. Own(t) = s.lastEnvelopeEmit /\ t.lastEnvelopeEmit = s.lastEnvelopeEmit
        /\ Made(t) = s.emitted
    BY <1>6 DEF Restarts
  <2>3. HasShunned(t, c, w) /\ Shuns(t.lastEnvelopeEmit, c, w)
    BY <1>2, <2>1, <2>2 DEF HasShunned
  <2> QED BY <2>3 DEF t
<1> QED BY <1>1, <1>5, <1>6 DEF Evolves

LEMMA BackStays ==
    ASSUME NEW S, NEW T, NetOK(S), NetOK(T), NEW n \in Node, NEW V, Evolves(S, T, n, V),
           NEW y \in Node, NEW c \in Counters, NEW v \in Values,
           \A q : Accepted(T[n], q) => ~Against(q, c, v),
           HasBacked(S[y], c, v), y \in V \/ Backs(S[y].lastEnvelopeEmit, c, v)
    PROVE  HasBacked(T[y], c, v) /\ (y \in V \/ Backs(T[y].lastEnvelopeEmit, c, v))
<1>1. CASE y # n
  <2>1. T[y] = S[y]
    BY <1>1 DEF Evolves
  <2> QED BY <2>1
<1> DEFINE s == S[y]
           t == T[y]
<1>2. /\ SlotOK(s) /\ ChainOK(s) /\ SentOK(s) /\ s.emitted \subseteq Made(s)
      /\ Backs(Own(s), c, v) /\ \A a \in Made(s) : IsPrepare(a) => ~Against(a.ballot, c, v)
  BY NetNode DEF HasBacked
<1>3. Own(s) # NoStatement /\ Own(s) \in Statements
  <2>1. Own(s) # NoStatement
    BY <1>2 DEF Backs
  <2> QED BY <2>1, OwnTypes
<1>4. Own(t) # NoStatement => Own(t) \in Statements /\ Own(t) \in Made(t)
  BY OwnTypes
<1>5. CASE y = n /\ Grown(s, t)
  <2>0. \A q : Accepted(t, q) => ~Against(q, c, v)
    BY <1>5
  <2> HIDE DEF s, t
  <2>1. Own(t) = Own(s) \/ (Own(t) # NoStatement /\ Follows(Own(s), Own(t)))
    BY <1>3, <1>5 DEF Grown
  <2>2. Backs(Own(t), c, v)
    <3>1. CASE Own(t) = Own(s)
      BY <1>2, <3>1
    <3>2. CASE Own(t) # NoStatement /\ Follows(Own(s), Own(t))
      <4>1. IsPrepare(Own(t)) => ~Aborts(Own(t), c, v)
        BY <1>4, <2>0, <3>2, NoAborts
      <4> QED BY <1>2, <1>3, <1>4, <3>2, <4>1, BacksFollows
    <3> QED BY <2>1, <3>1, <3>2
  <2>3. \A a \in Made(t) : IsPrepare(a) => ~Against(a.ballot, c, v)
    BY <1>2, <1>5, <2>2, BackedNotAgainst DEF Grown
  <2>4. Backs(s.lastEnvelopeEmit, c, v) => Backs(t.lastEnvelopeEmit, c, v)
    BY <1>2, <1>5 DEF Grown
  <2>5. HasBacked(t, c, v) /\ (y \in V \/ Backs(t.lastEnvelopeEmit, c, v))
    BY <2>2, <2>3, <2>4 DEF HasBacked, s
  <2> QED BY <2>5 DEF t
<1>6. CASE y = n /\ Restarts(s, t) /\ n \notin V
  <2>1. Backs(s.lastEnvelopeEmit, c, v)
    BY <1>6
  <2> HIDE DEF s, t
  <2>2. Own(t) = s.lastEnvelopeEmit /\ t.lastEnvelopeEmit = s.lastEnvelopeEmit
        /\ Made(t) = s.emitted
    BY <1>6 DEF Restarts
  <2>3. HasBacked(t, c, v) /\ Backs(t.lastEnvelopeEmit, c, v)
    BY <1>2, <2>1, <2>2 DEF HasBacked
  <2> QED BY <2>3 DEF t
<1> QED BY <1>1, <1>5, <1>6 DEF Evolves

KeepsCommit(s, t) ==
    \A b : Committing(s, b) => \E e : Committing(t, e) /\ e.value = b.value

\* What n accepts in the step is against no protected commit.
AcceptsClear(S, T, n) == \A q : Accepted(T[n], q) => Clear(S, q)

LEMMA ReadyStays ==
    ASSUME NEW S, NEW T, NetOK(S), NetOK(T), NEW n \in Node, NEW V, Evolves(S, T, n, V)
    PROVE  /\ \A c \in Counters, w \in Values : AbortQuorum(S, V, c, w) => AbortQuorum(T, V, c, w)
           /\ \A c \in Counters, v \in Values :
                 Ready(S, V, c, v) /\ (\A q : Accepted(T[n], q) => ~Against(q, c, v))
                    => Ready(T, V, c, v)
<1>1. \A U \in QuorumSets : U \subseteq Node
  BY DEF QuorumSets
<1>2. ASSUME NEW c \in Counters, NEW w \in Values, AbortQuorum(S, V, c, w)
      PROVE  AbortQuorum(T, V, c, w)
  <2>1. PICK U \in QuorumSets : \A y \in U :
           HasShunned(S[y], c, w) /\ (y \in V \/ Shuns(S[y].lastEnvelopeEmit, c, w))
    BY <1>2 DEF AbortQuorum
  <2>2. ASSUME NEW y \in U
        PROVE  HasShunned(T[y], c, w) /\ (y \in V \/ Shuns(T[y].lastEnvelopeEmit, c, w))
    BY <1>1, <2>1, ShunStays
  <2> QED BY <2>2 DEF AbortQuorum
<1>3. ASSUME NEW c \in Counters, NEW v \in Values, Ready(S, V, c, v),
             \A q : Accepted(T[n], q) => ~Against(q, c, v)
      PROVE  Ready(T, V, c, v)
  <2>1. PICK U \in QuorumSets : \A y \in U :
           HasBacked(S[y], c, v) /\ (y \in V \/ Backs(S[y].lastEnvelopeEmit, c, v))
    BY <1>3 DEF Ready, CommitQuorum
  <2>2. ASSUME NEW y \in U
        PROVE  HasBacked(T[y], c, v) /\ (y \in V \/ Backs(T[y].lastEnvelopeEmit, c, v))
    BY <1>1, <1>3, <2>1, BackStays
  <2>3. CommitQuorum(T, V, c, v)
    BY <2>2 DEF CommitQuorum
  <2>4. \A m \in Node : \A q : Accepted(T[m], q) => ~Against(q, c, v)
    <3>1. \A m \in Node : m = n \/ T[m] = S[m]
      BY DEF Evolves
    <3> QED BY <1>3, <3>1 DEF Ready
  <2> QED BY <1>2, <1>3, <2>3, <2>4 DEF Ready
<1> QED BY <1>2, <1>3

LEMMA ProtectedStays ==
    ASSUME NEW S, NEW T, NetOK(S), NetOK(T), NEW n \in Node, NEW V \in SUBSET Node,
           Evolves(S, T, n, V), n \in V => KeepsCommit(S[n], T[n]), AcceptsClear(S, T, n)
    PROVE  /\ \A c \in Counters, v \in Values : Protected(S, V, c, v) => Protected(T, V, c, v)
           /\ \A q \in Ballots : Supported(S, V, q) => Supported(T, V, q)
           /\ \A b \in Ballots : Protects(S, V, b) => Protects(T, V, b)
<1>1. \A c \in Counters, w \in Values : AbortQuorum(S, V, c, w) => AbortQuorum(T, V, c, w)
  BY ReadyStays
<1>2. ASSUME NEW v, CommitKnown(S, V, v) PROVE CommitKnown(T, V, v)
  <2>1. PICK x \in Node : \/ \E st \in S[x].emitted : \E b : HasCommitted(st, b) /\ b.value = v
                          \/ x \in V /\ \E b : Committing(S[x], b) /\ b.value = v
    BY <1>2 DEF CommitKnown
  <2>2. CASE x # n
    <3>1. T[x] = S[x]
      BY <2>2 DEF Evolves
    <3> QED BY <2>1, <3>1 DEF CommitKnown
  <2>3. CASE x = n
    <3>1. S[x].emitted \subseteq T[x].emitted
      BY <2>3 DEF Evolves, Grown, Restarts
    <3>2. CASE \E st \in S[x].emitted : \E b : HasCommitted(st, b) /\ b.value = v
      BY <3>1, <3>2 DEF CommitKnown
    <3>3. CASE x \in V /\ \E b : Committing(S[x], b) /\ b.value = v
      <4>1. PICK b : Committing(S[x], b) /\ b.value = v
        BY <3>3
      <4>2. PICK e : Committing(T[x], e) /\ e.value = b.value
        BY <2>3, <3>3, <4>1 DEF KeepsCommit
      <4>3. e.value = v
        BY <4>1, <4>2
      <4> QED BY <3>3, <4>2, <4>3 DEF CommitKnown
    <3> QED BY <2>1, <3>2, <3>3
  <2> QED BY <2>2, <2>3
<1>3. ASSUME NEW c \in Counters, NEW v \in Values, Protected(S, V, c, v)
      PROVE  Protected(T, V, c, v)
  <2>1. \A q : Accepted(T[n], q) => ~Against(q, c, v)
    BY <1>3 DEF AcceptsClear, Clear
  <2>2. Ready(S, V, c, v) /\ CommitKnown(T, V, v)
    BY <1>2, <1>3 DEF Protected
  <2>3. Ready(T, V, c, v)
    BY <2>1, <2>2, ReadyStays
  <2> QED BY <2>2, <2>3 DEF Protected
<1>4. ASSUME NEW q \in Ballots, Supported(S, V, q) PROVE Supported(T, V, q)
  <2>1. q.value \in Values
    BY BallotValue
  <2> QED BY <1>1, <1>3, <1>4, <2>1 DEF Supported
<1>5. ASSUME NEW b \in Ballots, Protects(S, V, b) PROVE Protects(T, V, b)
  <2>1. b.value \in Values
    BY BallotValue
  <2> QED BY <1>3, <1>5, <2>1 DEF Protects
<1> QED BY <1>3, <1>4, <1>5

\* What only n knew is known from what it sent once it has sent its latest
\* statement.
LEMMA SendingTells ==
    ASSUME NEW S, NEW n \in Node, S[n].lastEnvelopeEmit = Own(S[n]),
           Own(S[n]) \in S[n].emitted,
           \A b : Committing(S[n], b) =>
              \E e : HasCommitted(Own(S[n]), e) /\ e.value = b.value
    PROVE  /\ \A q : Supported(S, {n}, q) => Supported(S, {}, q)
           /\ \A b : Protects(S, {n}, b) => Protects(S, {}, b)
<1>1. ASSUME NEW c, NEW w, AbortQuorum(S, {n}, c, w) PROVE AbortQuorum(S, {}, c, w)
  <2>1. PICK U \in QuorumSets : \A y \in U :
           HasShunned(S[y], c, w) /\ (y \in {n} \/ Shuns(S[y].lastEnvelopeEmit, c, w))
    BY <1>1 DEF AbortQuorum
  <2>2. ASSUME NEW y \in U
        PROVE  HasShunned(S[y], c, w) /\ Shuns(S[y].lastEnvelopeEmit, c, w)
    BY <2>1 DEF HasShunned
  <2> QED BY <2>2 DEF AbortQuorum
<1>2. ASSUME NEW c, NEW v, CommitQuorum(S, {n}, c, v) PROVE CommitQuorum(S, {}, c, v)
  <2>1. PICK U \in QuorumSets : \A y \in U :
           HasBacked(S[y], c, v) /\ (y \in {n} \/ Backs(S[y].lastEnvelopeEmit, c, v))
    BY <1>2 DEF CommitQuorum
  <2>2. ASSUME NEW y \in U
        PROVE  HasBacked(S[y], c, v) /\ Backs(S[y].lastEnvelopeEmit, c, v)
    BY <2>1 DEF HasBacked
  <2> QED BY <2>2 DEF CommitQuorum
<1>3. ASSUME NEW v, CommitKnown(S, {n}, v) PROVE CommitKnown(S, {}, v)
  <2>1. PICK x \in Node : \/ \E st \in S[x].emitted : \E b : HasCommitted(st, b) /\ b.value = v
                          \/ x \in {n} /\ \E b : Committing(S[x], b) /\ b.value = v
    BY <1>3 DEF CommitKnown
  <2>2. CASE \E st \in S[x].emitted : \E b : HasCommitted(st, b) /\ b.value = v
    BY <2>2 DEF CommitKnown
  <2>3. CASE x \in {n} /\ \E b : Committing(S[x], b) /\ b.value = v
    <3>1. PICK b : Committing(S[n], b) /\ b.value = v
      BY <2>3
    <3>2. PICK e : HasCommitted(Own(S[n]), e) /\ e.value = b.value
      BY <3>1
    <3>3. e.value = v
      BY <3>1, <3>2
    <3> QED BY <3>2, <3>3 DEF CommitKnown
  <2> QED BY <2>1, <2>2, <2>3
<1>4. ASSUME NEW c, NEW v, Protected(S, {n}, c, v) PROVE Protected(S, {}, c, v)
  BY <1>1, <1>2, <1>3, <1>4 DEF Protected, Ready
<1>5. ASSUME NEW q, Supported(S, {n}, q) PROVE Supported(S, {}, q)
  BY <1>1, <1>4, <1>5 DEF Supported
<1>6. ASSUME NEW b, Protects(S, {n}, b) PROVE Protects(S, {}, b)
  BY <1>4, <1>6 DEF Protects
<1> QED BY <1>5, <1>6

-----------------------------------------------------------------------------
(* The steps.                                                              *)

\* A node that has accepted a commit says so in its latest statement.
LEMMA OwnCommits ==
    ASSUME NEW s, SlotOK(s), ChainOK(s), SyncedOK(s), NEW b, Committing(s, b)
    PROVE  \E e : HasCommitted(Own(s), e) /\ e.value = b.value
<1> DEFINE o == Own(s)
           e == getWorkingBallot(o)
<1>1. Made(s) \subseteq Statements
  BY MadeTypes
<1>2. ASSUME o \in Statements, ~IsPrepare(o), CommitValue(o) = b.value
      PROVE  HasCommitted(o, e) /\ e.value = b.value
  <2>1. HasCommitted(o, e)
    BY <1>2 DEF HasCommitted
  <2> HIDE DEF o, e
  <2>2. e.value = CommitValue(o)
    BY <1>2, <2>1, AcceptedTypes
  <2> QED BY <1>2, <2>1, <2>2
<1>3. CASE StateCommitting(s, b)
  <2>1. s.phase # "PREPARE" /\ b = s.commit
    BY <1>3 DEF StateCommitting
  <2>2. o = createStatement(s) /\ Consistent(s)
    BY <2>1 DEF SyncedOK, Pristine
  <2>3. o \in Statements /\ ~IsPrepare(o) /\ CommitValue(o) = s.commit.value
    BY <2>1, <2>2, CreatedFields, CommitValueOfState
  <2> QED BY <1>2, <2>1, <2>3
<1>4. CASE \E a \in Made(s) : HasCommitted(a, b)
  <2>1. PICK a \in Made(s) : HasCommitted(a, b)
    BY <1>4
  <2>2. a \in Statements /\ o \in Statements /\ (a = o \/ Follows(a, o))
    BY <1>1, OwnIsNewest DEF ChainOK
  <2>3. b.value = CommitValue(a) /\ ~IsPrepare(a)
    BY <2>1, <2>2, AcceptedTypes DEF HasCommitted
  <2> HIDE DEF o
  <2>4. ~IsPrepare(o) /\ CommitValue(o) = CommitValue(a)
    BY <2>2, <2>3, FollowsTypes
  <2>5. CommitValue(o) = b.value
    BY <2>3, <2>4
  <2> QED BY <1>2, <2>2, <2>4, <2>5 DEF o
<1> QED BY <1>3, <1>4 DEF Committing

LEMMA GrownKeepsCommit ==
    ASSUME NEW S, NetOK(S), NEW T, NetOK(T), NEW n \in Node, SyncedOK(S[n]),
           Grown(S[n], T[n])
    PROVE  KeepsCommit(S[n], T[n])
<1> DEFINE s == S[n]
           t == T[n]
<1> SUFFICES ASSUME NEW b, Committing(s, b)
             PROVE  \E e : Committing(t, e) /\ e.value = b.value
  BY DEF KeepsCommit
<1>1. SlotOK(s) /\ ChainOK(s) /\ SlotOK(t)
  BY NetNode
<1>2. PICK e : HasCommitted(Own(s), e) /\ e.value = b.value
  BY <1>1, OwnCommits
<1>3. /\ Own(s) # NoStatement => Own(s) \in Statements /\ Own(s) \in Made(s)
      /\ Own(t) # NoStatement => Own(t) \in Statements /\ Own(t) \in Made(t)
  BY OwnTypes
<1>4. Own(t) = Own(s) \/ (Own(t) # NoStatement /\ (Own(s) # NoStatement => Follows(Own(s), Own(t))))
  BY DEF Grown
<1> HIDE DEF s, t
<1>5. Own(s) # NoStatement
  <2> SUFFICES ASSUME Own(s) = NoStatement PROVE FALSE
    OBVIOUS
  <2>1. Made(s) = {}
    BY <1>1, NothingMadeYet
  <2>2. StateCommitting(s, b)
    BY <2>1 DEF Committing
  <2>3. s.phase # "PREPARE"
    BY <2>2 DEF StateCommitting
  <2>4. Own(s) = createStatement(s)
    BY <2>3 DEF SyncedOK, Pristine, s
  <2>5. createStatement(s) \in Statements
    BY <1>1, CreatedFields
  <2> QED BY <2>4, <2>5, RankFields
<1>6. CASE Own(t) = Own(s)
  <2>1. HasCommitted(Own(t), e) /\ Own(t) \in Made(t)
    BY <1>2, <1>3, <1>5, <1>6
  <2> QED BY <1>2, <2>1 DEF Committing
<1>7. CASE Own(t) # NoStatement /\ Follows(Own(s), Own(t))
  <2> DEFINE o == Own(t)
             f == getWorkingBallot(o)
  <2>1. e.value = CommitValue(Own(s)) /\ ~IsPrepare(Own(s))
    BY <1>1, <1>2, <1>3, <1>5, AcceptedTypes DEF HasCommitted
  <2>2. ~IsPrepare(o) /\ CommitValue(o) = CommitValue(Own(s)) /\ o \in Statements /\ o \in Made(t)
    BY <1>3, <1>5, <1>7, <2>1, FollowsTypes
  <2>3. HasCommitted(o, f)
    BY <2>2 DEF HasCommitted
  <2> HIDE DEF o, f
  <2>4. f.value = CommitValue(o)
    BY <1>1, <2>2, <2>3, AcceptedTypes
  <2>5. f.value = b.value
    BY <1>2, <2>1, <2>2, <2>4
  <2> QED BY <2>2, <2>3, <2>5 DEF Committing
<1> QED BY <1>4, <1>5, <1>6, <1>7

\* What the latest statement says is what the state says.
LEMMA CreatedSays ==
    ASSUME NEW s, SlotOK(s), Consistent(s), NEW st, st = createStatement(s)
    PROVE  /\ \A q : HasPrepared(st, q) => StateAccepted(s, q)
           /\ \A b : HasCommitted(st, b) => StateCommitting(s, b)
<1>1. s.phase \in {"PREPARE", "CONFIRM", "EXTERNALIZE"}
  BY DEF SlotOK, SlotStates, Phases
<1> DEFINE h == s.highBallot
           c == s.commit
<1>2. /\ s.currentBallot \in Ballots /\ h \in Ballots /\ c \in Ballots
      /\ c # NoBallot => c.value = h.value /\ h.value = s.currentBallot.value
      /\ s.phase # "PREPARE" => c # NoBallot
      /\ c.counter # 0 => c # NoBallot
  BY ConsistentFields
<1>3. Ballot(h.counter, h.value) = h /\ Ballot(c.counter, c.value) = c
  BY SMT, <1>2 DEF Ballots, Ballot
<1>4. ASSUME NEW q, HasPrepared(st, q) PROVE StateAccepted(s, q)
  <2>1. s.phase = "PREPARE"
    BY <1>1, <1>4, CreatedFields DEF HasPrepared
  <2>2. /\ st.ballot = s.currentBallot /\ st.prepared = s.prepared
        /\ st.preparedPrime = s.preparedPrime /\ st.nC = c.counter /\ st.nH = h.counter
    BY <2>1, CreatedFields
  <2> HIDE DEF h, c
  <2>3. CASE q \in {st.prepared, st.preparedPrime} \ {NoBallot}
    BY <2>2, <2>3 DEF StateAccepted
  <2>4. CASE st.nC # 0 /\ q = Ballot(st.nH, st.ballot.value)
    <3>1. c # NoBallot
      BY <1>2, <2>2, <2>4
    <3>2. q = h
      BY <1>2, <1>3, <2>2, <2>4, <3>1
    <3> QED BY <2>1, <3>1, <3>2 DEF StateAccepted, h, c
  <2> QED BY <1>4, <2>3, <2>4 DEF HasPrepared
<1>5. ASSUME NEW b, HasCommitted(st, b) PROVE StateCommitting(s, b)
  <2>1. ~IsPrepare(st) /\ b = getWorkingBallot(st)
    BY <1>5 DEF HasCommitted
  <2>2. s.phase # "PREPARE"
    BY <2>1, CreatedFields
  <2>3. CASE s.phase = "CONFIRM"
    <3>1. st.type = "CONFIRM" /\ st.ballot = s.currentBallot /\ st.nCommit = c.counter
      BY <2>3, CreatedFields
    <3>2. b = Ballot(c.counter, s.currentBallot.value)
      BY SMT, <2>1, <3>1 DEF getWorkingBallot
    <3> HIDE DEF h, c
    <3>3. b = c
      BY <1>2, <1>3, <2>2, <3>2
    <3> QED BY <2>2, <3>3 DEF StateCommitting, c
  <2>4. CASE s.phase = "EXTERNALIZE"
    <3>1. st.type = "EXTERNALIZE" /\ st.commit = c
      BY <2>4, CreatedFields
    <3>2. b = c
      BY SMT, <2>1, <3>1 DEF getWorkingBallot
    <3> QED BY <2>2, <3>2 DEF StateCommitting
  <2> QED BY <1>1, <2>2, <2>3, <2>4
<1> QED BY <1>4, <1>5

\* What a step of a node adds to what it accepted.
NewlyAccepted(s, q) == q \in Ballots /\ (AcceptsPrepared(s, q) \/ ConfirmsPrepared(s, q))

NewlyCommitting(s, b) ==
    \E v \in Values, i, j \in Counters :
        /\ i <= j /\ b = Ballot(i, v)
        /\ AcceptsCommit(s, v, i, j) \/ ConfirmsCommit(s, v, i, j)

\* One step adds accepted ballots or accepted commits, not both.
StateAdds(s, t) ==
    \/ /\ \A q : StateAccepted(t, q) => StateAccepted(s, q) \/ NewlyAccepted(s, q)
       /\ \A b : StateCommitting(t, b) => StateCommitting(s, b)
    \/ /\ \A q : StateAccepted(t, q) => StateAccepted(s, q)
       /\ \A b : StateCommitting(t, b) => NewlyCommitting(s, b)

LEMMA StepAdds ==
    ASSUME NEW s, NEW t, CoreStep(s, t)
    PROVE  StateAdds(s, t)
<1>1. CASE SameCore(s, t)
  BY <1>1 DEF SameCore, StateAccepted, StateCommitting, StateAdds
<1>2. CASE BumpStep(s, t)
  BY <1>2 DEF BumpStep, StateAccepted, StateCommitting, StateAdds
<1>3. CASE AcceptPreparedStep(s, t)
  <2>1. PICK b \in Ballots :
           /\ t.phase = s.phase /\ t.highBallot = s.highBallot /\ AcceptsPrepared(s, b)
           /\ {t.prepared, t.preparedPrime} \subseteq {s.prepared, s.preparedPrime, b}
           /\ t.commit = s.commit \/ (s.phase = "PREPARE" /\ t.commit = NoBallot)
    BY <1>3 DEF AcceptPreparedStep
  <2>2. t.prepared \in {s.prepared, s.preparedPrime, b}
        /\ t.preparedPrime \in {s.prepared, s.preparedPrime, b}
    BY <2>1
  <2>3. NewlyAccepted(s, b)
    BY <2>1 DEF NewlyAccepted
  <2>4. ASSUME NEW q, StateAccepted(t, q) PROVE StateAccepted(s, q) \/ NewlyAccepted(s, q)
    <3>1. CASE q \in {t.prepared, t.preparedPrime} \ {NoBallot}
      <4>1. q \in {s.prepared, s.preparedPrime, b} /\ q # NoBallot
        BY <2>2, <3>1
      <4> QED BY <2>3, <4>1 DEF StateAccepted
    <3>2. CASE t.phase = "PREPARE" /\ t.commit # NoBallot /\ q = t.highBallot
      BY <2>1, <3>2 DEF StateAccepted
    <3> QED BY <2>4, <3>1, <3>2 DEF StateAccepted
  <2>5. ASSUME NEW e, StateCommitting(t, e) PROVE StateCommitting(s, e)
    BY <2>1, <2>5 DEF StateCommitting
  <2> QED BY <2>4, <2>5 DEF StateAdds
<1>4. CASE ConfirmPreparedStep(s, t)
  <2>1. PICK h \in Ballots :
           /\ t.phase = "PREPARE" /\ ConfirmsPrepared(s, h) /\ t.highBallot = h
           /\ t.prepared = s.prepared /\ t.preparedPrime = s.preparedPrime
    BY <1>4 DEF ConfirmPreparedStep
  <2>2. NewlyAccepted(s, h)
    BY <2>1 DEF NewlyAccepted
  <2> QED BY <2>1, <2>2 DEF StateAccepted, StateCommitting, StateAdds
<1>5. ASSUME AcceptCommitStep(s, t) \/ ConfirmCommitStep(s, t)
      PROVE  /\ t.phase # "PREPARE" /\ t.prepared = s.prepared
             /\ t.preparedPrime \in {s.preparedPrime, NoBallot}
             /\ NewlyCommitting(s, t.commit)
  <2>1. CASE AcceptCommitStep(s, t)
    <3>1. t.phase = "CONFIRM" /\ t.prepared = s.prepared
          /\ t.preparedPrime \in {s.preparedPrime, NoBallot} /\ NewlyCommitting(s, t.commit)
      BY <2>1 DEF AcceptCommitStep, NewlyCommitting
    <3> QED BY SMT, <3>1
  <2>2. CASE ConfirmCommitStep(s, t)
    <3>1. t.phase = "EXTERNALIZE" /\ t.prepared = s.prepared
          /\ t.preparedPrime = s.preparedPrime /\ NewlyCommitting(s, t.commit)
      BY <2>2 DEF ConfirmCommitStep, NewlyCommitting
    <3> QED BY SMT, <3>1
  <2> QED BY <1>5, <2>1, <2>2
<1>6. CASE AcceptCommitStep(s, t) \/ ConfirmCommitStep(s, t)
  BY <1>5, <1>6 DEF StateAccepted, StateCommitting, StateAdds
<1> QED BY <1>1, <1>2, <1>3, <1>4, <1>6 DEF CoreStep

AddsAccepted(s, t) ==
    /\ \A q : Accepted(t, q) => Accepted(s, q) \/ NewlyAccepted(s, q)
    /\ \A b : Committing(t, b) => Committing(s, b)

AddsCommits(s, t) ==
    /\ \A q : Accepted(t, q) => Accepted(s, q)
    /\ \A b : Committing(t, b) => Committing(s, b) \/ (b = t.commit /\ NewlyCommitting(s, b))

LEMMA MoveAdds ==
    ASSUME NEW s, SlotOK(s), NEW t, SlotOK(t), Moves(s, t)
    PROVE  AddsAccepted(s, t) \/ AddsCommits(s, t)
<1>1. CoreStep(s, t) /\ Advances(s, t)
  BY DEF Moves, Step, CoreStep
<1>2. StateAdds(s, t)
  BY <1>1, StepAdds
<1>3. ASSUME NEW a \in Made(t), a \notin Made(s)
      PROVE  /\ \A q : HasPrepared(a, q) => StateAccepted(t, q)
             /\ \A b : HasCommitted(a, b) => StateCommitting(t, b)
  <2>1. a = Own(t)
    BY <1>1, <1>3 DEF Advances
  <2>2. a \in Statements
    BY MadeTypes
  <2>3. a # Own(s)
    BY <1>3, <2>2, MadeTypes, RankFields
  <2>4. a = createStatement(t) /\ Consistent(t)
    BY <1>1, <2>1, <2>3 DEF Advances
  <2> QED BY <2>4, CreatedSays
<1>4. /\ \A q : Accepted(t, q) => StateAccepted(t, q) \/ \E a \in Made(s) : HasPrepared(a, q)
      /\ \A b : Committing(t, b) => StateCommitting(t, b) \/ \E a \in Made(s) : HasCommitted(a, b)
  BY <1>3 DEF Accepted, Committing
<1>5. CASE /\ \A q : StateAccepted(t, q) => StateAccepted(s, q) \/ NewlyAccepted(s, q)
           /\ \A b : StateCommitting(t, b) => StateCommitting(s, b)
  BY <1>4, <1>5 DEF AddsAccepted, Accepted, Committing
<1>6. CASE /\ \A q : StateAccepted(t, q) => StateAccepted(s, q)
           /\ \A b : StateCommitting(t, b) => NewlyCommitting(s, b)
  <2>1. \A b : StateCommitting(t, b) => b = t.commit
    BY DEF StateCommitting
  <2> QED BY <1>4, <1>6, <2>1 DEF AddsCommits, Accepted, Committing
<1> QED BY <1>2, <1>5, <1>6 DEF StateAdds

\* The statements that a step of n sends.
Sends(S, T, n) ==
    \/ T[n].emitted = S[n].emitted
    \/ /\ T[n].emitted = S[n].emitted \cup {Own(T[n])}
       /\ T[n].lastEnvelopeEmit = Own(T[n]) /\ Own(T[n]) # NoStatement
       /\ \A b : Committing(T[n], b) =>
             \E e : HasCommitted(Own(T[n]), e) /\ e.value = b.value

\* The values of the commits n accepts are those accepted before.
SettlesSame(S, T, n) ==
    \A b : Committing(T[n], b) =>
        /\ \A e : Committing(T[n], e) => e.value = b.value
        /\ \A m \in Node \ {n} : \A e : Committing(S[m], e) => e.value = b.value

LEMMA StepKeepsGood ==
    ASSUME NEW S, NEW T, NetOK(S), NetOK(T), Good(S), NEW n \in Node,
           Evolves(S, T, n, {}), AcceptsClear(S, T, n), Sends(S, T, n), SettlesSame(S, T, n),
           \A q : Accepted(T[n], q) => Supported(T, {n}, q),
           \A b : Committing(T[n], b) => Protects(T, {n}, b)
    PROVE  Good(T)
<1>1. \A m \in Node \ {n} : T[m] = S[m]
  BY DEF Evolves
<1>2. ASSUME NEW m \in Node \ {n}
      PROVE  /\ \A q \in Ballots : Supported(S, {m}, q) => Supported(T, {m}, q)
             /\ \A b \in Ballots : Protects(S, {m}, b) => Protects(T, {m}, b)
  <2>1. Evolves(S, T, n, {m}) /\ n \notin {m} /\ {m} \in SUBSET Node
    BY DEF Evolves
  <2> QED BY <2>1, ProtectedStays
<1>3. /\ \A q \in Ballots : Supported(S, {}, q) => Supported(T, {}, q)
      /\ \A b \in Ballots : Protects(S, {}, b) => Protects(T, {}, b)
  <2>1. n \notin {} /\ {} \in SUBSET Node
    OBVIOUS
  <2> QED BY <2>1, ProtectedStays
<1>4. ASSUME NEW m \in Node, NEW st \in S[m].emitted
      PROVE  /\ \A q : HasPrepared(st, q) => Supported(T, {}, q)
             /\ \A b : HasCommitted(st, b) => Protects(T, {}, b)
  <2>1. st \in Statements /\ SlotOK(S[m])
    BY NetNode
  <2>2. /\ \A q : HasPrepared(st, q) => Supported(S, {}, q) /\ q \in Ballots
        /\ \A b : HasCommitted(st, b) => Protects(S, {}, b) /\ b \in Ballots
    BY <2>1, AcceptedTypes DEF Good, GoodNode
  <2> QED BY <1>3, <2>2
<1>5. ASSUME NEW m \in Node \ {n} PROVE GoodNode(T, m)
  <2>1. SlotOK(S[m])
    BY NetNode
  <2>2. /\ \A q : Accepted(S[m], q) => Supported(S, {m}, q) /\ q \in Ballots
        /\ \A b : Committing(S[m], b) => Protects(S, {m}, b) /\ b \in Ballots
    BY <2>1, AcceptedTypes DEF Good, GoodNode
  <2>3. /\ \A q : Accepted(S[m], q) => Supported(T, {m}, q)
        /\ \A b : Committing(S[m], b) => Protects(T, {m}, b)
    BY <1>2, <2>2
  <2>4. T[m] = S[m]
    BY <1>1
  <2> QED BY <1>4, <2>3, <2>4 DEF GoodNode
<1>6. GoodNode(T, n)
  <2>1. ASSUME NEW st \in T[n].emitted, st \notin S[n].emitted
        PROVE  /\ \A q : HasPrepared(st, q) => Supported(T, {}, q)
               /\ \A b : HasCommitted(st, b) => Protects(T, {}, b)
    <3>1. /\ st = Own(T[n]) /\ T[n].lastEnvelopeEmit = Own(T[n]) /\ Own(T[n]) \in T[n].emitted
          /\ \A b : Committing(T[n], b) =>
                \E e : HasCommitted(Own(T[n]), e) /\ e.value = b.value
      BY <2>1 DEF Sends
    <3>2. st \in Made(T[n])
      BY NetNode
    <3>3. /\ \A q : Supported(T, {n}, q) => Supported(T, {}, q)
          /\ \A b : Protects(T, {n}, b) => Protects(T, {}, b)
      BY <3>1, SendingTells
    <3> QED BY <3>2, <3>3 DEF Accepted, Committing
  <2> QED BY <1>4, <2>1 DEF GoodNode
<1>7. SameValue(T)
  <2> SUFFICES ASSUME NEW l \in Node, NEW m \in Node, NEW a, NEW b, Committing(T[l], a),
                      Committing(T[m], b)
               PROVE  a.value = b.value
    BY SMT DEF SameValue
  <2>1. CASE l # n /\ m # n
    <3>1. Committing(S[l], a) /\ Committing(S[m], b)
      BY <1>1, <2>1
    <3> QED BY SMT, <3>1 DEF Good, SameValue
  <2>2. CASE l = n
    BY <1>1, <2>2 DEF SettlesSame
  <2>3. CASE m = n
    BY <1>1, <2>3 DEF SettlesSame
  <2> QED BY <2>1, <2>2, <2>3
<1> QED BY <1>5, <1>6, <1>7 DEF Good

\* A node that goes on with its own state.
LEMMA MovesGrow ==
    ASSUME NEW S, NetOK(S), NEW T, NetOK(T), NEW n \in Node, Moves(S[n], T[n])
    PROVE  Grown(S[n], T[n])
<1> DEFINE s == S[n]
           t == T[n]
<1>1. SlotOK(t) /\ Advances(s, t) /\ Step(s, t)
  BY NetNode DEF Moves
<1> HIDE DEF s, t
<1>2. createStatement(t) # NoStatement
  BY <1>1, createStatementType, RankFields
<1>3. /\ Own(t) = Own(s) \/ (Own(t) # NoStatement /\ (Own(s) # NoStatement => Follows(Own(s), Own(t))))
      /\ Made(t) \subseteq Made(s) \cup {Own(t)}
  BY <1>1, <1>2 DEF Advances
<1>4. /\ s.emitted \subseteq t.emitted
      /\ t.lastEnvelopeEmit = s.lastEnvelopeEmit \/ t.lastEnvelopeEmit = Own(s)
  BY <1>1 DEF Step, SendsNothing, SendsLatest
<1> QED BY <1>3, <1>4 DEF Grown, s, t

AcceptsNone(s, t) == \A q : Accepted(t, q) => Accepted(s, q)

\* Every commit accepted has the value of b.
Agrees(S, b) == \A m \in Node : \A e : Committing(S[m], e) => e.value = b.value

\* A commit that n accepts is settled, and its value is the value of every
\* commit accepted before.
LEMMA NewCommit ==
    ASSUME QuorumIntersection, NothingBlocks, NEW S, NEW T, NetOK(S), NetOK(T), Good(S),
           NEW n \in Node, Evolves(S, T, n, {n}), AcceptsClear(S, T, n),
           KeepsCommit(S[n], T[n]), AcceptsNone(S[n], T[n]),
           NEW b, Committing(T[n], b), NewlyCommitting(S[n], b)
    PROVE  Protects(T, {n}, b) /\ Agrees(S, b)
<1>1. PICK v \in Values, i \in Counters, j \in Counters :
         /\ i <= j /\ b = Ballot(i, v)
         /\ AcceptsCommit(S[n], v, i, j) \/ ConfirmsCommit(S[n], v, i, j)
  BY DEF NewlyCommitting
<1>2. b \in Ballots /\ b.counter = i /\ b.value = v
  BY <1>1, CommitBallot
<1>3. Settled(S, n, v, i)
  BY <1>1, AcceptsSettled
<1>4. CASE Backed(S, n, b)
  <2>1. Protects(S, {n}, b) /\ {n} \in SUBSET Node
    BY <1>4 DEF Backed
  <2>2. Protects(T, {n}, b)
    BY <1>2, <2>1, ProtectedStays
  <2>3. PICK l \in Node : \E a : Committing(S[l], a) /\ a.value = b.value
    BY <1>4 DEF Backed
  <2>4. PICK a : Committing(S[l], a) /\ a.value = b.value
    BY <2>3
  <2>5. ASSUME NEW m \in Node, NEW e, Committing(S[m], e) PROVE e.value = b.value
    <3>1. SameValue(S)
      BY DEF Good
    <3>2. e.value = a.value
      BY SMT, <2>4, <2>5, <3>1 DEF SameValue
    <3> QED BY <2>4, <3>2
  <2> QED BY <2>2, <2>5 DEF Agrees
<1>5. CASE /\ \E c \in Counters : c <= i /\ Ready(S, {n}, c, v)
           /\ \A m \in Node : \A e : Committing(S[m], e) => e.value = v
  <2>1. PICK c \in Counters : c <= i /\ Ready(S, {n}, c, v)
    BY <1>5
  <2>2. \A q : Accepted(T[n], q) => ~Against(q, c, v)
    BY <2>1 DEF Ready, AcceptsNone
  <2>3. Ready(T, {n}, c, v)
    BY <2>1, <2>2, ReadyStays
  <2>4. CommitKnown(T, {n}, v)
    BY <1>2 DEF CommitKnown
  <2>5. Protected(T, {n}, c, v)
    BY <2>3, <2>4 DEF Protected
  <2>6. c <= b.counter /\ Protected(T, {n}, c, b.value)
    BY <1>2, <2>1, <2>5
  <2>7. Agrees(S, b)
    BY <1>2, <1>5 DEF Agrees
  <2> QED BY <2>6, <2>7 DEF Protects
<1> QED BY <1>1, <1>3, <1>4, <1>5 DEF Settled

LEMMA MoveKeepsGood ==
    ASSUME QuorumIntersection, NothingBlocks, NEW S, NEW T, NetOK(S), NetOK(T), Good(S),
           NEW n \in Node, \A m \in Node \ {n} : T[m] = S[m], S[n].failure = "none",
           Moves(S[n], T[n])
    PROVE  Good(T)
<1>1. Grown(S[n], T[n])
  BY MovesGrow
<1>2. Evolves(S, T, n, {n}) /\ Evolves(S, T, n, {}) /\ {n} \in SUBSET Node
  BY <1>1 DEF Evolves
<1>3. /\ SlotOK(S[n]) /\ SlotOK(T[n]) /\ ChainOK(T[n]) /\ SyncedOK(S[n])
  BY NetNode DEF HistoryOK
<1>4. KeepsCommit(S[n], T[n])
  BY <1>1, <1>3, GrownKeepsCommit
<1>5. AddsAccepted(S[n], T[n]) \/ AddsCommits(S[n], T[n])
  BY <1>3, MoveAdds
<1>6. ASSUME NEW q, NewlyAccepted(S[n], q) PROVE Admissible(S, n, q)
  BY <1>6, AcceptsAdmits DEF NewlyAccepted
<1>7. ASSUME NEW q, Accepted(T[n], q)
      PROVE  Supported(S, {n}, q) /\ Clear(S, q) /\ q \in Ballots
  <2>1. Accepted(S[n], q) \/ NewlyAccepted(S[n], q)
    BY <1>5, <1>7 DEF AddsAccepted, AddsCommits
  <2>2. q \in Ballots
    BY <1>3, <1>7, AcceptedTypes
  <2>3. CASE Accepted(S[n], q)
    BY <2>2, <2>3, AcceptedClear DEF Good, GoodNode
  <2>4. CASE NewlyAccepted(S[n], q)
    BY <1>6, <2>2, <2>4 DEF Admissible
  <2> QED BY <2>1, <2>3, <2>4
<1>8. AcceptsClear(S, T, n)
  BY <1>7 DEF AcceptsClear
<1>9. /\ \A q \in Ballots : Supported(S, {n}, q) => Supported(T, {n}, q)
      /\ \A b \in Ballots : Protects(S, {n}, b) => Protects(T, {n}, b)
  BY <1>2, <1>4, <1>8, ProtectedStays
<1>10. \A q : Accepted(T[n], q) => Supported(T, {n}, q)
  BY <1>7, <1>9
<1>11. SameValue(S)
  BY DEF Good
<1>12. ASSUME NEW b, Committing(S[n], b)
       PROVE  Protects(T, {n}, b) /\ Agrees(S, b)
  <2>1. b \in Ballots /\ Protects(S, {n}, b)
    BY <1>3, <1>12, AcceptedTypes DEF Good, GoodNode
  <2>2. ASSUME NEW m \in Node, NEW e, Committing(S[m], e) PROVE e.value = b.value
    BY SMT, <1>11, <1>12, <2>2 DEF SameValue
  <2> QED BY <1>9, <2>1, <2>2 DEF Agrees
<1>13. ASSUME NEW b, Committing(T[n], b)
       PROVE  /\ Protects(T, {n}, b) /\ Agrees(S, b)
              /\ Committing(S[n], b) \/ b = T[n].commit
  <2>1. CASE Committing(S[n], b)
    BY <1>12, <2>1
  <2>2. CASE ~Committing(S[n], b)
    <3>1. AcceptsNone(S[n], T[n]) /\ NewlyCommitting(S[n], b)
      BY <1>5, <1>13, <2>2 DEF AddsAccepted, AddsCommits, AcceptsNone
    <3>2. b = T[n].commit
      BY <1>5, <1>13, <2>2 DEF AddsAccepted, AddsCommits
    <3>3. Evolves(S, T, n, {n})
      BY <1>2
    <3>4. Protects(T, {n}, b) /\ Agrees(S, b)
      BY <1>4, <1>8, <1>13, <3>1, <3>3, NewCommit
    <3> QED BY <3>2, <3>4
  <2> QED BY <2>1, <2>2
<1>14. SettlesSame(S, T, n)
  <2> SUFFICES ASSUME NEW b, Committing(T[n], b), NEW e, Committing(T[n], e)
               PROVE  e.value = b.value
    BY <1>13 DEF SettlesSame, Agrees
  <2>1. CASE Committing(S[n], b)
    BY <1>13, <2>1 DEF Agrees
  <2>2. CASE Committing(S[n], e)
    BY <1>13, <2>2 DEF Agrees
  <2>3. CASE b = T[n].commit /\ e = T[n].commit
    BY <2>3
  <2> QED BY <1>13, <2>1, <2>2, <2>3
<1>15. Sends(S, T, n)
  <2>1. CASE T[n].emitted = S[n].emitted
    BY <2>1 DEF Sends
  <2>2. CASE SameCore(S[n], T[n]) /\ Own(T[n]) = Own(S[n]) /\ SendsLatest(S[n], T[n])
    <3>1. SyncedOK(T[n])
      BY <1>3, <2>2, SameSynced
    <3>2. \A b : Committing(T[n], b) =>
             \E e : HasCommitted(Own(T[n]), e) /\ e.value = b.value
      BY <1>3, <3>1, OwnCommits
    <3>3. /\ T[n].emitted = S[n].emitted \cup {Own(T[n])}
          /\ T[n].lastEnvelopeEmit = Own(T[n]) /\ Own(T[n]) # NoStatement
      BY <2>2 DEF SendsLatest, Sendable
    <3> QED BY <3>2, <3>3 DEF Sends
  <2> QED BY <2>1, <2>2 DEF Moves, Step, SendsNothing
<1> QED BY <1>2, <1>8, <1>10, <1>13, <1>14, <1>15, StepKeepsGood

\* A node that records the statement of another node.
LEMMA ReceiveKeepsGood ==
    ASSUME NEW S, NEW T, NetOK(S), NetOK(T), Good(S), NEW n \in Node,
           \A m \in Node \ {n} : T[m] = S[m], NEW l, NEW st, Receives(S[n], T[n], l, st)
    PROVE  Good(T)
<1>1. /\ SameCore(S[n], T[n]) /\ Own(T[n]) = Own(S[n]) /\ Made(T[n]) = Made(S[n])
      /\ T[n].emitted = S[n].emitted /\ T[n].lastEnvelopeEmit = S[n].lastEnvelopeEmit
  BY DEF Receives, SameSent
<1>2. Evolves(S, T, n, {n}) /\ Evolves(S, T, n, {}) /\ {n} \in SUBSET Node
  BY <1>1 DEF Evolves, Grown
<1>3. SlotOK(S[n])
  BY NetNode
<1>4. /\ \A q : Accepted(T[n], q) <=> Accepted(S[n], q)
      /\ \A b : Committing(T[n], b) <=> Committing(S[n], b)
  BY <1>1 DEF Accepted, Committing, SameCore, StateAccepted, StateCommitting
<1>5. AcceptsClear(S, T, n) /\ KeepsCommit(S[n], T[n])
  BY <1>4, AcceptedClear DEF AcceptsClear, KeepsCommit
<1>6. /\ \A q \in Ballots : Supported(S, {n}, q) => Supported(T, {n}, q)
      /\ \A b \in Ballots : Protects(S, {n}, b) => Protects(T, {n}, b)
  BY <1>2, <1>5, ProtectedStays
<1>7. /\ \A q : Accepted(T[n], q) => Supported(T, {n}, q)
      /\ \A b : Committing(T[n], b) => Protects(T, {n}, b)
  BY <1>3, <1>4, <1>6, AcceptedTypes DEF Good, GoodNode
<1>8. SettlesSame(S, T, n)
  <2>1. SameValue(S)
    BY DEF Good
  <2>2. ASSUME NEW b, Committing(S[n], b), NEW m \in Node, NEW e, Committing(S[m], e)
        PROVE  e.value = b.value
    BY SMT, <2>1, <2>2 DEF SameValue
  <2> QED BY <1>4, <2>2 DEF SettlesSame
<1>9. Sends(S, T, n)
  BY <1>1 DEF Sends
<1> QED BY <1>2, <1>5, <1>7, <1>8, <1>9, StepKeepsGood

\* A node that starts again has accepted what it had sent.
LEMMA RestartAccepts ==
    ASSUME NEW s, SlotOK(s), ChainOK(s), SentOK(s), NEW t, Restarts(s, t)
    PROVE  /\ \A b : Committing(t, b) => \E a \in s.emitted : HasCommitted(a, b)
           /\ \A q : Accepted(t, q) =>
                 \E a \in s.emitted : \/ HasPrepared(a, q)
                                      \/ \E b : HasCommitted(a, b) /\ q.value = b.value
<1> DEFINE st == s.lastEnvelopeEmit
<1>1. Made(t) = s.emitted /\ s.emitted \subseteq Made(s)
  BY MadeTypes DEF Restarts
<1>2. CASE st = NoStatement
  <2>1. Pristine(t)
    BY <1>2 DEF Restarts
  <2>2. /\ \A b : ~StateCommitting(t, b)
        /\ \A q : ~StateAccepted(t, q)
    BY <2>1 DEF Pristine, StateCommitting, StateAccepted
  <2> QED BY <1>1, <2>2 DEF Accepted, Committing
<1>3. CASE st # NoStatement
  <2>1. Restored(t, st) /\ st \in s.emitted
    BY <1>3 DEF Restarts, SentOK
  <2>2. st \in Statements /\ Sound(st)
    BY <1>1, <2>1, MadeTypes DEF ChainOK
  <2> HIDE DEF st
  <2>3. CASE IsPrepare(st)
    <3>1. /\ t.phase = "PREPARE" /\ t.prepared = st.prepared /\ t.preparedPrime = st.preparedPrime
          /\ t.highBallot = IF st.nH # 0 THEN Ballot(st.nH, st.ballot.value) ELSE NoBallot
          /\ t.commit = IF st.nC # 0 THEN Ballot(st.nC, st.ballot.value) ELSE NoBallot
      BY <2>1, <2>3 DEF Restored
    <3>2. st.nC # 0 => st.nH # 0
      <4>1. st.nC # 0 => st.nC <= st.nH
        BY <2>2, <2>3 DEF Sound
      <4>2. st.nC \in Nat /\ st.nH \in Nat
        BY <2>2, <2>3, StatementFields, CountersAreNat
      <4> QED BY SMT, <4>1, <4>2
    <3>3. \A q : StateAccepted(t, q) => HasPrepared(st, q)
      BY <2>3, <3>1, <3>2 DEF StateAccepted, HasPrepared
    <3>4. \A b : ~StateCommitting(t, b)
      BY <3>1 DEF StateCommitting
    <3> QED BY <1>1, <2>1, <3>3, <3>4 DEF Accepted, Committing
  <2>4. ASSUME NEW w, NEW c, t.phase # "PREPARE", ~IsPrepare(st), getWorkingBallot(st) = t.commit,
               t.prepared = Ballot(c, w), t.preparedPrime = NoBallot, t.commit.value = w
        PROVE  /\ \A b : Committing(t, b) => \E a \in s.emitted : HasCommitted(a, b)
               /\ \A q : Accepted(t, q) =>
                     \E a \in s.emitted : \/ HasPrepared(a, q)
                                          \/ \E b : HasCommitted(a, b) /\ q.value = b.value
    <3>1. HasCommitted(st, t.commit)
      BY <2>4 DEF HasCommitted
    <3>2. \A b : StateCommitting(t, b) => HasCommitted(st, b)
      BY <3>1 DEF StateCommitting
    <3>3. Ballot(c, w).value = w
      BY SMT DEF Ballot
    <3>4. ASSUME NEW q, StateAccepted(t, q) PROVE q.value = t.commit.value
      <4>1. q = Ballot(c, w)
        BY <2>4, <3>4 DEF StateAccepted
      <4> QED BY <2>4, <3>3, <4>1
    <3> QED BY <1>1, <2>1, <3>1, <3>2, <3>4 DEF Accepted, Committing
  <2>5. CASE st.type = "CONFIRM"
    <3>1. /\ t.phase = "CONFIRM" /\ t.prepared = Ballot(st.nPrepared, st.ballot.value)
          /\ t.preparedPrime = NoBallot /\ t.commit = Ballot(st.nCommit, st.ballot.value)
      BY <2>1, <2>5 DEF Restored
    <3>2. t.phase # "PREPARE" /\ ~IsPrepare(st)
      BY SMT, <2>5, <3>1 DEF IsPrepare
    <3>3. getWorkingBallot(st) = t.commit
      BY SMT, <2>5, <3>1 DEF getWorkingBallot
    <3>4. t.commit.value = st.ballot.value
      BY SMT, <3>1 DEF Ballot
    <3> QED BY <2>4, <3>1, <3>2, <3>3, <3>4
  <2>6. CASE st.type = "EXTERNALIZE"
    <3>1. /\ t.phase = "EXTERNALIZE" /\ t.prepared = Ballot(UINT32_MAX, st.commit.value)
          /\ t.preparedPrime = NoBallot /\ t.commit = st.commit
      BY <2>1, <2>6 DEF Restored
    <3>2. t.phase # "PREPARE" /\ ~IsPrepare(st)
      BY SMT, <2>6, <3>1 DEF IsPrepare
    <3>3. getWorkingBallot(st) = t.commit
      BY SMT, <2>6, <3>1 DEF getWorkingBallot
    <3> QED BY <2>4, <3>1, <3>2, <3>3
  <2> QED BY <2>2, <2>3, <2>5, <2>6, RankFields DEF IsPrepare
<1> QED BY <1>2, <1>3

LEMMA RestartKeepsGood ==
    ASSUME NEW S, NEW T, NetOK(S), NetOK(T), Good(S), NEW n \in Node,
           \A m \in Node \ {n} : T[m] = S[m], Restarts(S[n], T[n])
    PROVE  Good(T)
<1>1. Evolves(S, T, n, {})
  BY DEF Evolves
<1>2. /\ SlotOK(S[n]) /\ SlotOK(T[n]) /\ S[n].emitted \subseteq Made(S[n])
      /\ ChainOK(S[n]) /\ SentOK(S[n])
  BY NetNode
<1>3. /\ \A b : Committing(T[n], b) => \E a \in S[n].emitted : HasCommitted(a, b)
      /\ \A q : Accepted(T[n], q) =>
            \E a \in S[n].emitted : \/ HasPrepared(a, q)
                                    \/ \E b : HasCommitted(a, b) /\ q.value = b.value
  BY <1>2, RestartAccepts
<1>4. ASSUME NEW b, Committing(T[n], b)
      PROVE  b \in Ballots /\ Protects(S, {}, b) /\ Committing(S[n], b)
  <2>1. b \in Ballots
    BY <1>2, <1>4, AcceptedTypes
  <2>2. PICK a \in S[n].emitted : HasCommitted(a, b)
    BY <1>3, <1>4
  <2>3. Protects(S, {}, b)
    BY <2>2 DEF Good, GoodNode
  <2>4. Committing(S[n], b)
    BY <1>2, <2>2 DEF Committing
  <2> QED BY <2>1, <2>3, <2>4
<1>5. ASSUME NEW q, Accepted(T[n], q)
      PROVE  q \in Ballots /\ Supported(S, {}, q) /\ Clear(S, q)
  <2>1. q \in Ballots
    BY <1>2, <1>5, AcceptedTypes
  <2>2. PICK a \in S[n].emitted : \/ HasPrepared(a, q)
                                  \/ \E b : HasCommitted(a, b) /\ q.value = b.value
    BY <1>3, <1>5
  <2>3. CASE HasPrepared(a, q)
    <3>1. Supported(S, {}, q)
      BY <2>3 DEF Good, GoodNode
    <3>2. Accepted(S[n], q)
      BY <1>2, <2>3 DEF Accepted
    <3> QED BY <2>1, <3>1, <3>2, AcceptedClear
  <2>4. CASE \E b : HasCommitted(a, b) /\ q.value = b.value
    <3>1. PICK b : HasCommitted(a, b) /\ q.value = b.value
      BY <2>4
    <3>2. Protects(S, {}, b)
      BY <3>1 DEF Good, GoodNode
    <3>3. PICK c \in Counters : Protected(S, {}, c, b.value)
      BY <3>2 DEF Protects
    <3>4. q.value \in Values
      BY <2>1, BallotValue
    <3>5. Supported(S, {}, q)
      BY <3>1, <3>3, <3>4, ProtectedSupports
    <3>6. Committing(S[n], b) /\ SameValue(S)
      BY <1>2, <3>1 DEF Committing, Good
    <3>7. Clear(S, q)
      BY <3>1, <3>6, CommittedClear
    <3> QED BY <2>1, <3>5, <3>7
  <2> QED BY <2>2, <2>3, <2>4
<1>6. AcceptsClear(S, T, n)
  BY <1>5 DEF AcceptsClear
<1>7. /\ \A q \in Ballots : Supported(S, {}, q) => Supported(T, {}, q)
      /\ \A b \in Ballots : Protects(S, {}, b) => Protects(T, {}, b)
  <2>1. n \notin {} /\ {} \in SUBSET Node
    OBVIOUS
  <2> QED BY <1>1, <1>6, <2>1, ProtectedStays
<1>8. /\ \A q : Supported(T, {}, q) => Supported(T, {n}, q)
      /\ \A b : Protects(T, {}, b) => Protects(T, {n}, b)
  <2>1. {} \subseteq {n}
    OBVIOUS
  <2> QED BY <2>1, SentIsKnown
<1>9. /\ \A q : Accepted(T[n], q) => Supported(T, {n}, q)
      /\ \A b : Committing(T[n], b) => Protects(T, {n}, b)
  BY <1>4, <1>5, <1>7, <1>8
<1>10. SettlesSame(S, T, n)
  <2>1. SameValue(S)
    BY DEF Good
  <2>2. ASSUME NEW b, Committing(S[n], b), NEW m \in Node, NEW e, Committing(S[m], e)
        PROVE  e.value = b.value
    BY SMT, <2>1, <2>2 DEF SameValue
  <2> QED BY <1>4, <2>2 DEF SettlesSame
<1>11. Sends(S, T, n)
  BY DEF Sends, Restarts
<1> QED BY <1>1, <1>6, <1>9, <1>10, <1>11, StepKeepsGood

-----------------------------------------------------------------------------
(* The first state, every step, and what follows.                          *)

LEMMA NetStep ==
    ASSUME NEW S, NEW T, NetOK(S), NEW n \in Node, \A m \in Node \ {n} : T[m] = S[m],
           HistoryOK(T[n]), T[n].self = n, S[n].emitted \subseteq T[n].emitted,
           \A m \in Node \ {n} :
              T[n].latest[m] \in S[m].emitted \cup {S[n].latest[m], NoStatement}
    PROVE  NetOK(T)
<1>1. ASSUME NEW m \in Node PROVE HistoryOK(T[m]) /\ T[m].self = m
  BY DEF NetOK
<1>2. ASSUME NEW m \in Node, NEW l \in Node \ {m}
      PROVE  T[m].latest[l] \in T[l].emitted \cup {NoStatement}
  <2>1. S[m].latest[l] \in S[l].emitted \cup {NoStatement}
    BY <1>2 DEF NetOK
  <2>2. S[l].emitted \subseteq T[l].emitted
    OBVIOUS
  <2>3. CASE m = n
    BY <1>2, <2>1, <2>2, <2>3
  <2>4. CASE m # n
    BY <1>2, <2>1, <2>2, <2>4
  <2> QED BY <2>3, <2>4
<1> QED BY <1>1, <1>2 DEF NetOK

LEMMA FirstGood ==
    ASSUME NEW S, \A n \in Node : Pristine(S[n]) /\ Made(S[n]) = {} /\ S[n].emitted = {}
    PROVE  Good(S)
<1>1. ASSUME NEW n \in Node
      PROVE  (\A q : ~Accepted(S[n], q)) /\ (\A b : ~Committing(S[n], b))
  BY DEF Pristine, Accepted, StateAccepted, Committing, StateCommitting
<1> QED BY <1>1 DEF Good, GoodNode, SameValue

LEMMA TurnKeepsGood ==
    ASSUME QuorumIntersection, NothingBlocks, NEW S, NEW T, NetOK(S), Good(S), NEW n \in Node,
           \A m \in Node \ {n} : T[m] = S[m], HistoryOK(T[n]), T[n].self = n,
           \/ S[n].failure = "none" /\ Moves(S[n], T[n])
           \/ \E m \in Node \ {n} : \E st \in S[m].emitted : Receives(S[n], T[n], m, st)
           \/ Restarts(S[n], T[n])
    PROVE  NetOK(T) /\ Good(T)
<1>0. SlotOK(S[n]) /\ S[n].self = n
  BY NetNode DEF NetOK
<1>1. CASE S[n].failure = "none" /\ Moves(S[n], T[n])
  <2>1. /\ S[n].emitted \subseteq T[n].emitted
        /\ \A m \in Node \ {n} : T[n].latest[m] = S[n].latest[m]
    BY <1>0, <1>1 DEF Moves, Advances, Step, SendsNothing, SendsLatest
  <2>2. NetOK(T)
    BY <2>1, NetStep
  <2> QED BY <1>1, <2>2, MoveKeepsGood
<1>2. CASE \E m \in Node \ {n} : \E st \in S[m].emitted : Receives(S[n], T[n], m, st)
  <2>1. PICK m \in Node \ {n} : \E st \in S[m].emitted : Receives(S[n], T[n], m, st)
    BY <1>2
  <2>2. PICK st \in S[m].emitted : Receives(S[n], T[n], m, st)
    BY <2>1
  <2>3. T[n].emitted = S[n].emitted /\ T[n].latest = [S[n].latest EXCEPT ![m] = st]
    BY <2>2 DEF Receives, SameSent
  <2>4. S[n].latest \in [Node -> Statements \cup {NoStatement}]
    BY <1>0 DEF SlotOK, SlotStates
  <2>5. ASSUME NEW l \in Node \ {n}
        PROVE  T[n].latest[l] \in S[l].emitted \cup {S[n].latest[l], NoStatement}
    <3>1. T[n].latest[l] = IF l = m THEN st ELSE S[n].latest[l]
      BY <2>3, <2>4
    <3> QED BY <3>1
  <2>6. NetOK(T)
    BY <2>3, <2>5, NetStep
  <2> QED BY <2>2, <2>6, ReceiveKeepsGood
<1>3. CASE Restarts(S[n], T[n])
  <2>1. /\ T[n].emitted = S[n].emitted
        /\ \A m \in Node \ {n} : T[n].latest[m] = NoStatement
    BY <1>0, <1>3 DEF Restarts
  <2>2. NetOK(T)
    BY <2>1, NetStep
  <2> QED BY <1>3, <2>2, RestartKeepsGood
<1> QED BY <1>1, <1>2, <1>3

\* Two nodes that accepted a commit accepted one of the same value.
LEMMA GoodAgrees ==
    ASSUME NEW S, Good(S), NEW n \in Node, NEW m \in Node,
           S[n].phase # "PREPARE", S[m].phase # "PREPARE"
    PROVE  S[n].commit.value = S[m].commit.value
<1> DEFINE a == S[n].commit
           b == S[m].commit
<1>1. Committing(S[n], a) /\ Committing(S[m], b)
  BY DEF Committing, StateCommitting
<1>2. SameValue(S)
  BY DEF Good
<1> HIDE DEF a, b
<1>3. a.value = b.value
  BY SMT, <1>1, <1>2 DEF SameValue
<1> QED BY <1>3 DEF a, b

\* What a node accepted as prepared is not against a commit that is accepted.
LEMMA GoodProtects ==
    ASSUME NEW S, NetOK(S), Good(S), NEW n \in Node, NEW m \in Node, S[n].phase # "PREPARE",
           NEW q \in {S[m].prepared, S[m].preparedPrime} \ {NoBallot},
           ~areBallotsCompatible(q, S[n].commit)
    PROVE  Less(q, S[n].commit)
<1> DEFINE b == S[n].commit
           v == S[n].commit.value
<1>1. SlotOK(S[n]) /\ SlotOK(S[m])
  BY NetNode
<1>2. Committing(S[n], b) /\ Accepted(S[m], q)
  BY DEF Committing, StateCommitting, Accepted, StateAccepted
<1>3. b \in Ballots /\ q \in Ballots
  BY <1>1, <1>2, AcceptedTypes
<1>4. PICK c \in Counters : c <= b.counter /\ Protected(S, {n}, c, v)
  BY <1>2 DEF Good, GoodNode, Protects
<1>5. v \in Values /\ q.value # v
  BY <1>3, BallotValue DEF areBallotsCompatible
<1>6. ~Against(q, c, v)
  BY <1>2, <1>4 DEF Protected, Ready
<1>7. Less(q, Ballot(c, v))
  BY <1>4, <1>5, <1>3, <1>6, AgainstTotal
<1>8. Ballot(c, v) \in Ballots /\ LessEq(Ballot(c, v), b)
  <2>1. /\ Ballot(c, v) \in Ballots /\ Ballot(c, v).counter = c /\ Ballot(c, v).value = v
        /\ c \in Nat
    BY <1>4, <1>5, CommitBallot
  <2>2. b.value = v /\ b.counter \in Nat
    BY <1>3, BallotFields
  <2>3. c = b.counter => Ballot(c, v) = b
    <3> HIDE DEF b, v
    <3> QED BY <1>3, <2>1, <2>2, BallotEqual
  <2> QED BY SMT, <1>4, <2>1, <2>2, <2>3 DEF LessEq, Less
<1> HIDE DEF b
<1>9. Less(q, b)
  BY <1>3, <1>7, <1>8, LessTransitive
<1> QED BY <1>9 DEF b

=============================================================================
