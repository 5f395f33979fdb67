------------------------------ MODULE MCBallot ------------------------------
(***************************************************************************)
(* Instances of BallotProtocol for TLC: networks of two and three nodes,   *)
(* what nomination gives each of them and what their drivers accept.       *)
(***************************************************************************)
EXTENDS BallotProtocol, TLC

CONSTANTS n1, n2, n3

\* Two nodes that need each other.
Pair == {n1, n2}
PairQSet == [n \in Pair |-> QSet(2, <<n1, n2>>, << >>)]
PairValid == [n \in Pair |-> [v \in Value |-> "kFullyValidatedValue"]]
PairSymmetry == Permutations(Pair)

\* Each node may start with either value and see the larger one later.
PairRising == [n \in Pair |-> {<<0, 1>>, <<0, 2>>, <<1, 2>>}]

\* Both start with the smaller value and see the other one later.
PairSame == [n \in Pair |-> {<<0, 1>>, <<1, 2>>}]

\* n1 and n2 need each other, n3 follows them and nobody depends on it.
Trio == {n1, n2, n3}
TrioValid == [n \in Trio |-> [v \in Value |-> "kFullyValidatedValue"]]
FollowQSet == [n \in Trio |-> QSet(2, <<n1, n2>>, << >>)]
FollowSame == [n \in Trio |-> {<<0, 1>>}]
FollowSymmetry == Permutations(Pair)

\* n2 stands between n1 and n3, which do not hear each other and start with
\* different values.
HubQSet ==
    (n1 :> QSet(2, <<n1, n2>>, << >>)) @@ (n2 :> QSet(2, <<n1, n2, n3>>, << >>))
        @@ (n3 :> QSet(2, <<n2, n3>>, << >>))
HubHears == (n1 :> {n2}) @@ (n2 :> {n1, n3}) @@ (n3 :> {n2})
HubSteps == (n1 :> {<<0, 1>>}) @@ (n2 :> {<<0, 1>>}) @@ (n3 :> {<<0, 2>>})

\* The same, and n2 sees the larger value later.
HubRising == (n1 :> {<<0, 1>>}) @@ (n2 :> {<<0, 1>>, <<1, 2>>}) @@ (n3 :> {<<0, 2>>})

PairHears == [n \in Pair |-> Pair]
TrioHears == [n \in Trio |-> Trio]

\* The last counters the timers move a node to.
PairBumps == [n \in Pair |-> 2]
FollowBumps == [n \in Trio |-> 3]
HubBumps == (n1 :> 1) @@ (n2 :> 2) @@ (n3 :> 1)

\* What the safety theorems of BallotSafetyProofs ask of the quorum sets.
ASSUME QuorumsIntersect == QuorumIntersection

(***************************************************************************)
(* Handlers as single steps.  While a node runs no other acts, so the      *)
(* states between the steps of a handler can be left out when a property   *)
(* is about the states in which the network rests.                         *)
(***************************************************************************)
RECURSIVE RunToEnd(_)
RunToEnd(s) == IF Running(s) THEN RunToEnd(advanceSlot(s)) ELSE s

ReceiveEnvelopeAtOnce(n, m) ==
    /\ Idle(slot[n]) /\ m \in Hears[n] \ {n}
    /\ \E st \in slot[m].emitted :
          /\ Acceptable(slot[n], m, st)
          /\ Update(n, RunToEnd(processEnvelope(slot[n], m, st)))

UpdatedCandidateValueAtOnce(n) ==
    /\ Idle(slot[n]) /\ slot[n].phase # "EXTERNALIZE"
    /\ \E v \in Value :
          /\ <<slot[n].candidate, v>> \in CandidateSteps[n]
          /\ Update(n, RunToEnd(bumpState([slot[n] EXCEPT !.candidate = v], v, FALSE)))

BallotProtocolTimerExpiredAtOnce(n) ==
    /\ Idle(slot[n]) /\ MayAbandon(slot[n])
    /\ Update(n, RunToEnd(abandonBallot([slot[n] EXCEPT !.timer = FALSE], 0)))

NextAtOnce ==
    \E n \in Node :
        \/ \E m \in Node : ReceiveEnvelopeAtOnce(n, m)
        \/ UpdatedCandidateValueAtOnce(n)
        \/ BallotProtocolTimerExpiredAtOnce(n)

SpecAtOnce == Init /\ [][NextAtOnce]_vars
=============================================================================
