--------------------------- MODULE QuorumSetUtils ---------------------------
(***************************************************************************)
(* Checking and simplifying quorum sets (src/src/scp/QuorumSetUtils.cpp),  *)
(* the closest v-blocking set and the search for a node in the transitive  *)
(* quorum (src/src/scp/LocalNode.cpp), against what they are meant to      *)
(* compute.  The search is a state machine: the order in which it takes    *)
(* nodes from an unordered set is anybody's guess.                         *)
(***************************************************************************)
EXTENDS LocalNode, SequencesExt

CONSTANTS
    Node,         \* the nodes that quorum sets name
    LocalID,      \* the node that evaluates
    Networks      \* the assignments of quorum sets to nodes that are tried

\* What a node's statements give: no statement is known, or the hash of its
\* quorum set resolves to nothing.
NoStatement == [type |-> "none"]
NoQSet      == [type |-> "null"]
IsQSet(q)   == q \notin {NoStatement, NoQSet}

-----------------------------------------------------------------------------
(* Sanity.                                                                 *)

RECURSIVE AllValidators(_), LevelsSane(_, _, _), normalizeQSet(_)
RECURSIVE findClosestVBlocking(_, _, _)

\* mKnownNodes in the order of the insertions.
AllValidators(q) ==
    q.validators \o
        FlattenSeq([k \in DOMAIN q.innerSets |-> AllValidators(q.innerSets[k])])

LevelsSane(q, depth, extraChecks) ==
    /\ depth <= 2
    /\ q.threshold >= 1
    /\ q.threshold <= Entries(q)
    /\ extraChecks => q.threshold >= Entries(q) - q.threshold + 1
    /\ \A k \in DOMAIN q.innerSets : LevelsSane(q.innerSets[k], depth + 1, extraChecks)

isQuorumSetSane(q, extraChecks) ==
    /\ LevelsSane(q, 0, extraChecks)
    /\ IsInjective(AllValidators(q))
    /\ Len(AllValidators(q)) \in 1..1000

-----------------------------------------------------------------------------
(* Normalisation: singleton inner sets become validators, and a set that   *)
(* only wraps another becomes that set.                                    *)

\* Wrong: any inner set of threshold 1 becomes its first validator.
IsSingletonLoose(q) == q.threshold = 1 /\ Len(q.validators) >= 1

IsSingleton(q) == q.threshold = 1 /\ Len(q.validators) = 1 /\ q.innerSets = << >>

normalizeQSet(q) ==
    LET normal == [k \in DOMAIN q.innerSets |-> normalizeQSet(q.innerSets[k])]
        single == SelectSeq(normal, IsSingleton)
        v == q.validators \o [k \in DOMAIN single |-> single[k].validators[1]]
        i == SelectSeq(normal, LAMBDA x : ~IsSingleton(x))
    IN  IF q.threshold = 1 /\ v = << >> /\ Len(i) = 1 THEN i[1]
        ELSE QSet(q.threshold, v, i)

-----------------------------------------------------------------------------
(* findClosestVBlocking: validators first, then the smallest inner sets.   *)

Taking(seq, n) == SubSeq(seq, 1, IF n < Len(seq) THEN n ELSE Len(seq))

\* The sets in ascending order of size, as the multiset keeps them.
BySize(seqs) == SortSeq(seqs, LAMBDA a, b : Len(a) < Len(b))

findClosestVBlocking(q, nodes, excluded) ==
    LET present == SelectSeq(q.validators, LAMBDA n : n \notin excluded /\ n \in nodes)
        missing == SelectSeq(q.validators, LAMBDA n : n \notin excluded /\ n \notin nodes)
        inner   == [k \in DOMAIN q.innerSets |->
                        findClosestVBlocking(q.innerSets[k], nodes, excluded)]
        open    == SelectSeq(inner, LAMBDA r : r # << >>)
        left    == 1 + Entries(q) - q.threshold
                     - Len(missing) - (Len(inner) - Len(open))
        direct  == Taking(present, left)
    IN  IF left <= 0 THEN << >>
        ELSE direct \o FlattenSeq(Taking(BySize(open), left - Len(direct)))

-----------------------------------------------------------------------------
(* isNodeInQuorum.                                                         *)

VARIABLES
    qsets,        \* the quorum set of each node's statements
    target,       \* the node searched for
    backlog, visited, res, done

vars == <<qsets, target, backlog, visited, res, done>>

Init ==
    /\ qsets \in Networks
    /\ target \in Node
    /\ backlog = {LocalID} /\ visited = {}
    /\ res = "TB_FALSE" /\ done = FALSE

Found(c) ==
    /\ c = target
    /\ res' = "TB_TRUE" /\ done' = TRUE
    /\ UNCHANGED <<qsets, target, backlog, visited>>

\* Wrong: a quorum set that is not known passes for an empty one.
ExploreSilently(c) ==
    /\ c # target
    /\ visited' = visited \cup {c}
    /\ backlog' = (backlog \cup (IF IsQSet(qsets[c]) THEN forAllNodes(qsets[c]) ELSE {}))
                    \ visited'
    /\ res' = IF qsets[c] = NoStatement THEN "TB_MAYBE" ELSE res
    /\ UNCHANGED <<qsets, target, done>>

Explore(c) ==
    /\ c # target
    /\ visited' = visited \cup {c}
    /\ backlog' = (backlog \cup (IF IsQSet(qsets[c]) THEN forAllNodes(qsets[c]) ELSE {}))
                    \ visited'
    /\ res' = IF IsQSet(qsets[c]) THEN res ELSE "TB_MAYBE"
    /\ UNCHANGED <<qsets, target, done>>

NotFound ==
    /\ backlog = {} /\ done' = TRUE
    /\ UNCHANGED <<qsets, target, backlog, visited, res>>

Next ==
    /\ ~done
    /\ \/ \E c \in backlog : Found(c) \/ Explore(c)
       \/ NotFound

Spec == Init /\ [][Next]_vars

-----------------------------------------------------------------------------
(* Properties.                                                             *)

\* The local quorum set, where the network gives one that passes the test.
Local == qsets[LocalID]
LocalIsSane == IsQSet(Local) /\ isQuorumSetSane(Local, FALSE)

\* normalizeQSet changes neither the slices nor the v-blocking sets of a sane
\* quorum set, nor how many nodes have to fail to block it
\* (findClosestVBlocking), names the same nodes, and its result is sane and
\* normal: the local node (which normalizes) and its peers (which do not) read
\* one configuration alike.
NormalizeKeepsMeaning ==
    LocalIsSane =>
        LET q == normalizeQSet(Local)
        IN  /\ isQuorumSetSane(q, FALSE)
            /\ normalizeQSet(q) = q
            /\ forAllNodes(q) = forAllNodes(Local)
            /\ \A S \in SUBSET Node :
                  /\ isQuorumSlice(q, S) = isQuorumSlice(Local, S)
                  /\ isVBlocking(q, S) = isVBlocking(Local, S)
                  /\ Len(findClosestVBlocking(q, S, {}))
                        = Len(findClosestVBlocking(Local, S, {}))

\* The loop of isQuorum, which drops nodes until nothing changes, answers
\* TRUE exactly when some set of the given nodes holds a slice of the local
\* node and of each of its members.
LoopFindsQuorum ==
    IsQSet(Local) =>
        LET slices == [n \in Node |->
                         IF IsQSet(qsets[n])
                         THEN {U \in SUBSET Node : isQuorumSlice(qsets[n], U)} ELSE {}]
        IN  \A S \in SUBSET Node :
                isQuorumLoop(slices[LocalID], slices, S)
                    = isQuorum(slices[LocalID], slices, S)

\* The nodes that the local node depends on, step by step.
Reachable ==
    LET step(R) == R \cup UNION {forAllNodes(qsets[n]) : n \in {m \in R : IsQSet(qsets[m])}}
        reach[k \in 0..Cardinality(Node)] ==
            IF k = 0 THEN {LocalID} ELSE step(reach[k - 1])
    IN  reach[Cardinality(Node)]

\* isNodeInQuorum answers TRUE for the nodes that the local node depends on
\* directly or not, FALSE only when every quorum set on the way was known,
\* in whatever order it takes the nodes.
SearchDecides ==
    done => res = IF target \in Reachable THEN "TB_TRUE"
                  ELSE IF \A n \in Reachable : IsQSet(qsets[n]) THEN "TB_FALSE"
                  ELSE "TB_MAYBE"
=============================================================================
