----------------------------- MODULE LocalNode -----------------------------
(***************************************************************************)
(* Quorum sets and the predicates the protocols evaluate over them         *)
(* (src/src/scp/LocalNode.cpp).  A quorum set is a record                  *)
(*    [threshold, validators, innerSets]                                   *)
(* of a number, a sequence of nodes and a sequence of quorum sets.  Sane   *)
(* quorum sets nest at most two levels below the root, so the recursion of *)
(* the code is unrolled.                                                   *)
(***************************************************************************)
EXTENDS Integers, Sequences, FiniteSets

QSet(t, v, i) == [threshold |-> t, validators |-> v, innerSets |-> i]

\* buildSingletonQSet: the quorum set {1, {n}} that an EXTERNALIZE
\* statement stands for.
buildSingletonQSet(n) == QSet(1, <<n>>, << >>)

(***************************************************************************)
(* Slices and v-blocking sets.  Both loops count the validators found in   *)
(* nodeSet and the inner sets that satisfy the same test, and answer TRUE  *)
(* when the count reaches a target.  A threshold of 0 is never reached:    *)
(* the unsigned counter of isQuorumSliceInternal wraps at the first hit.   *)
(***************************************************************************)
Hits(q, nodeSet, Inner(_)) ==
    Cardinality({k \in DOMAIN q.validators : q.validators[k] \in nodeSet})
        + Cardinality({k \in DOMAIN q.innerSets : Inner(q.innerSets[k])})

Entries(q) == Len(q.validators) + Len(q.innerSets)

SliceTest(q, nodeSet, Inner(_)) ==
    q.threshold # 0 /\ Hits(q, nodeSet, Inner) >= q.threshold

SliceDepth2(q, nodeSet) == SliceTest(q, nodeSet, LAMBDA i : FALSE)
SliceDepth1(q, nodeSet) ==
    SliceTest(q, nodeSet, LAMBDA i : SliceDepth2(i, nodeSet))

isQuorumSlice(q, nodeSet) ==
    SliceTest(q, nodeSet, LAMBDA i : SliceDepth1(i, nodeSet))

VBlockingTest(q, nodeSet, Inner(_)) ==
    /\ q.threshold # 0
    /\ Hits(q, nodeSet, Inner) >= 1
    /\ Hits(q, nodeSet, Inner) >= 1 + Entries(q) - q.threshold

VBlockingDepth2(q, nodeSet) == VBlockingTest(q, nodeSet, LAMBDA i : FALSE)
VBlockingDepth1(q, nodeSet) ==
    VBlockingTest(q, nodeSet, LAMBDA i : VBlockingDepth2(i, nodeSet))

isVBlocking(q, nodeSet) ==
    VBlockingTest(q, nodeSet, LAMBDA i : VBlockingDepth1(i, nodeSet))

(***************************************************************************)
(* The nodes of a quorum set, and the share of its slices a node is in,    *)
(* scaled to most: the first entry that names the node decides.            *)
(***************************************************************************)
NodesOf(q, Inner(_)) ==
    {q.validators[k] : k \in DOMAIN q.validators}
        \cup UNION {Inner(q.innerSets[k]) : k \in DOMAIN q.innerSets}

NodesDepth2(q) == NodesOf(q, LAMBDA i : {})
NodesDepth1(q) == NodesOf(q, LAMBDA i : NodesDepth2(i))
forAllNodes(q) == NodesOf(q, LAMBDA i : NodesDepth1(i))

Weight(n, q, most, Inner(_)) ==
    LET in == {k \in DOMAIN q.innerSets : Inner(q.innerSets[k]) # 0}
        first == CHOOSE k \in in : \A j \in in : k <= j
    IN  IF \E k \in DOMAIN q.validators : q.validators[k] = n
        THEN (most * q.threshold) \div Entries(q)
        ELSE IF in = {} THEN 0
        ELSE (Inner(q.innerSets[first]) * q.threshold) \div Entries(q)

WeightDepth2(n, q, most) == Weight(n, q, most, LAMBDA i : 0)
WeightDepth1(n, q, most) == Weight(n, q, most, LAMBDA i : WeightDepth2(n, i, most))
getNodeWeight(n, q, most) == Weight(n, q, most, LAMBDA i : WeightDepth1(n, i, most))

(***************************************************************************)
(* isQuorum: the loop drops, until nothing changes, the nodes whose own    *)
(* quorum set (slices[n], the slices of qfun, none when qfun has no        *)
(* answer) has no slice among the nodes that are left, and then asks for a *)
(* slice of the local node.                                                *)
(***************************************************************************)
\* Wrong: a node is judged by the nodes it started with, not those left.
DropUnsatisfiedOnce(nodes, slices) == {n \in nodes : \E U \in slices[n] : n \in U}

DropUnsatisfied(nodes, slices) == {n \in nodes : nodes \in slices[n]}

isQuorumLoop(local, slices, pNodes) ==
    LET left[k \in 0..Cardinality(pNodes)] ==
            IF k = 0 THEN pNodes ELSE DropUnsatisfied(left[k - 1], slices)
    IN  left[Cardinality(pNodes)] \in local

\* What the loop decides: some closed set of the nodes holds a local slice.
isQuorum(local, slices, pNodes) ==
    \E U \in SUBSET pNodes :
        /\ U \in local
        /\ \A n \in U : U \in slices[n]
=============================================================================
