---------------------------- MODULE MCNomination ----------------------------
(***************************************************************************)
(* Instances of NominationProtocol for TLC.                                *)
(***************************************************************************)
EXTENDS NominationProtocol, TLC

CONSTANTS n1, n2, n3

\* Three nodes in a row: n1 and n3 are connected to n2 only, and trust it and
\* themselves.  Only n3 finds value 3 valid; the others take 1 from it.
Trio == {n1, n2, n3}
TrioQSet ==
    (n1 :> QSet(2, <<n1, n2>>, << >>)) @@ (n2 :> QSet(2, <<n1, n2, n3>>, << >>))
        @@ (n3 :> QSet(2, <<n2, n3>>, << >>))
TrioHears == (n1 :> {n2}) @@ (n2 :> {n1, n3}) @@ (n3 :> {n2})
TrioProposal == (n1 :> 1) @@ (n2 :> 2) @@ (n3 :> 3)
TrioValid ==
    [n \in Trio |-> [v \in Value |->
        IF v = 3 /\ n # n3 THEN "kInvalidValue" ELSE "kFullyValidatedValue"]]
TrioExtract == [n \in Trio |-> [v \in Value |-> IF v = 3 THEN 1 ELSE 0]]

\* The composite is the largest candidate.
Largest == [S \in (SUBSET Value) \ {{}} |-> CHOOSE v \in S : \A w \in S : w <= v]
Rising  == [n \in Trio |-> {<<u, v>> \in (0..MaxValue) \X Value : u < v}]

\* n3 leads round 1 (n2, to n1 that does not trust n3); n2 leads round 2, in
\* which n1 and n3 are not lucky.
TrioHash == << [n \in Trio |-> 10], (n1 :> 100) @@ (n2 :> 65) @@ (n3 :> 100) >>
TrioPriority == << (n1 :> 5) @@ (n2 :> 6) @@ (n3 :> 7), (n1 :> 5) @@ (n2 :> 6) @@ (n3 :> 7) >>
TrioHashValue == << [v \in Value |-> v], [v \in Value |-> 10 - v] >>
First == {n1}
TrioRestarts == [n \in Trio |-> IF n = n1 THEN 1 ELSE 0]
=============================================================================
