--------------------------- MODULE CandidateSource --------------------------
(***************************************************************************)
(* What the ballot protocol expects of nomination: each node is handed     *)
(* composite values, one after the other, along allowed steps, and starts  *)
(* from none after a restart.                                              *)
(***************************************************************************)
CONSTANTS
    Node,
    CandidateSteps   \* CandidateSteps[n]: pairs <<u, v>>, composite u may become v

VARIABLE candidate   \* candidate[n]: the composite value n was last given, or 0

Init == candidate = [n \in Node |-> 0]

Updated(n) ==
    \E v \in {step[2] : step \in CandidateSteps[n]} :
        /\ <<candidate[n], v>> \in CandidateSteps[n]
        /\ candidate' = [candidate EXCEPT ![n] = v]

Forgotten(n) == candidate' = [candidate EXCEPT ![n] = 0]

Next == \E n \in Node : Updated(n) \/ Forgotten(n)

Spec == Init /\ [][Next]_candidate
=============================================================================
