------------------------------ MODULE MCHerder ------------------------------
(***************************************************************************)
(* Instances of Herder for TLC.                                            *)
(***************************************************************************)
EXTENDS Herder, TLC

CONSTANTS p1, p2, q0, q1, bad, t2, t3, t4, none

Env(n, q, t, x) == [slot |-> n, qset |-> q, txsets |-> {t}, ext |-> x]

\* Statements that decide slots 2 and 3 and share a quorum set.
Sharing == {Env(2, q1, t2, TRUE), Env(3, q1, t3, TRUE)}
SharedItems == {q0, q1, t2, t3}

\* Another one with an insane quorum set and a transaction set of its own.
Window == Sharing \cup {Env(3, bad, t4, FALSE)}
WindowItems == SharedItems \cup {bad, t4}

\* An insane quorum set comes with a transaction set that others need.
Tainted == {Env(3, bad, t3, FALSE), Env(3, q0, t3, TRUE)}
TaintedItems == {q0, bad, t3}

\* Two statements of one slot.
Twice == {Env(2, q1, t2, FALSE), Env(2, q0, t2, TRUE)}
TwiceItems == {q0, q1, t2}

\* One peer, or two of which the one that is asked first lacks an item.
One == <<p1>>
OneHolds == (p1 :> WindowItems)
Two == <<p2, p1>>
TwoHolds == (p1 :> {t2}) @@ (p2 :> TwiceItems)

\* This node builds the transaction set that the others do.
Own == (1 :> t2) @@ (2 :> t2) @@ (3 :> t3)
=============================================================================
