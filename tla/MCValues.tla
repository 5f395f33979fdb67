------------------------------ MODULE MCValues ------------------------------
(***************************************************************************)
(* Instances of Values for TLC.                                            *)
(***************************************************************************)
EXTENDS Values, TLC

Step(t, x) == [type |-> t, to |-> x]

\* The node wants two upgrades; others may want another first one.
Wanted   == <<2, 2>>
SomeUpgrades == {Step(1, 1), Step(1, 2), Step(2, 2)}

\* A set for each ledger, and two larger ones of which one is not valid.
SetOn(prev, size, sound) == [prev |-> prev, size |-> size, sound |-> sound]
SomeTxSets ==
    {SetOn(1, 1, TRUE), SetOn(2, 1, TRUE), SetOn(3, 1, TRUE),
     SetOn(1, 2, TRUE), SetOn(1, 2, FALSE)}
=============================================================================
