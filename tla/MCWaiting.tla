----------------------------- MODULE MCWaiting -----------------------------
(***************************************************************************)
(* What has to end, for TLC: fetching the items of statements, work with   *)
(* its retries and processes, and nomination.  The three share no state; a *)
(* behaviour runs one of them while the others rest.                       *)
(***************************************************************************)
EXTENDS MCHerder, MCNomination, Work

VARIABLE part

\* A root that makes its children anew when it is reset, first a check of
\* what there is, then a parent of two commands; and a command of its own.
CONSTANTS root, check, parent, cmd1, cmd2, lone

Units      == {root, check, parent, cmd1, cmd2, lone}
UnitParent == root :> Manager @@ check :> root @@ parent :> root @@ cmd1 :> parent
                @@ cmd2 :> parent @@ lone :> Manager
Order      == <<check, cmd1, cmd2, parent, root, lone>>
UnitPhases == root :> <<{check}, {parent}>> @@ check :> <<{}, {}>>
                @@ parent :> <<{cmd1, cmd2}>> @@ cmd1 :> <<{}>> @@ cmd2 :> <<{}>>
                @@ lone :> <<{}>>
Retries    == root :> 1 @@ check :> 0 @@ parent :> 0 @@ cmd1 :> 1 @@ cmd2 :> 0 @@ lone :> 0

\* A slot that nobody nominates any more.
Decided == [n \in Node |-> [InitNomination(n) EXCEPT !.round = 1]]

WaitInit ==
    /\ Init
    /\ \/ part = "fetch"    /\ wk = NoWork /\ nom = Decided
       \/ part = "work"     /\ WorkInit    /\ nom = Decided
       \/ part = "nominate" /\ wk = NoWork /\ NominationInit

WaitNext ==
    /\ UNCHANGED part
    /\ \/ part = "fetch"    /\ Next           /\ UNCHANGED <<wk, nom>>
       \/ part = "work"     /\ WorkNext       /\ UNCHANGED <<vars, nom>>
       \/ part = "nominate" /\ NominationNext /\ UNCHANGED <<vars, wk>>

WaitSpec == /\ WaitInit /\ [][WaitNext]_<<part, vars, wk, nom>>
            /\ FetchFairness /\ WorkFairness /\ NominationFairness
=============================================================================
