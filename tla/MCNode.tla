------------------------------- MODULE MCNode -------------------------------
(***************************************************************************)
(* The parts of a node that consensus rests on, for TLC.  None of them     *)
(* shares state with another one, so a behaviour picks a part, runs it and *)
(* leaves the others in an initial state: `part' says which one runs.      *)
(***************************************************************************)
EXTENDS QuorumSetUtils, BucketStore, BucketManager, BucketApply, Catchup,
        LedgerDelta, TLC

VARIABLE part

-----------------------------------------------------------------------------
(* Quorum sets: flat, nested and wrapped ones, some that fail the sanity   *)
(* test, over four nodes.                                                  *)

CONSTANTS n1, n2, n3, n4

Four == {n1, n2, n3, n4}

Flat(vs) == {QSet(t, vs, << >>) : t \in 1..Len(vs)}
Pairs    == Flat(<<n2>>) \cup Flat(<<n2, n3>>) \cup Flat(<<n3, n4>>)
Lists    == {<< >>, <<n1>>, <<n1, n1>>, <<n1, n2>>}
Wrapped  == {QSet(1, << >>, <<q>>) : q \in Pairs}
Inners   == {<< >>} \cup {<<q>> : q \in Pairs \cup Wrapped}
              \cup {<<q, r>> : q \in Pairs, r \in Flat(<<n4>>) \cup Flat(<<n1, n4>>)}

\* Every threshold, those out of range included.
Locals(thresholds, lists) == {QSet(t, v, i) : t \in thresholds, v \in lists, i \in Inners}

Others == {NoStatement, NoQSet, QSet(1, <<n3>>, << >>), QSet(2, <<n2, n3>>, << >>),
           QSet(1, <<n4>>, <<QSet(2, <<n1, n2>>, << >>)>>)}

Silent == [n \in Four |-> NoStatement]

Network(q, r, s) == [n \in Four |-> IF n = n1 THEN q ELSE IF n = n2 THEN r
                                    ELSE IF n = n3 THEN s ELSE NoStatement]

FourNetworks ==
    {Silent} \cup {Network(q, NoStatement, NoQSet) : q \in Locals(0..3, Lists)}
      \cup {Network(q, r, s) : q \in Locals({2}, {<<n1>>, <<n1, n2>>}),
                              r \in Others, s \in {NoQSet, QSet(1, <<n4>>, << >>)}}

-----------------------------------------------------------------------------
(* Buckets: the network also changes an entry of its own in every ledger.  *)

Busy(n) == {n + 100}

-----------------------------------------------------------------------------
(* The behaviours.                                                         *)

Parts == {"quorum", "store", "manager", "apply", "catchup", "delta"}

\* A part that does not run is in one of its initial states.
NodeInit ==
    /\ part \in Parts
    /\ Init     /\ (part # "quorum"  => qsets = Silent /\ target = n1)
    /\ StoreInit /\ ManagerInit /\ ApplyInit
    /\ CatchupInit /\ (part # "catchup" => /\ cu.count = 0 /\ cu.lcl.seq = 1
                                           /\ cu.states = "net"
                                           /\ \A c \in CheckpointSet : cu.files[c] = "net")
    /\ DeltaInit   /\ (part # "delta"   => \A k \in EntryKey : ld.db[k] = NoEntry)

NodeNext ==
    /\ UNCHANGED part
    /\ \/ part = "quorum"  /\ Next        /\ UNCHANGED <<bs, bm, ba, cu, ld>>
       \/ part = "store"   /\ StoreNext   /\ UNCHANGED <<vars, bm, ba, cu, ld>>
       \/ part = "manager" /\ ManagerNext /\ UNCHANGED <<vars, bs, ba, cu, ld>>
       \/ part = "apply"   /\ ApplyNext   /\ UNCHANGED <<vars, bs, bm, cu, ld>>
       \/ part = "catchup" /\ CatchupNext /\ UNCHANGED <<vars, bs, bm, ba, ld>>
       \/ part = "delta"   /\ DeltaNext   /\ UNCHANGED <<vars, bs, bm, ba, cu>>

NodeSpec == NodeInit /\ [][NodeNext]_<<part, vars, bs, bm, ba, cu, ld>>
=============================================================================
