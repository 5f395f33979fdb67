---------------------------- MODULE MCNetwork -----------------------------
(***************************************************************************)
(* What a node has to do with the other nodes, for TLC: the statements its *)
(* herder takes in, the values it proposes and combines, the transactions  *)
(* it keeps, what their operations do, and its connections.  The five      *)
(* share no state; a behaviour runs one of them while the others rest.     *)
(***************************************************************************)
EXTENDS MCHerder, MCValues, TxQueue, Operations, Overlay, TLC

VARIABLE part

-----------------------------------------------------------------------------
(* Transactions of two accounts, with two candidates for one sequence      *)
(* number and a later one that pays more than the first.                   *)

T(a, s, f) == [source |-> a, seq |-> s, fee |-> f]
Txs        == {T(1, 1, 1), T(1, 2, 1), T(1, 2, 2), T(2, 1, 2)}
TxsAtRisk  == {T(1, 2, 1)}

-----------------------------------------------------------------------------
(* Connections: two nodes that dial each other, once with a failure and    *)
(* once with a node that also dials itself and one that shuts down; a node *)
(* that two others dial, one of which it prefers.                          *)

Books(a, b, c) == 1 :> a @@ 2 :> b @@ 3 :> c

Mutual   == [book |-> Books({2}, {1}, {}), links |-> 3, failures |-> 1, stops |-> {}]
Stopping == [book |-> Books({1, 2}, {1}, {}), links |-> 2, failures |-> 2, stops |-> {1}]
FanIn    == [book |-> Books({}, {1}, {1}), links |-> 3, failures |-> 0, stops |-> {}]

Scenarios == {Mutual, Stopping, FanIn}
Preferring == Books({3}, {3}, {3})
Refusing   == Books({}, {}, {2})

-----------------------------------------------------------------------------
(* Operations on ledgers with two credits, one of them issued by an        *)
(* account that trades: a market of three offers, once with an issuer that *)
(* can revoke trust, and a ledger with one offer that goes a step further. *)

Issuers == [C |-> "I", D |-> "A"]

Holder(balance, subs) == [NewAccount(balance) EXCEPT !.subs = subs]
Line(balance, limit)  == [balance |-> balance, limit |-> limit, authorized |-> TRUE]

Sale(id, seller, selling, buying, amount, price) ==
    [id |-> id, seller |-> seller, selling |-> selling, buying |-> buying,
     amount |-> amount, price |-> price, passive |-> FALSE]

Market ==
    [accounts |-> ("I" :> Holder(4, 0)) @@ ("A" :> Holder(9, 2)) @@ ("B" :> Holder(8, 4)),
     lines    |-> (<<"A", "C">> :> Line(5, 9)) @@ (<<"B", "C">> :> Line(4, 6))
                    @@ (<<"B", "D">> :> Line(0, 5)),
     offers   |-> {Sale(1, "B", "C", "X", 3, Price(3, 2)),
                   Sale(2, "B", "X", "D", 3, Price(2, 3)),
                   Sale(3, "A", "D", "C", 4, Price(1, 1))},
     header   |-> [totalCoins |-> 22, feePool |-> 1, idPool |-> 3, baseReserve |-> 1],
     issued   |-> [C |-> 9, D |-> 0],
     code |-> "success", fair |-> TRUE, left |-> 2]

Revocable == [Market EXCEPT !.accounts["I"].flags = {"required", "revocable"}]

OneOffer ==
    [Market EXCEPT !.accounts = ("I" :> Holder(8, 0)) @@ ("B" :> Holder(9, 2)),
                   !.lines = <<"B", "C">> :> Line(4, 6),
                   !.offers = {Sale(1, "B", "C", "X", 4, Price(3, 2))},
                   !.header.totalCoins = 18, !.header.idPool = 1,
                   !.issued = [C |-> 4, D |-> 0], !.left = 3]

SmallLedgers == {Market, Revocable, OneOffer}

Exchanges == {<<"X", "C">>, <<"C", "X">>, <<"X", "D">>, <<"D", "C">>}
Prices    == {Price(3, 2), Price(2, 3)}

PaymentPaths ==
    {[send |-> "X", path |-> <<>>, dest |-> "C"], [send |-> "C", path |-> <<>>, dest |-> "X"],
     [send |-> "C", path |-> <<"D">>, dest |-> "X"]}

NoOption == [dest |-> {}, clear |-> {}, set |-> {}, add |-> {}, remove |-> {}]

SomeOptions ==
    {[NoOption EXCEPT !.dest = {"A"}], [NoOption EXCEPT !.set = {"required", "revocable"}],
     [NoOption EXCEPT !.set = {"immutable"}], [NoOption EXCEPT !.add = {"key"}],
     [NoOption EXCEPT !.remove = {"key"}, !.clear = {"required"}]}

AQuarter == [n |-> 1, d |-> 4]
AFifth   == [n |-> 1, d |-> 5]

-----------------------------------------------------------------------------
(* The behaviours.                                                         *)

Parts == {"herder", "values", "queue", "operations", "overlay"}

NetworkInit ==
    /\ part \in Parts
    /\ Init
    /\ ValuesInit  /\ (part # "values"  => sv.header = Desired)
    /\ QueueInit   /\ (part # "queue"   => /\ tq.baseFee = 1
                                           /\ \A a \in Sources : tq.accounts[a].balance = 4)
    /\ OpsInit     /\ (part # "operations" => lg = OneOffer)
    /\ OverlayInit /\ (part # "overlay" => ov.left = Mutual)

NetworkNext ==
    /\ UNCHANGED part
    /\ \/ part = "herder"     /\ Next        /\ UNCHANGED <<sv, tq, lg, ov>>
       \/ part = "values"     /\ ValuesNext  /\ UNCHANGED <<vars, tq, lg, ov>>
       \/ part = "queue"      /\ QueueNext   /\ UNCHANGED <<vars, sv, lg, ov>>
       \/ part = "operations" /\ OpsNext     /\ UNCHANGED <<vars, sv, tq, ov>>
       \/ part = "overlay"    /\ OverlayNext /\ UNCHANGED <<vars, sv, tq, lg>>

NetworkSpec == NetworkInit /\ [][NetworkNext]_<<part, vars, sv, tq, lg, ov>>
=============================================================================
