------------------------------ MODULE TxQueue ------------------------------
(***************************************************************************)
(* The transactions a node has pending, the set it proposes from them, and *)
(* what closing a ledger with an agreed set does to accounts and queue.    *)
(*                                                                         *)
(* Models TxSetFrame.cpp, the pending transactions of HerderImpl.cpp       *)
(* (recvTransaction, removeReceivedTxs, triggerNextLedger,                 *)
(* updatePendingTransactions), commonValid and processFeeSeqNum of         *)
(* TransactionFrame.cpp and processFeesSeqNums.  A transaction has one     *)
(* operation; whether its time bounds, signatures and operation are valid  *)
(* depends on the last closed ledger only and is the set refused.  A       *)
(* transaction set is a set: every operation leaves it sorted by hash.     *)
(***************************************************************************)
EXTENDS Integers, FiniteSetsExt, SequencesExt

CONSTANTS Tx,           \* transactions: [source, seq, fee]
          Fragile,      \* those that may be refused for reasons of their own
          Balances,     \* bound: what an operation leaves an account with
          Reserve,      \* the minimum balance
          BaseFees,     \* base fees that upgrades choose from
          MaxTxSetSizes \* set sizes that upgrades choose from

ASSUME TxAssumption ==
    \A tx \in Tx : tx.source \in Nat /\ tx.seq \in Nat \ {0} /\ tx.fee \in Nat \ {0}

VARIABLE tq

Sources == {tx.source : tx \in Tx}
Of(txs, a) == {tx \in txs : tx.source = a}
TotalFees(txs) == MapThenSumSet(LAMBDA tx : tx.fee, txs)
MaxSeqOf(txs) == Max({0} \cup {tx.seq : tx \in txs})
Gone == [balance |-> 0, seq |-> 0]

(***************************************************************************)
(* Transactions                                                            *)
(***************************************************************************)

\* TransactionFrame::checkValid and commonValid, not applying.  current is
\* the sequence number before the transaction's, 0 for the account's own.
checkValid(q, tx, current) ==
    LET account == q.accounts[tx.source]
    IN  /\ tx.fee >= q.baseFee
        /\ account # Gone
        /\ tx.seq = 1 + IF current = 0 THEN account.seq ELSE current
        /\ tx \notin q.refused
        /\ account.balance - tx.fee >= Reserve

\* processFeeSeqNum on [accounts, ok]: the fee is taken, as far as there is
\* balance, and the sequence number set; it throws when that is not next.
processFeeSeqNum(r, tx) ==
    LET account == r.accounts[tx.source]
    IN  IF account = Gone \/ account.seq + 1 # tx.seq THEN [r EXCEPT !.ok = FALSE]
        ELSE [r EXCEPT !.accounts[tx.source].balance = @ - Min({@, tx.fee}),
                       !.accounts[tx.source].seq = tx.seq,
                       !.full = @ /\ tx.fee <= account.balance]

(***************************************************************************)
(* TxSetFrame                                                              *)
(***************************************************************************)

\* The loop that trimInvalid and checkValid share: the transactions of an
\* account that are valid one after the other, by sequence number.
inSequence(q, txs) ==
    LET valid[s \in 0 .. MaxSeqOf(txs)] ==
            IF s = 0 THEN {}
            ELSE LET next == {tx \in txs : tx.seq = s
                                /\ checkValid(q, tx, MaxSeqOf(valid[s - 1]))}
                 IN  valid[s - 1] \cup IF next = {} THEN {}
                                       ELSE {CHOOSE tx \in next : TRUE}
    IN  valid[MaxSeqOf(txs)]

canPay(q, a, txs) ==
    txs # {} => q.accounts[a].balance - TotalFees(txs) >= Reserve

\* What trimInvalid leaves of a set.
trimInvalid(q, txs) ==
    UNION {LET valid == inSequence(q, Of(txs, a))
           IN  IF canPay(q, a, valid) THEN valid ELSE {} : a \in Sources}

checkTxSet(q, txs) ==
    /\ Cardinality(txs) <= q.maxTxSetSize
    /\ \A a \in Sources : /\ inSequence(q, Of(txs, a)) = Of(txs, a)
                          /\ canPay(q, a, Of(txs, a))

\* SurgeSorter: accounts whose lowest fee is higher come first; the
\* transactions of an account stay together, by sequence number.
surgeBefore(txs, tx1, tx2) ==
    LET fee(a) == Min({tx.fee : tx \in Of(txs, a)})
    IN  IF tx1.source = tx2.source THEN tx1.seq < tx2.seq
        ELSE IF fee(tx1.source) = fee(tx2.source) THEN tx1.source < tx2.source
        ELSE fee(tx1.source) > fee(tx2.source)

\* Wrong: each transaction competes with its own fee.
surgePricingFilterByFee(q, txs) ==
    LET before(t, tx) == IF t.fee = tx.fee THEN surgeBefore(txs, t, tx) ELSE t.fee > tx.fee
    IN  {tx \in txs : Cardinality({t \in txs : before(t, tx)}) < q.maxTxSetSize}

surgePricingFilter(q, txs) ==
    {tx \in txs : Cardinality({t \in txs : surgeBefore(txs, t, tx)}) < q.maxTxSetSize}

\* The orders sortForApply may give: batch i has the i-th transaction of
\* every account, in an order that depends on the hashes.
sortForApply(txs) ==
    LET batch(tx) == Cardinality({t \in Of(txs, tx.source) : t.seq < tx.seq})
    IN  {order \in SetToSeqs(txs) :
            \A i \in DOMAIN order : \A j \in 1 .. i : batch(order[j]) <= batch(order[i])}

processFeesSeqNums(accounts, order) ==
    FoldLeft(processFeeSeqNum, [accounts |-> accounts, ok |-> TRUE, full |-> TRUE], order)

(***************************************************************************)
(* The pending transactions of HerderImpl: four maps, the newest first.    *)
(* The TxMap of an account keeps its highest sequence number and total     *)
(* fees, which addTx and recalculate make those of its transactions.       *)
(***************************************************************************)
Pending(q) == UNION {q.pending[i] : i \in 1 .. 4}

removeReceivedTxs(q, txs) == [q EXCEPT !.pending = [i \in 1 .. 4 |-> @[i] \ txs]]

recvTransaction(q, tx) ==
    LET mine == Of(Pending(q), tx.source)
        account == q.accounts[tx.source]
    IN  IF /\ tx \notin mine
           /\ checkValid(q, tx, MaxSeqOf(mine))
           /\ Max({0, account.balance - Reserve}) >= tx.fee + TotalFees(mine)
        THEN [q EXCEPT !.pending[1] = @ \cup {tx}]
        ELSE q

\* triggerNextLedger up to the nomination.
triggerNextLedger(q, trimmed, proposed) ==
    [removeReceivedTxs(q, Pending(q) \ trimmed)
        EXCEPT !.failure = IF checkTxSet(q, proposed) THEN @ ELSE "invalid txSet"]

updatePendingTransactions(q, applied) ==
    [removeReceivedTxs(q, applied)
        EXCEPT !.pending = <<{}>> \o SubSeq(@, 1, 3)]

(***************************************************************************)
(* The behaviour                                                           *)
(***************************************************************************)
QueueInit ==
    \E balances \in [Sources -> Balances], fee \in BaseFees, size \in MaxTxSetSizes :
        tq = [accounts |-> [a \in Sources |-> [balance |-> balances[a], seq |-> 0]],
              pending |-> <<{}, {}, {}, {}>>, refused |-> {}, baseFee |-> fee,
              maxTxSetSize |-> size, failure |-> "none"]

RecvTransaction ==
    /\ tq.failure = "none"
    /\ \E tx \in Tx : tq' = recvTransaction(tq, tx)

ProposeTxSet ==
    LET trimmed == trimInvalid(tq, Pending(tq))
    IN  /\ tq.failure = "none"
        /\ tq' = triggerNextLedger(tq, trimmed, surgePricingFilter(tq, trimmed))

\* What a ledger may change besides fees: a balance, by an operation; an
\* account, merged or created with a sequence number above those it had;
\* the parameters, by upgrades; which transactions have become valid or not.
Effects(q, accounts) ==
    \/ \E a \in Sources :
       \E account \in {accounts[a], Gone} \cup
                      [balance : Balances,
                       seq : IF accounts[a] = Gone THEN 0 .. MaxSeqOf(Of(Tx, a))
                             ELSE {accounts[a].seq}] :
          tq' = [q EXCEPT !.accounts = [accounts EXCEPT ![a] = account]]
    \/ \E fee \in BaseFees, size \in MaxTxSetSizes, refused \in SUBSET Fragile :
          tq' = [q EXCEPT !.accounts = accounts, !.refused = refused,
                          !.baseFee = fee, !.maxTxSetSize = size]

\* The network agrees on a set that its nodes find valid, this node's or
\* another's, and the ledger is closed with it.
LedgerClosed ==
    /\ tq.failure = "none"
    /\ \E txs \in SUBSET Tx :
          /\ checkTxSet(tq, txs)
          /\ \E r \in {processFeesSeqNums(tq.accounts, order) : order \in sortForApply(txs)} :
                IF ~r.ok \/ ~r.full
                THEN tq' = [tq EXCEPT !.failure = "fees"]
                ELSE Effects(updatePendingTransactions(tq, txs), r.accounts)

QueueNext == RecvTransaction \/ ProposeTxSet \/ LedgerClosed

QueueSpec == QueueInit /\ [][QueueNext]_tq

(***************************************************************************)
(* Properties                                                              *)
(***************************************************************************)

\* triggerNextLedger never throws "wanting to emit an invalid txSet": what
\* trimInvalid and the surge pricing leave of the pending transactions is
\* valid as a set.  And a set that is valid closes in every order that
\* sortForApply can give: processFeeSeqNum never throws "Unexpected account
\* state" and every fee is paid in full.
TxSetsAreSound == tq.failure = "none"
=============================================================================
