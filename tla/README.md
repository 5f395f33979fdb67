# A TLA+ development of stellar-core

This directory models stellar-core in TLA+, from consensus down to operations,
buckets, history and connections, checks it with TLC on small instances and proves part of it with
TLAPS for networks of any size.
Paths below are relative to the repository; `scp/`, `herder/` ... are directories of
`src/src/`. `PROJECT.json` lists, for every definition, the source lines it
translates, and for every hazard the line where it bites.

Contents: 1 the system and what is modelled, 2 the modules and the code, 3 the
runs, 4 bounds, 5 fairness, 6 the proofs, 7 findings, 8 what is not modelled,
9 plan.

## 1. The system

A stellar-core process is single threaded: callbacks of sockets, timers and
posted functions run one after another on one io service; only bucket merges and
subprocesses run beside it. Nodes exchange messages over an overlay of TCP
connections that floods them.

| Part | Code | Role | Modelled by |
|---|---|---|---|
| Quorum sets | `scp/LocalNode.cpp`, `scp/QuorumSetUtils.cpp` | slices, v-blocking sets, quorums, transitive search, sanity, normal form | `LocalNode`, `QuorumSetUtils` |
| Ballot protocol | `scp/BallotProtocol.cpp` | agrees on one value for a slot | `BallotProtocol` |
| Nomination | `scp/NominationProtocol.cpp` | produces the values the ballots carry | `NominationProtocol`, `CandidateSource` |
| Slot, SCP | `scp/Slot.cpp`, `scp/SCP.cpp` | dispatch, federated voting, restart, purge | inside the three above and `Herder` |
| Herder | `herder/HerderImpl.cpp`, `HerderSCPDriver.cpp` | consensus state, slot life cycle, trigger of the next round | `Herder` |
| Values, upgrades | `herder/HerderSCPDriver.cpp`, `Upgrades.cpp` | what a node proposes, finds valid and combines; parameters of the network | `Values` |
| Pending envelopes | `herder/PendingEnvelopes.cpp` | envelopes wait for quorum sets and transaction sets | `Herder` |
| Pending transactions, transaction sets | `herder/HerderImpl.cpp`, `herder/TxSetFrame.cpp`, part of `transactions/TransactionFrame.cpp` | queue, propose, check, order and charge transactions | `TxQueue` |
| Item fetcher | `overlay/ItemFetcher.cpp`, `Tracker.cpp` | asks peers, one after the other, for an item | `ItemFetcher` |
| Peers, flooding | `overlay/Peer.cpp`, `TCPPeer.cpp`, `OverlayManagerImpl.cpp`, `Floodgate.cpp` | connections, handshake, limits, flooding | `Overlay` |
| Ledger manager | `ledger/LedgerManagerImpl.cpp` | closes ledgers, buffers while catching up | `LedgerManager` (as Herder sees it), `Catchup`, and the end of `closeLedger` in `BucketManager` |
| Ledger entries | `ledger/LedgerDelta.cpp`, `AccountFrame.cpp`, `TrustFrame.cpp`, `transactions/TransactionFrame.cpp` | nested changes, savepoints, the entry cache | `LedgerDelta` |
| Buckets | `bucket/` | the ledger's content as levels that spill and merge; their files | `BucketList`, `BucketStore`, `BucketManager` |
| History | `history/`, `historywork/` | queue and publish checkpoints | `BucketManager`, `Checkpoints` |
| Catchup | `catchup/` | verify and replay what was missed, or apply buckets | `Catchup`, `BucketApply` |
| Work, processes | `work/`, `process/`, `historywork/RunCommandWork.cpp` | trees of tasks with retries, subprocesses | `Work` |
| Operations | `transactions/*OpFrame.cpp`, `OfferExchange.cpp` | payments, offers, trust lines, accounts, inflation | `OfferExchange`, `Operations` |
| Invariants | `invariant/` | run-time checks of a closed ledger | their conditions are properties: `CoinsConserved`, `SubentriesCounted`, `CacheIsCurrent`, `ListAgreesWithDatabase` |
| Database, application, commands, crypto, clock, simulation | `database/`, `main/`, `crypto/`, `util/`, `simulation/` | storage, wiring, tools | not modelled (section 8) |

How the parts meet: envelopes arrive at the herder, wait in PendingEnvelopes until
the fetcher has what they name, go to SCP in slot order, and drive nomination and
ballots of their slot. Nomination hands composite values to the ballot protocol; an
externalized value goes to the ledger manager, which closes the ledger and tells the
herder, which purges old slots, processes what became ready, and sets the timer for
the next round. Closing a ledger charges and applies its transactions through a stack
of deltas, hands the changes to the bucket list, stores the list's state, queues a
checkpoint now and then, commits, publishes and collects unused bucket files. A node
that missed ledgers runs a tree of work that downloads, verifies and replays them.

## 2. Modules and code

**LocalNode** has the operators every SCP module shares: `QSet(threshold,
validators, innerSets)`, `isQuorumSlice`, `isVBlocking`, `isQuorum` (the shrinking
fixpoint), weights and the closest v-blocking set. Threshold countdowns in unsigned
arithmetic are written as what they compute, zero thresholds included. The
quorum set of a statement is the node's set, or the singleton for EXTERNALIZE, as in
`Slot::getQuorumSetFromStatement`.

**QuorumSetUtils** adds `isQuorumSetSane`, `normalizeQSet` and a small state machine
for the transitive search of `LocalNode::isNodeInQuorum`, whose order of visits is
that of an unordered container and so is nondeterministic.

**BallotProtocol** models one slot at every node. `slot[n]` is a record with the
fields of the C++ classes (`mCurrentBallot` is `currentBallot`, ...); methods are
operators from record to record with their names. Three things differ in form:
* `advanceSlot` is recursive in the code: each `set*` method emits a statement that
  the node processes itself before the method returns. The record carries the call
  stack explicitly, one frame per active `advanceSlot`, with the next attempt as its
  `pc`. `AdvanceSlot(n)` is one attempt that does work, or one return. Nothing else
  happens in the network meanwhile (`NoneRunning`), because the node sends nothing
  before the outermost call returns and the other nodes' steps commute with it.
* `emitted` is the set of all statements a node ever sent. `ReceiveEnvelope` takes
  any of them, so statements are lost, duplicated and reordered at will. One that
  would be rejected changes nothing and is left out.
* exceptions and failed assertions set `failure`; the node then stands still (or is
  restarted). Assertions are active in the repository's builds.

`Restart(n)` rebuilds the record from the last statement sent
(`setStateFromEnvelope`), which the driver saves before it broadcasts. A value is a
number in the order in which the code compares values; counters are 32 bit numbers
whose maximum is a constant.

**NominationProtocol** has the same form: `nom[n]`, a stack of `emitNomination`
calls, rounds, leaders by hash and weight, votes, accepted values, candidates, the
composite, stop and restart. Hashes and priorities are constants. It is composed
with the ballot protocol through **CandidateSource**, the abstract specification of
what the ballot protocol expects of nomination (composites that follow
`CandidateSteps`; the same constant drives `UpdatedCandidateValue` of
BallotProtocol): `FeedsBallotProtocol` is that refinement.

**Values** is the driver's side of nomination at one node, `sv`: its clock, last closed
ledger and close time, the parameters in the header, what it tracks, and the slot it
nominates with the values accepted and ratified so far. `validateValue`,
`extractValidValue` and `combineCandidates` are those of `HerderSCPDriver`, `isValid`,
`upgradesFor` and `applyTo` those of `Upgrades`, `proposal` is the value that
`triggerNextLedger` nominates. A value is a transaction set, a close time and a
sequence of upgrade steps. Which values get enough votes is up to the other nodes;
time passes, ledgers close with values this node need not have liked, it misses
ledgers, catches up and loses track in between. Whatever externalizes, the slot that
nominates is stopped (`stopNomination`): from then on its statements are only recorded,
which the model shows as no slot nominating.

**ItemFetcher**, **LedgerManager** and **Herder** model one node. The first two are
operators on parts of the record `h`; Herder composes them and has the actions. A
handler is again one operator, with the callbacks the code makes on the same call
stack: an item arrives, envelopes are sent again, one externalizes its slot, the
ledger closes, the next slot's envelopes are processed, another externalizes. SCP
itself is reduced to what the herder sees: an envelope marked `ext` is one that makes
its slot externalize. Peers answer, deny or lose requests; catchup applies history
and ends, well or not, between the handlers. `posted` holds the calls that the code
posts to the io service.

**TxQueue** is one node's queue of transactions `tq`: four generations of pending
ones, accounts with balance and sequence number, the network's base fee and maximum
set size. `RecvTransaction` is `recvTransaction`, `ProposeTxSet` the part of
`triggerNextLedger` that builds a set (trim, surge pricing, validity check),
`LedgerClosed` applies any valid set in any order `sortForApply` may give, charges it,
lets operations and upgrades change accounts and parameters, and ages the queue.

**LedgerDelta** is the close of a ledger seen from the entries: the database with the
savepoint of the transaction, the entry cache, and the stack of deltas (ledger,
transaction, apply, operation). An operation is any sequence of loads, additions,
changes and deletions that may fail or throw. `addEntry`, `deleteEntry`, `modEntry`,
`mergeEntries`, `commit`, `rollback` are the methods of the class.

**OfferExchange** has the state of the ledger as operations see it, `lg` (accounts
with balance, subentries, signers, data, flags and inflation destination; trust lines;
offers; header), the helpers of the entry frames (`getBalanceAboveReserve`,
`addNumEntries`, `getMaxAmountReceive`, `addBalance`, ...) and the crossing of offers:
`exchangeV3`, `crossOffer`, `convertWithOffers` with the two filters of its callers.
**Operations** adds `doApply` of every operation as an operator from ledger to ledger
(`manageOffer`, `pathPayment`, `payment`, `changeTrust`, `allowTrust`, `createAccount`,
`merge`, `setOptions`, `manageData`, `inflation`), fees, one-time signers and the
upgrade of the reserve, all for protocol version 9. The conditions of `doCheckValid`
restrict the arguments of the actions. A failed operation has a result code and
leaves the ledger alone, as LedgerDelta shows the rollback does; an exception whose
message says that the code is wrong (`Bugs`) stays in the field `code`. Two fields are
not in the code: `issued`, what the issuer of a credit gave out, and `fair`, which turns
FALSE when a seller gets less than its price.

**BucketList** has the pure part of `bucket/`: `levelShouldSpill`, `merge` with
shadows and dead entries, `addBatch`, and the states of a `FutureBucket` ("clear",
"inputs", "output") with `assumeState`. A bucket is a function from keys to
entries. Three modules use it:
* **BucketStore**: ledgers change entries, the node restarts; the list is compared
  with the database and with the list of a node that did not restart.
* **BucketManager**: bucket files, `mSharedBuckets`, merges on worker threads, the
  four steps at the end of `closeLedger` as three actions with a possible crash after
  each, the publish queue with its reference counts, the stages of publishing with
  their failures, and the restart from what was committed.
* **BucketApply**: `ApplyBucketsWork` with the arithmetic of which ledgers a level
  holds (`sizeOfCurr`, `oldestLedgerInCurr` ...), interrupted at any level, with part
  of a bucket committed (`BucketApplicator::advance` commits some entries at a time),
  and started over.

**Catchup** is the other half of the ledger manager: `valueExternalized`,
`historyCaughtup`, and a round of `CatchupWork` (range, verification checkpoint by
checkpoint, buckets, replay) while the network closes further ledgers and the node
misses some. Headers belong to the network's chain or to another one; archives may
hold either. **Checkpoints** has the arithmetic of checkpoints.

**Work** is the framework all of history and catchup runs on: a tree of units with
the states of `Work`, callbacks in one queue, `mScheduled`, retry timers, phases
(`onSuccess` that returns `WORK_PENDING` or `WORK_RUNNING`), and `RunCommandWork` over
the process manager with its limit, failures to start and shutdown.

**Overlay** has a list of links, each with a `Peer` record for either end: dialling
and accepting, HELLO and AUTH, sequence numbers, the tests for a second connection,
limits and eviction, errors, idle timers, shutdown; and the Floodgate's record of who
was told. The database of addresses is a set; an address in it may be dialled whenever
the node has fewer than its target number of peers.

**BallotFacts**, **BallotProtocolProofs**, **BallotHistoryProofs**, **BallotStepProofs**,
**BallotAgreementProofs**, **BallotSafetyProofs**, **NodeProofs** (nomination and
catchup) and **LedgerProofs** (deltas and buckets) hold the proofs of section 6 and model
nothing themselves.

**MCBallot**, **MCNomination**, **MCHerder**, **MCValues**, **MCNode**, **MCNetwork**
and **MCWaiting** hold the instances. In the last three a variable `part` chooses one of
several components that share no state; the others rest in an initial state.
MCBallot also has `SpecAtOnce`, in which a whole handler is one step, for properties
about states in which the network rests. Operators whose comment starts with
"Wrong:" are deliberately faulty variants of the definition that follows; nothing
uses them in the specifications. They show that the properties can fail.

## 3. Runs

| Run | Instance | What is checked |
|---|---|---|
| `ballot_pair` | two nodes that need each other, two values, every step of every handler | `PeersKnowState`, and under fairness `ExternalizeSpreads`, `Progress` |
| `ballot_hub` | three nodes, two quorums that share only the hub, competing values | `Agreement`, `CommitProtected` |
| `ballot_restart` | two nodes that stop and start again at any time | `NeverFails`, `PreparedOrder`, `EmitsOnlyNewer`, `CommitmentKept` |
| `ballot_hub_assert` | the hub network, the hub sees the other value later | `NoAssertionFails` is violated (section 7) |
| `ballot_follower_bump` | two validators and a follower | `NotBehindVBlocking` is violated (section 7) |
| `network` | (a) envelopes of two slots sharing a quorum set, one with an insane quorum set, one peer, lost track, catchup; (b) values with two kinds of upgrades, a clock, missed ledgers; (c) four transactions of two accounts that compete for a set of two; (d) ledgers with offers, trust lines and low balances, and two or three operations on them; (e) three nodes, up to three links, failures, a shutdown, a preferred peer | (a) `ReceivedStayComplete`, `FetchingIsAsked`, `TriggerIsNext`, `CurrentLedgerAdvances`; (b) `BuildsValidValues`; (c) `TxSetsAreSound`; (d) `CoinsConserved`, `SubentriesCounted`, `OffersHonored`, `ReserveKept`; (e) `OneLinkPerPeer`, `ToldMeansKnows` |
| `waiting` | (a) two peers of which one lacks an item, two statements of a slot; (b) a root with two phases, a parent of two commands, a lone command, one process at a time; (c) nomination by three nodes in a row, a value only its proposer finds valid, two rounds with different leaders, one node that may externalize or restart | (a) under fairness `FetchingEnds`; (b) `OneProcessPerCommand`, under fairness `RootsFinish`; (c) `CandidatesBacked`, `FeedsBallotProtocol`, under fairness `Converges` |
| `components` | (a) quorum sets over four nodes: flat, nested, wrapped, sane or not, every threshold; (b) three levels of buckets over forty ledgers; (c) bucket files with publishing and a crash; (d) applying buckets, interrupted; (e) catchup over three checkpoints; (f) two entries under deltas | (a) `NormalizeKeepsMeaning`, `LoopFindsQuorum`, `SearchDecides`; (b) `ListAgreesWithDatabase`, `RestartKeepsList`; (c) `StoredBucketsOnDisk`, `ArchiveComplete`; (d) `BucketsRebuildDatabase`; (e) `LclOnChain`, `SyncedMeansCurrent`, `HonestRoundsSucceed`; (f) `DeltaIsExact`, `CacheIsCurrent` |
| `herder_shared_item` | an insane quorum set comes with a transaction set that another envelope needs | `FetchingIsAsked` is violated (section 7) |
| `bucket_restart` | three levels of buckets, a restart while a merge runs | `RestartKeepsList` is violated (section 7) |
| `publish_queue` | two queued checkpoints that share a bucket, a restart | `QueuedBucketsOnDisk` is violated (section 7) |
| `extract_value` | values with up to two upgrade steps | `ExtractsValidValues` is violated (section 7) |

What the passing runs show, beyond what the comments at the properties say:
* `CommitProtected` is the reason behind `Agreement`: a ballot that was accepted as
  committed keeps every other value below it from being accepted as prepared. The hub
  network is the smallest in which two quorums meet in one node only.
* `EmitsOnlyNewer` and `CommitmentKept` hold over restarts although a PREPARE
  statement saves only the counters of h and c and not their values.
* `PeersKnowState` is about the nesting: of all the statements made inside a handler
  only the last is sent, and it is the state the node ends in.
* `TriggerIsNext` holds although the trigger is set inside nested `ledgerClosed`
  calls, because the outer call notices that the consensus index has moved.
* `ListAgreesWithDatabase` is about shadows: a merge drops entries because a younger
  level has them, while that level goes on changing until the merge is committed.
  `RestartKeepsList` passes in `components`, where all merges are complete when the
  node stops, and fails in `bucket_restart`, where they are not.
* `BucketsRebuildDatabase` needs the deletion of entries modified since the oldest
  ledger of a level and the arithmetic behind it, also when a first attempt was
  interrupted and the network has moved on.
* `HonestRoundsSucceed` names the one case in which a round with a correct archive
  fails; section 7 has it among the observations.
* `CacheIsCurrent`: the cache is not undone with a savepoint; it stays right because
  every delta that is dropped flushes the keys it touched, and a store flushes first.
* `ToldMeansKnows` covers the whole handshake: the Floodgate never tells a peer again,
  so every message it counts as sent has to be accepted at the other end.
* `TxSetsAreSound` holds although surge pricing may cut an account's transactions
  anywhere, because the cut keeps a prefix of each account's sequence.
* `BuildsValidValues` is about time: candidates are accepted one by one while the clock
  moves, and the composite takes its close time, its set and each upgrade from different
  ones. It stays valid because the latest close time is newer than the last closed one
  and allows the upgrades that an earlier one allowed, and the clock never goes back.
  It also says that `combineCandidates`, which copies the best transaction set without
  asking whether there is one, always has one: an accepted value builds on the last closed
  ledger, and that ledger moves only after `valueExternalized` has stopped the nomination.
  In a model whose missed ledgers leave the nomination open, a late statement after
  catchup ratifies a value that builds on an older ledger.
* `CoinsConserved` and `SubentriesCounted` hold although `ManageOfferOpFrame` stores an
  account that it loaded before the trade, because the trade stops at an offer of the
  source. `OffersHonored` includes that no exception "this would indicate a bug in
  OfferExchange" is thrown. `ReserveKept` covers trades: the seller's coins are limited
  by its reserve at the time its offer is taken, not when it was made.
* `RootsFinish` holds although a callback is dropped whenever another one of the same
  unit is scheduled.

## 4. Bounds

* Ballots: two values and timers that move nodes up to counter 2 (`BumpLimit`) let a
  node prepare one value, abandon it and commit the other, which is where p' and the
  clearing of c matter. `UINT32_MAX` is 5 so that the counters of EXTERNALIZE
  statements lie above all reachable ones and wrap if bumped. The recursion limit is
  the code's 50.
* In `ballot_hub` only the hub's timer goes past counter 1; it is the node that can
  change sides. In `ballot_restart` both nodes start with the smaller value, which
  keeps the number of lives unbounded within the state space.
* Nomination: `MaxRound` 2 gives every node a round in which its leader was silent,
  and one in which it takes over what the leader said. One node restarts once
  (`MaxRestarts`).
* Herder: `MAX_SLOTS_TO_REMEMBER` is 1, so that the window closes on live data within
  three slots (`MaxSlot`); `LEDGER_VALIDITY_BRACKET` keeps its 100 and never cuts
  off. The order in which the fetcher asks peers is fixed (`PeerOrder`); lost and
  negative answers already give every order of answers.
* Buckets: three levels instead of eleven; forty ledgers let level 2 commit a merge
  that level 1's spills started. With one key every entry that matters meets its own
  deletion and re-creation. For files, ledgers 8 to 11 with checkpoints every two
  ledgers (the code: 64) give two checkpoints, a spill and one crash (`MaxRestarts`);
  a command fails after at most `MaxSent` files. For applying, 19 ledgers reach a spill
  of level 1, two of them change the key and the others write a key of their own, as
  every ledger of a real network does (`OwnKey`).
* Catchup: checkpoints of four ledgers, the network closes up to ledger 11, so a round
  spans one to three checkpoints; `Counts` has minimal, recent and complete catchup.
* Deltas: two keys, two values; the number of ledgers, transactions and operations is
  not bounded.
* Transactions: four, with two candidates for one sequence number; balances of 3 and 4
  with a reserve of 1 make the last fee payable or not.
* Operations: behaviours start from three ledgers (`SmallLedgers`): a market of three
  offers in two credits and coins, one credit issued by an account that trades, with a
  line near its limit and balances near the reserve; the same with an issuer who can
  revoke trust; and a ledger with one offer. The field `left` lets two operations
  succeed in a market and three on the last one, enough to make an offer unfunded,
  unauthorized or one's own before it is crossed. Prices are 3/2 and 2/3, amounts 2, 3
  and 5, so that divisions round. `INT64_MAX` is 60: above all coins there are, as in
  the real network, and low enough for the unlimited side of a path payment or an
  issuer's line to be capped by `bigDivide`.
* Values: times up to 4, ledgers up to 3, at most two accepted values, a tolerance of
  one for clocks ahead, two types of upgrades with up to two steps in a value. Upgrades
  are due at time 3 (in `extract_value` also from the start), so the same step is valid
  with one close time and not with another.
* Overlay: three links let two nodes dial each other and again after a failure;
  `MAX_PEER_CONNECTIONS` is 2, so that a preferred peer has to evict one.
* Work: six units, one retry of the root and of one command, one process at a time.
* Symmetry is used only in runs without temporal properties about progress, and only
  for nodes whose quorum sets, values and bounds agree.

All runs finish within about three minutes; deadlock is not checked because a slot
that is decided, a search that ended, a node nobody talks to and a component at its
last ledger rest.

## 5. Fairness

For ballots, nomination and fetching the formulas spell out `ENABLED`, which TLC
evaluates slowly for these actions; Work uses `WF_`.
* Ballots and nomination: as long as a handler is unfinished, a sent statement would
  still be accepted by a peer, a candidate is to be produced or a timer may fire, one
  of these happens. The code justifies it: handlers terminate on one thread, the
  overlay floods and the herder rebroadcasts the last statements every two seconds
  (`HerderImpl::startRebroadcastTimer`), the timers are armed by the code. Stops and
  restarts are never required.
* Work: weak fairness of each kind of callback (the event loop runs what is posted),
  of every retry timer and of the end of every process; commands do end. A shutdown is
  never required.
* Fetching: a tracker's timer fires, and a peer that is asked for an item it holds
  infinitely often answers once. Losses are thus allowed, but not for ever.

## 6. Proofs

TLAPS checks the theorems below for every value of the constants: any set of nodes, any
quorum sets, any number of values, entries and rounds, any bounds.

| Theorem | Module | States |
|---|---|---|
| `TypeCorrect` | `BallotProtocolProofs` | `SpecWithRestarts => []TypeOK` |
| `PreparedStayOrdered` | `BallotProtocolProofs` | `SpecWithRestarts => []PreparedOrder` |
| `PeersAreTold` | `BallotStepProofs` | `SpecWithRestarts => []PeersKnowState` |
| `StatementsOnlyGrow` | `BallotStepProofs` | `SpecWithRestarts => EmitsOnlyNewer` |
| `CommitmentIsKept` | `BallotStepProofs` | `Spec => CommitmentKept` |
| `CommitsAreProtected` | `BallotSafetyProofs` | `QuorumIntersection => (SpecWithRestarts => []CommitProtected)` |
| `NodesAgree` | `BallotSafetyProofs` | `QuorumIntersection => (SpecWithRestarts => []Agreement)` |
| `CandidatesStayBacked` | `NodeProofs` | `NominationSpec => []CandidatesBacked` |
| `NominationFeedsBallots` | `NodeProofs` | `NominationSpec => FeedsBallotProtocol` |
| `ClosedLedgersAreTheNetworks` | `NodeProofs` | `CatchupSpec => []LclOnChain` |
| `InSyncMeansCurrent` | `NodeProofs` | `CatchupSpec => []SyncedMeansCurrent` |
| `RoundsSucceed` | `NodeProofs` | `CatchupSpec => HonestRoundsSucceed` |
| `DeltasAreExact` | `LedgerProofs` | `DeltaSpec => []DeltaIsExact` |
| `CacheStaysCurrent` | `LedgerProofs` | `DeltaSpec => []CacheIsCurrent` |
| `NetworkListAgrees` | `LedgerProofs` | `StoreSpec => []` (a key has a live entry in `bs.network` iff it is in the database) |
| `RestartedListAgrees` | `LedgerProofs` | `MergesComplete => (StoreSpec => []ListAgreesWithDatabase)` |
| `RestartedListIsTheSame` | `LedgerProofs` | `MergesComplete => (StoreSpec => []RestartKeepsList)` |
| `StoredStateStaysOnDisk` | `LedgerProofs` | `ManagerSpec => []StoredBucketsOnDisk` |
| `ArchiveStaysComplete` | `LedgerProofs` | `ManagerSpec => []ArchiveComplete` |

### Ballot protocol

Assumptions: those of BallotProtocol on its constants (`ValueAssumption`,
`CounterAssumption`, `RecursionAssumption`, `BumpAssumption`, `HearsAssumption`,
`ValidateAssumption`). The first five theorems ask nothing of the quorum sets. The two
safety theorems have the hypothesis `QuorumIntersection`: any two sets that contain a
slice of each member, and a slice of some node, have a node in common. Without it SCP
promises nothing, and nothing in the code enforces it: it is a matter of how operators
choose their quorum sets. All nodes follow the code; SCP's claim about nodes that do not
(v-blocking sets of faulty nodes) is not stated here. MCBallot evaluates the hypothesis
for the instances of every ballot run. That the empty set is v-blocking for nobody,
which the proof of agreement needs as well, is a lemma about `isVBlocking`.

The proofs are layered.
1. `BallotProtocolProofs`: types and the order of p and p'. Neither is inductive. A restart
   sets p and p' from the saved statement, so that statement has to have the order; it was
   made of the node's state some nested calls earlier and waited in a frame of the stack.
   `Inv` therefore says of every record (`SlotOK`) that it has its type and that the order
   holds in the record, in both saved statements and in the hint of every frame of the
   node itself. There is one `...Keeps` lemma per method of the class, in the order of the
   call graph.
2. `BallotFacts` and `BallotHistoryProofs`: the history of one node. `Made(s)` are all
   statements a node made, sent or still in a frame of its stack. `HistoryOK` orders them:
   each follows from the one before (`Follows`: newer in the order of `isNewerStatement`,
   what was voted to commit stays voted unless it was aborted, what was accepted stays
   accepted), and the last one describes the state unless an assertion failed; what is not
   yet recorded or sent will be by the frames of the stack: the innermost call records the
   latest statement when it returns, the outermost sends it. `CoreStep` lists what one method may do to (phase, b, p, p', c, h).
3. `BallotStepProofs`: every method makes a `CoreStep`, every event keeps `HistoryInv`
   (`Inv` and `HistoryOK` of every node). `PeersAreTold`, `StatementsOnlyGrow` and
   `CommitmentIsKept` follow.
4. `BallotAgreementProofs` leaves the code behind: it is about the states S of all nodes.
   Everything a node accepted as prepared is `Supported`: for each commit it is against
   there is a quorum that does not and will not vote for that commit (`AbortQuorum`), or a
   protected commit of its own value in between. Everything accepted as committed is
   `Protected`: a quorum voted for it, nothing against it is accepted, and every commit
   below it with another value is aborted by a quorum. An abort quorum and a commit quorum
   cannot both exist because they share a node. Restarts make this delicate: a node forgets
   what it had made and not sent. Each fact is therefore relative to a set V of nodes whose
   unsent statements it may use: V = {n} for what n holds in memory, V = {} for what was
   sent.
5. `BallotSafetyProofs`: `SafetyInv` (`HistoryInv`, `NetOK`: nodes know only what was sent,
   `Good`: the above) is inductive.

### Nomination

Assumptions: `ConstantTypes`, `PriorityAssumption`, `HashValueAssumption` (hashes of 64
bits are taken to be distinct, as the model does throughout) and
`CandidateStepsAssumption`: the steps that the ballot protocol is prepared for contain
those that a growing set of candidates causes. `waiting` evaluates all of them.

`Local(s)` holds of one node in one life: what it sent, and what the frames of its stack
will send, it accepts (`SaidOK`, `StackOK`); a frame that is to combine has candidates;
every candidate is backed by a quorum of the statements it has recorded; the composite is
that of some subset of the candidates. It is proved function by function, along the calls
of `processEnvelope` and `nominate`. `NominationInv` adds that what a node recorded of
another one was sent by it. `CandidatesStayBacked` needs all of it: the quorum that
`federatedRatify` saw consisted of statements, the nodes that sent them may since have
restarted, and they still accept what they sent because the last statement sent contains
all that was sent earlier. In `NominationFeedsBallots` the composite is compared with that
of a subset, as nested emissions find candidates before the outer call combines.

### Ledger entries

No assumptions. `DeltaInv` says that there is a chain of databases, one below each delta
of the stack, such that each delta is exactly the difference between its two
(`Exact(delta, before, after)`, for every key: new, modified, deleted or untouched, with
the value it has), the first is the database at the start of the ledger and the last is
the present one; while a transaction is applied the second and third are the savepoint.
The lemmas `addEntryExact`, `deleteEntryExact`, `modEntryExact` carry a delta from one
database to the next, `mergeEntriesExact` composes two of them, and a rollback drops the
last. None of the `assert`s of the class can fail (`ok`), which is part of `Exact`.
These lemmas, and those of nomination, are the named steps of one theorem each
(`DeltaInvariant`, `NominationCorrect`).

### Buckets

Assumptions: at least two levels (`kNumLevelsAssumption`), and a natural number as the
first ledger (`FirstLedgerAssumption`).

The bucket list (`NetworkInv`): `Lookup` is not inductive, because what a merge drops
depends on levels that change until it is committed. `Sound` says of every level what it
is going to commit: the snap of the level above, over its own curr unless that is about
to spill, where a missing entry is covered by a younger bucket of the list as it is now,
or is a deletion at the last level. A batch keeps this because a bucket only moves to the
next older place (`Dest`), by the schedule of `levelShouldSpill`: a level is prepared
when the one above it spills and commits before that spills again. So a covered entry
stays covered, and what `Lookup` finds changes by the batch alone. A restarted node has a
list that differs only in which merges are resolved (`Same`). That needs the hypothesis
`MergesComplete` on the constant `ReadySets`: the merges of all levels are done whenever
the node stops. Finding 4 is what happens otherwise; `NetworkListAgrees` does not need it.

Bucket files (`ManagerInv`): the files hold the buckets of the list, the results of its
finished merges and the stored state. The state that `closeLedger` stores may name
results of merges; between storing it and collecting garbage it names no buckets but
those of the list and its finished merges, which the collection spares. A crash in
between leaves the committed state, whose buckets were there already. The archive has the
buckets of a state before the state. Of the publish queue nothing is claimed (finding 5).

### Catchup

Assumptions: `CatchupAssumption` (the frequency is positive, the bounds are numbers).

`NodeOK` ties the last closed ledger, the buffered ledgers and the round together. The
part on chains is `VerifiedTo`: the files verified so far are of one chain with the last
header, which proves nothing about the network until that header is compared with the
network's (`verifyCatchupCandidate`); then all earlier ones are the network's too. The
part on numbers is `Connects`: the range that `makeCatchupRange` computes starts where
the node's ledger, or the buckets of the checkpoint, end, so that the replay meets neither
a hole nor a header it cannot compare. `Buffered`: without a gap the buffer ends at the
network's last ledger. `RoundsSucceed` is an action property and follows from what each
step of a round does in a state with `NodeOK` and an archive of the network's chain.

### Only model-checked

* Liveness: the prover has no rules for fairness and `ENABLED`.
* `NeverFails` of the ballot protocol: it is false in general (finding 1) and holds in the
  networks where two incompatible ballots are never both confirmed at one node.
* What recursive operators and loops over sequences compute: `NormalizeKeepsMeaning`,
  `LoopFindsQuorum`, `SearchDecides`, the crossing of offers, the handlers of Herder. Proofs
  would take induction over data, and modules with recursive operators are out of the
  prover's reach (Herder, QuorumSetUtils, BucketApply, OfferExchange, Operations).
* The other safety properties of section 3: those of TxQueue, Values, Overlay and Work.

## 7. Findings

1. `ballot_hub_assert`: `attemptPreparedConfirmed` walks down from the new h to find c
   without asking that the ballots it passes be compatible with h. In the hub network
   ballots (1, 1) and (1, 2) can both become ratified as prepared at one node before
   it has set h. It then sets c and h with different values and the assertion of
   `checkInvariants` that c is less than and compatible with h fails.
2. `ballot_follower_bump`: the comment in `attemptBump` says that the node moves to
   the smallest counter at which no v-blocking set is ahead. The scan starts at the
   lowest counter heard of and leaves the loop at the first one below the node's own,
   so one peer that has fallen behind keeps the node from following.
3. `herder_shared_item`: `ItemFetcher::stopFetch` stops the timer of a tracker that no
   envelope waits on and keeps the tracker; a later `fetch` of the same item finds it
   and only adds the envelope, so nobody is asked until the slot leaves the window.
   The passing runs keep the transaction set of the insane envelope to itself.
4. `bucket_restart`: `FutureBucket::mKeepDeadEntries` is neither stored nor
   initialized when a merge is read back, and `startMerge` uses it. After a restart in
   the middle of a merge the node may keep or drop deletions other than the rest of
   the network, and then has another bucket list hash. The model chooses the value.
5. `publish_queue`: after a restart the buckets of all queued checkpoints are counted
   once, but published checkpoints are taken off one by one. The first publication
   takes the count of a shared bucket to zero, and the next collection of garbage
   deletes a file that a later queued checkpoint still needs.
6. `extract_value`: `SCPDriver.h` says that `extractValidValue` gives a value "that the
   local node would agree to (fully validated)". `HerderSCPDriver` removes the upgrade
   steps that are not valid on their own and does not look at their order; a value with
   valid steps in the wrong order, or with one step twice, comes back unchanged. The
   node votes to nominate it, and refuses to accept it.

Observations made while modelling, which no run reports as an error because nothing
in the repository says otherwise, or because the code recovers:
* A minimal catchup whose only ledger is the first of a checkpoint is never noticed to
  be complete and ends in "Verification overshot target ledger"
  (`VerifyLedgerChainWork.cpp:226`); `HonestRoundsSucceed` excepts it by name.
* A ledger that is too new for the buffer does not make the round fail, as the log of
  `LedgerManagerImpl.cpp:463` says; the node becomes synced behind the network
  (`SyncedMeansCurrent` excepts it as `gap`) and starts another round at the next ledger.
* A command that could not be started completes as a success (`tryProcesses` in Work).
* A child that used up its retries hides a sibling's fatal failure if it fails first.
* A peer that is evicted for a preferred one leaves the list, but its connection stays
  open. Two nodes that dial each other at the same moment may both refuse.
* Pending transactions of one account may have gaps until the next `trimInvalid`.
* `ManageOfferOpFrame.cpp:379` says of a new offer that the reserve does not allow
  "should never happen at this stage in v9+". For an offer that sells a credit it does,
  since only offers that sell coins were checked before; without the second check
  `ReserveKept` fails.
* A payment of coins that overflows the destination's balance has no result code of its
  own: `PaymentOpFrame` throws "Unexpected error code from pathPayment".
* In `exchangeV3` a taker whose own limit cuts the trade may pay slightly more than the
  price of the offer; only the seller's price is kept.
* A node proposes a value that it finds invalid itself when the last close time is
  already as far ahead of its clock as it tolerates.
* `triggerNextLedger` reads the slot number before `addTxSet`, which may externalize that
  very slot; the node then nominates for a closed slot, to no effect.
* One value that is only maybe valid silences a slot for good (`setFullyValidated`).

## 8. Not modelled

* Of transactions: signatures, thresholds and weights, home domains, the values of data
  entries, the limit of 20 signers, the time of inflation and its limit of winners, and
  the rules of protocol versions before 9. Operations are modelled one per transaction;
  several in one, with their savepoints, are LedgerDelta's, where an operation may do
  anything to entries.
* The whole of a value in the protocols: for them a value is a number and
  `validateValue` a constant table; Values has its contents, for one node. Operations,
  TxQueue and Values are not composed: each sees the others' results as any that are
  possible.
* The format of files: headers, transactions and buckets as XDR and gzip; downloads are
  steps of a round that succeed or fail.
* Of the overlay: MACs and keys, framing of messages, bans and certificates (a refused
  connection), when a further attempt is due (`PeerRecord`), load shedding (a failure),
  address filters of `recvPeers`, `Floodgate::clearBelow`, `PREFERRED_PEERS_ONLY`.
* Of history: several archives, and the choice among them; catchup that an operator
  starts by hand, which is also the only one that does not follow an externalized slot
  and so may find a slot still nominating. Of the bucket list: the skip list in the header.
* Lengths of timeouts; a timer that is set may fire at any time.
* JSON and debugging output, metrics, SQL statements for diagnosis
  (`HerderPersistenceImpl`), the off-line quorum report (`InferredQuorum`), command
  line, HTTP commands, configuration: no state that the protocols read.
* `database/`: the store itself. Where the code relies on it the models keep what was
  saved (the last statement) across a restart.
* `crypto/`: hashes are injective names and a received envelope has a valid signature.
* `util/`, `simulation/`: helpers and the test harness; `lib/`: external.
* Of modelled parts: the limits on the number of cached items, several slots of SCP at
  once inside the protocols, nodes that are not fully validating.

## 9. Plan

To prove next: `OneLinkPerPeer` and `OneProcessPerCommand`; `TxSetsAreSound` without the
order of application; `BuildsValidValues` for any clock and any upgrades.

To model next: signatures and thresholds (`SignatureChecker.cpp`), several operations in
one transaction over the entries of Operations, several archives of history, and
`Floodgate::clearBelow`.
