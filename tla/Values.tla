------------------------------- MODULE Values -------------------------------
(***************************************************************************)
(* The values that a node proposes, finds valid and combines: what SCP     *)
(* asks of its driver while a slot is nominated.                           *)
(*                                                                         *)
(* Models the validation and the combination of values in                  *)
(* HerderSCPDriver.cpp, Upgrades.cpp, the proposal of                      *)
(* HerderImpl::triggerNextLedger and the upgrades of closeLedger, for one  *)
(* node.  Which values the others vote for and ratify is up to them;       *)
(* NominationProtocol.tla has the voting.  The hash of a ledger is its     *)
(* number, a transaction set the ledger it builds on, its size and whether *)
(* its transactions are valid there (TxQueue.tla); a value is handed to    *)
(* SCP only when its set has been fetched (Herder.tla).                    *)
(***************************************************************************)
EXTENDS Naturals, FiniteSetsExt, SequencesExt

CONSTANTS TxSet,        \* transaction sets: [prev, size, sound]
          Upgrade,      \* steps that values carry: [type, to]
          MaxSteps,     \* bound: the steps of a value
          Desired,      \* Desired[type]: what the node is configured to want
          UpgradeTimes, \* choices of PREFERRED_UPGRADE_DATETIME
          MAX_TIME_SLIP_SECONDS,
          MaxTime, MaxLedger, MaxAccepted   \* bounds

VARIABLE sv

UpgradeType == DOMAIN Desired
NoValue     == [closeTime |-> 0]
NotTracking == [index |-> 0, closeTime |-> 0]

StellarValue == [txSet : TxSet, closeTime : 1 .. MaxTime,
                 upgrades : SeqOf(Upgrade, MaxSteps)]

(***************************************************************************)
(* Upgrades                                                                *)
(***************************************************************************)
timeForUpgrade(s, time) == s.upgradeTime <= time

isValid(s, closeTime, u) ==
    /\ timeForUpgrade(s, closeTime)
    /\ u.type \in UpgradeType
    /\ u.to = Desired[u.type]

\* What the header differs in, by type.
upgradesFor(s) ==
    LET wanted == {t \in UpgradeType : timeForUpgrade(s, s.closeTime)
                                         /\ s.header[t] # Desired[t]}
    IN  [i \in 1 .. Cardinality(wanted) |->
            LET t == SetToSortSeq(wanted, <)[i] IN [type |-> t, to |-> Desired[t]]]

\* The steps of a value, one after the other.
applyTo(header, upgrades) ==
    [t \in UpgradeType |->
        LET last == {i \in DOMAIN upgrades : upgrades[i].type = t}
        IN  IF last = {} THEN header[t] ELSE upgrades[Max(last)].to]

(***************************************************************************)
(* Validation                                                              *)
(***************************************************************************)
isSlotCompatible(s) == s.synced /\ s.slot = s.ledger + 1

txSetValid(s, t) == t.prev = s.ledger /\ t.sound

validateValueHelper(s, v) ==
    LET compat == isSlotCompatible(s)
        lastCloseTime == IF compat THEN s.closeTime ELSE s.tracking.closeTime
    IN  CASE ~compat /\ s.tracking = NotTracking      -> "kMaybeValidValue"
          [] ~compat /\ s.tracking # NotTracking
                     /\ s.tracking.index + 1 > s.slot -> "kMaybeValidValue"
          [] ~compat /\ s.tracking # NotTracking
                     /\ s.tracking.index + 1 < s.slot -> "kInvalidValue"
          [] OTHER ->
                IF \/ v.closeTime <= lastCloseTime
                   \/ v.closeTime > s.now + MAX_TIME_SLIP_SECONDS
                THEN "kInvalidValue"
                ELSE IF ~compat THEN "kMaybeValidValue"
                ELSE IF txSetValid(s, v.txSet) THEN "kFullyValidatedValue"
                ELSE "kInvalidValue"

validateValue(s, v) ==
    IF /\ \A i \in DOMAIN v.upgrades : isValid(s, v.closeTime, v.upgrades[i])
       /\ \A i \in 2 .. Len(v.upgrades) : v.upgrades[i - 1].type < v.upgrades[i].type
    THEN validateValueHelper(s, v)
    ELSE "kInvalidValue"

\* The value without the steps that the node does not like.
extractValidValue(s, v) ==
    IF validateValueHelper(s, v) = "kFullyValidatedValue"
    THEN [v EXCEPT !.upgrades =
            SelectSeq(@, LAMBDA u : isValid(s, v.closeTime, u))]
    ELSE NoValue

(***************************************************************************)
(* Combination.  best is the largest set that builds on the last closed    *)
(* ledger; hashes decide between sets of one size.                         *)
(***************************************************************************)
trimTxSet(t) == IF t.sound THEN t ELSE [t EXCEPT !.size = 0, !.sound = TRUE]

BestTxSets(s, candidates) ==
    LET sets == {v.txSet : v \in {c \in candidates : c.txSet.prev = s.ledger}}
    IN  {t \in sets : \A u \in sets : u.size <= t.size}

Steps(candidates) == UNION {Range(v.upgrades) : v \in candidates}

\* For each type that some candidate upgrades, in order, the highest step.
CombinedSteps(candidates) ==
    LET types == SetToSortSeq({u.type : u \in Steps(candidates)}, <)
    IN  [i \in DOMAIN types |->
            [type |-> types[i],
             to |-> Max({u.to : u \in {w \in Steps(candidates) : w.type = types[i]}})]]

\* Wrong: the earliest close time, not the latest.
combineCandidatesEarly(candidates, best) ==
    [txSet |-> trimTxSet(best),
     closeTime |-> Min({v.closeTime : v \in candidates}),
     upgrades |-> CombinedSteps(candidates)]

combineCandidates(candidates, best) ==
    [txSet |-> trimTxSet(best),
     closeTime |-> Max({v.closeTime : v \in candidates}),
     upgrades |-> CombinedSteps(candidates)]

(***************************************************************************)
(* The behaviour                                                           *)
(***************************************************************************)
Forgotten(s) == [s EXCEPT !.accepted = {}, !.candidates = {}, !.composite = NoValue]

ValuesInit ==
    \E header \in [UpgradeType -> {u.to : u \in Upgrade}], time \in UpgradeTimes :
        sv = [now |-> 1, ledger |-> 1, closeTime |-> 1, header |-> header,
              upgradeTime |-> time, synced |-> TRUE,
              tracking |-> [index |-> 1, closeTime |-> 1],
              slot |-> 0, accepted |-> {}, candidates |-> {}, composite |-> NoValue,
              failure |-> FALSE]

Tick == sv.now < MaxTime /\ ~sv.failure /\ sv' = [sv EXCEPT !.now = @ + 1]

\* The value that triggerNextLedger nominates, with the set it has built.
proposal(s, t) ==
    [txSet |-> t, closeTime |-> Max({s.now, s.closeTime + 1}), upgrades |-> upgradesFor(s)]

\* A slot starts to nominate.
StartNomination ==
    /\ sv.synced /\ sv.tracking # NotTracking
    /\ sv.slot # sv.ledger + 1
    /\ ~sv.failure
    /\ sv' = [Forgotten(sv) EXCEPT !.slot = sv.ledger + 1]

\* NominationProtocol::processEnvelope for a value that enough others have
\* accepted or voted for: it is accepted if it is fully valid.
AcceptNominated ==
    \E v \in StellarValue :
        /\ sv.slot > 0 /\ ~sv.failure
        /\ Cardinality(sv.accepted \cup {v}) <= MaxAccepted
        /\ validateValue(sv, v) = "kFullyValidatedValue"
        /\ sv' = [sv EXCEPT !.accepted = @ \cup {v}]

\* The same for accepted values that a quorum has accepted: they become
\* candidates and are combined.  Without a set to start from
\* combineCandidates dereferences a null pointer.
RatifyNominated ==
    \E new \in (SUBSET (sv.accepted \ sv.candidates)) \ {{}} :
        LET candidates == sv.candidates \cup new
            best       == BestTxSets(sv, candidates)
        IN  /\ ~sv.failure
            /\ \E composite \in IF best = {} THEN {NoValue}
                                ELSE {combineCandidates(candidates, t) : t \in best} :
                  sv' = [sv EXCEPT !.candidates = candidates, !.composite = composite,
                                   !.failure = composite = NoValue]

\* s after the ledger that closes with v.
closed(s, v) ==
    [s EXCEPT !.ledger = @ + 1, !.closeTime = v.closeTime,
              !.header = applyTo(@, v.upgrades)]

\* valueExternalized and closeLedger.  The nodes agree on a value that is
\* newer than the last one; this node need not have found it valid.  Of its
\* slots only the one triggered last is followed.
ValueClosed ==
    \E v \in StellarValue :
        /\ sv.synced /\ sv.ledger < MaxLedger /\ ~sv.failure
        /\ v.txSet.prev = sv.ledger /\ v.closeTime > sv.closeTime
        /\ sv' = [closed(Forgotten(sv), v)
                    EXCEPT !.slot = 0,
                           !.tracking = [index |-> sv.ledger + 1, closeTime |-> v.closeTime]]

\* valueExternalized for a slot after the next ledger, which the node has
\* missed: it stops to nominate (stopNomination; statements for its slot are
\* only recorded from here on) and starts to catch up with both.
MissedLedger ==
    /\ sv.synced /\ sv.ledger + 2 <= MaxLedger /\ sv.closeTime + 2 <= MaxTime
    /\ ~sv.failure
    /\ sv' = [Forgotten(sv) EXCEPT !.slot = 0, !.synced = FALSE,
                                   !.tracking = [index |-> sv.ledger + 2,
                                                 closeTime |-> sv.closeTime + 2]]

CaughtUp ==
    /\ ~sv.synced /\ ~sv.failure
    /\ \E upgrades \in SeqOf(Upgrade, MaxSteps) :
          sv' = [sv EXCEPT !.synced = TRUE, !.ledger = @ + 2, !.closeTime = @ + 2,
                           !.header = applyTo(@, upgrades)]

\* Consensus is stuck; herderOutOfSync forgets what was tracked.
LostSync ==
    /\ sv.tracking # NotTracking /\ ~sv.failure
    /\ sv' = [sv EXCEPT !.tracking = NotTracking]

ValuesNext == \/ Tick \/ StartNomination \/ AcceptNominated \/ RatifyNominated
              \/ ValueClosed \/ MissedLedger \/ CaughtUp \/ LostSync

ValuesSpec == ValuesInit /\ [][ValuesNext]_sv

(***************************************************************************)
(* Properties                                                              *)
(***************************************************************************)

\* A node stands by what it builds.  combineCandidates always finds a set to
\* start from, however ledgers are closed, missed and caught up with under a
\* slot that nominates.  While a slot follows the last closed ledger, the
\* composite that combineCandidates makes of candidates the node has accepted
\* one by one, at different times, passes its own validateValue, which its
\* ballot protocol asks for before it votes; and so does what
\* triggerNextLedger would propose, unless the last close time is already as
\* far ahead of the clock as the node tolerates.
BuildsValidValues ==
    /\ ~sv.failure
    /\ isSlotCompatible(sv) =>
        /\ sv.composite # NoValue
              => validateValue(sv, sv.composite) = "kFullyValidatedValue"
        /\ sv.closeTime < sv.now + MAX_TIME_SLIP_SECONDS
              => \A t \in TxSet : txSetValid(sv, t) =>
                    validateValue(sv, proposal(sv, t)) = "kFullyValidatedValue"

\* What extractValidValue makes of a value that the node does not accept as
\* it is, is nothing, or one "that the local node would agree to (fully
\* validated)", as SCPDriver.h says.
ExtractsValidValues ==
    \A v \in StellarValue :
        LET w == extractValidValue(sv, v)
        IN  w # NoValue => validateValue(sv, w) = "kFullyValidatedValue"
=============================================================================
