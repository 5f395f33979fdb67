CONSTANTS
    p1 = p1
    p2 = p2
    q0 = q0
    q1 = q1
    bad = bad
    t2 = t2
    t3 = t3
    t4 = t4
    none = none
    Item <- WindowItems
    Peer = {p1}
    PeerOrder <- One
    NoPeer = none
    Envelope <- Window
    MaxSlot = 3
    Insane = {bad}
    OwnQSet = q0
    OwnTxSet <- Own
    Holds <- OneHolds
    MAX_SLOTS_TO_REMEMBER = 1
    LEDGER_VALIDITY_BRACKET = 100
    Tx <- Txs
    Fragile <- TxsAtRisk
    Balances = {3, 4}
    Reserve = 1
    BaseFees = {1, 2}
    MaxTxSetSizes = {2}
    OverlayNode = {1, 2, 3}
    MaxLinks = 3
    Scenario <- Scenarios
    Preferred <- Preferring
    Refused <- Refusing
    TARGET_PEER_CONNECTIONS = 2
    MAX_PEER_CONNECTIONS = 2
    Flooded = {7}
    Native = "X"
    Issuer <- Issuers
    INT64_MAX = 60
    Account = {"I", "A", "B"}
    Signers = {"key"}
    DataNames = {"name"}
    Markets <- Exchanges
    Offering = {2, 5}
    Asking <- Prices
    Paying = {2, 3}
    Limiting = {0, 7}
    Options <- SomeOptions
    Paths <- PaymentPaths
    Reserves = {1, 2}
    VoteMin = 3
    Rate <- AQuarter
    WinMin <- AFifth
    Fees = {1}
    Ledgers <- SmallLedgers
    TxSet <- SomeTxSets
    Upgrade <- SomeUpgrades
    MaxSteps = 2
    Desired <- Wanted
    UpgradeTimes = {3}
    MAX_TIME_SLIP_SECONDS = 1
    MaxTime = 4
    MaxLedger = 3
    MaxAccepted = 2
SPECIFICATION NetworkSpec
INVARIANTS
    ReceivedStayComplete
    FetchingIsAsked
    TriggerIsNext
    TxSetsAreSound
    OneLinkPerPeer
    ToldMeansKnows
    CoinsConserved
    SubentriesCounted
    OffersHonored
    BuildsValidValues
PROPERTIES
    ReserveKept
    CurrentLedgerAdvances
\* A node that nobody sends anything rests, and bounds are reached.
CHECK_DEADLOCK FALSE
