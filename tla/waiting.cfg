CONSTANTS
    p1 = p1
    p2 = p2
    q0 = q0
    q1 = q1
    bad = bad
    t2 = t2
    t3 = t3
    t4 = t4
    none = none
    Item <- TwiceItems
    Peer = {p1, p2}
    PeerOrder <- Two
    NoPeer = none
    Envelope <- Twice
    MaxSlot = 2
    Insane = {}
    OwnQSet = q0
    OwnTxSet <- Own
    Holds <- TwoHolds
    MAX_SLOTS_TO_REMEMBER = 1
    LEDGER_VALIDITY_BRACKET = 100
    root = root
    check = check
    parent = parent
    cmd1 = cmd1
    cmd2 = cmd2
    lone = lone
    Manager = Manager
    Nobody = Nobody
    Unit <- Units
    ParentOf <- UnitParent
    UnitOrder <- Order
    Phases <- UnitPhases
    Rebuilds = {root}
    Command = {cmd1, cmd2, lone}
    Judge = {check}
    MaxRetries <- Retries
    MAX_CONCURRENT_SUBPROCESSES = 2
    n1 = n1
    n2 = n2
    n3 = n3
    Node <- Trio
    MaxValue = 3
    QSetOf <- TrioQSet
    Validator <- Trio
    ValidateValue <- TrioValid
    ExtractValidValue <- TrioExtract
    CombineCandidates <- Largest
    Proposal <- TrioProposal
    UINT64_MAX = 100
    HashNode <- TrioHash
    Priority <- TrioPriority
    HashValue <- TrioHashValue
    CandidateSteps <- Rising
    Hears <- TrioHears
    MaxRound = 2
    Externalizes <- First
    MaxRestarts <- TrioRestarts
SPECIFICATION WaitSpec
INVARIANTS
    CandidatesBacked
    OneProcessPerCommand
PROPERTIES
    FeedsBallotProtocol
    Converges
    FetchingEnds
    RootsFinish
\* A node that nobody sends anything rests, so does one without work; a slot that is
\* decided, or has used up its rounds, may rest.
CHECK_DEADLOCK FALSE
