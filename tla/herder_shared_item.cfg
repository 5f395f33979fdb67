CONSTANTS
    p1 = p1
    p2 = p2
    q0 = q0
    q1 = q1
    bad = bad
    t2 = t2
    t3 = t3
    t4 = t4
    none = none
    Item <- TaintedItems
    Peer = {p1}
    PeerOrder <- One
    NoPeer = none
    Envelope <- Tainted
    MaxSlot = 3
    Insane = {bad}
    OwnQSet = q0
    OwnTxSet <- Own
    Holds <- OneHolds
    MAX_SLOTS_TO_REMEMBER = 1
    LEDGER_VALIDITY_BRACKET = 100
SPECIFICATION Spec
INVARIANTS
    FetchingIsAsked
\* A node that nobody sends anything rests.
CHECK_DEADLOCK FALSE
