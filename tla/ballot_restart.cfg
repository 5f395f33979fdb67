CONSTANTS
    n1 = n1
    n2 = n2
    n3 = n3
    Node <- Pair
    MaxValue = 2
    QSetOf <- PairQSet
    Validator <- Pair
    ValidateValue <- PairValid
    UINT32_MAX = 5
    MAX_ADVANCE_SLOT_RECURSION = 50
    CandidateSteps <- PairSame
    Hears <- PairHears
    BumpLimit <- PairBumps
SPECIFICATION SpecWithRestarts
SYMMETRY PairSymmetry
INVARIANTS
    NeverFails
    PreparedOrder
PROPERTIES
    EmitsOnlyNewer
    CommitmentKept
\* A slot that is decided, or has used up its bumps, may rest.
CHECK_DEADLOCK FALSE
