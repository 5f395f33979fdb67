CONSTANTS
    n1 = n1
    n2 = n2
    n3 = n3
    Node <- Trio
    MaxValue = 2
    QSetOf <- FollowQSet
    Validator <- Pair
    ValidateValue <- TrioValid
    UINT32_MAX = 5
    MAX_ADVANCE_SLOT_RECURSION = 50
    CandidateSteps <- FollowSame
    Hears <- TrioHears
    BumpLimit <- FollowBumps
SPECIFICATION Spec
SYMMETRY FollowSymmetry
INVARIANTS
    NotBehindVBlocking
\* A slot that is decided, or has used up its bumps, may rest.
CHECK_DEADLOCK FALSE
