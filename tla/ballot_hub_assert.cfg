CONSTANTS
    n1 = n1
    n2 = n2
    n3 = n3
    Node <- Trio
    MaxValue = 2
    QSetOf <- HubQSet
    Validator <- Trio
    ValidateValue <- TrioValid
    UINT32_MAX = 5
    MAX_ADVANCE_SLOT_RECURSION = 50
    CandidateSteps <- HubRising
    Hears <- HubHears
    BumpLimit <- HubBumps
SPECIFICATION SpecAtOnce
INVARIANTS
    NoAssertionFails
\* A slot that is decided, or has used up its bumps, may rest.
CHECK_DEADLOCK FALSE
