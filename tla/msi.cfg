SPECIFICATION FairSpec
CONSTANTS
    Fd = {e1}
    None = None
    NVec = 3
INVARIANTS
    RefsBalanced
    HandlersMatch
    TypeOK
PROPERTIES
    SignalsInstalled
    FailureRollsBack
    CallsReturn
