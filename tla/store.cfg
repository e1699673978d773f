SPECIFICATION FairSpec
CONSTANTS
    LocalID = {l1}
    Key = {k1, k2}
    Request = {q1, q2}
    OnlyAdd = {q2}
    Timer = Timer
    None = None
    Failed = Failed
INVARIANTS TypeOK IndexesAgree PromisesKept ServedIsStored
PROPERTY DetailsArrive
CHECK_DEADLOCK FALSE
