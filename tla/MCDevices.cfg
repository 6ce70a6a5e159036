SPECIFICATION Spec
CONSTANTS
    Threads = {t1, t2}
    Blocks = {k1, k2, k3}
    NBUF = 2
    MaxPinned = 1
    Data = {d1, d2}
    None = None
    Readers = {p1, p2}
    INPUT_BUF = 3
    MaxRead = 2
INVARIANTS ReadsLatest InputKept
PROPERTY RequestsServed
CHECK_DEADLOCK FALSE
