CONSTANTS
    Proc = {p0, p1, p2}
    p0 = p0
    p1 = p1
    p2 = p2
    NULL = NULL
    Machines <- AllSettings

SPECIFICATION Spec
INVARIANTS PagingInv ReadsLastWrite CleanIsInSwap NoDanglingMark
CHECK_DEADLOCK FALSE
