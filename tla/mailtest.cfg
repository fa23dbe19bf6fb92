CONSTANTS
    m0 = m0
    m1 = m1
    m2 = m2
    Machine = {m0, m1, m2}
    Reliabilities = {FALSE, TRUE}
SPECIFICATION FairSpec
INVARIANT
    MailTestInv
PROPERTY
    EverybodyHalts
CHECK_DEADLOCK FALSE
