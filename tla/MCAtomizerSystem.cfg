SPECIFICATION Spec
CHECK_DEADLOCK FALSE
SYMMETRY NodeSymmetry
CONSTANTS
    a = a
    b = b
    c = c
    d = d
    t1 = t1
    t2 = t2
    t3 = t3
    s1 = s1
    s2 = s2
    Shard = {s1, s2}
    Node = {n1, n2}
    MaxFailovers = 1
    MaxRequests = 3
    m_spent_cache_depth = 1
    MaxHeight = 3
    Tx <- MCTx
    UhsId <- MCUhsId
    m_inputs <- MCInputs
    m_uhs_outputs <- MCOutputs
    Seed <- MCSeed
    Attested <- MCTx
    Covers <- MCCovers
INVARIANTS
    SystemSound
    PendingUnspent
    NoBlockDoubleSpend
    ReportedIsSpent
PROPERTIES
    ImplementsAtomizer
    ImplementsUHS
