SPECIFICATION Spec
CHECK_DEADLOCK FALSE
SYMMETRY DtxSymmetry
CONSTANTS
    a = a
    b = b
    c = c
    g = g
    f = f
    t1 = t1
    t2 = t2
    t3 = t3
    s1 = s1
    s2 = s2
    Shard = {s1, s2}
    Dtx = {d1, d2, d3}
    BatchSize = 1
    ConflictFree = FALSE
    MaxFailovers = 0
    LateRequests = FALSE
    Tx <- MCTx
    UhsId <- MCUhsId
    m_inputs <- MCInputs
    m_uhs_outputs <- MCOutputs
    HomeShard <- MCHomeShard
    TxShard <- MCTxShard
    Seed <- MCSeed
    Attested <- MCTx
INVARIANTS
    NoDoubleSpend
