SPECIFICATION Spec
CHECK_DEADLOCK FALSE
CONSTANTS
    Subject = {"cache", "watchtower", "wallet", "client", "validation", "store",
               "tickets", "codec", "evm"}
    id1 = id1
    id2 = id2
    id3 = id3
    t1 = t1
    t2 = t2
    t3 = t3
    Value = {v1, v2, v3, v4}
    m_max_size = 3
    MaxAdds = 6
    Tx <- MCTx
    UhsId <- MCUhsId
    m_inputs <- MCInputs
    m_uhs_outputs <- MCOutputs
    Seed <- MCSeed
    Attested <- MCTx
    m_k_blks = 2
    m_k_errs = 2
    MaxBlocks = 4
    MaxErrors = 3
    max_keys = 1
    m_seed_value = 2
    Seeds = 2
    Amount = {1, 2}
    MaxOutputs = 2
    MaxCreated = 3
    MaxCrashes = 1
    Reimport = FALSE
    MaxReceived = 1
    Modulus = 3
    OutPoint <- MCOutPoint
    Key = {k1}
    InvalidKey = k0
    MaxInputs = 2
    MaxOutputCount = 2
    MaxIndex = 3
    MaxKills = 2
    MaxTerm = 1
    TicketClient = {tc1, tc2}
    m_range = 2
    fetch_threshold = 2
    MaxGets = 5
    MaxLostFetches = 2
    ByteBase = 14
    ChainId = 6
    OtherChainId = 7
    ua = ua
    ca = ca
    na = na
    pa = pa
    Addr <- MCAddr
    Precompile = {pa}
    StorageKey = {"s"}
    Uint256 = 16
    ContractAddress <- MCContract
    EvmTx <- MCTxs
    EvmQuery <- MCQuery
    BaseGas = 1
    CreationGas = 1
    InitialStore <- MCStore
    MaxDepth = 2
    MaxVmSteps = 3
INVARIANTS
    EvictsOldest
    WatchtowerSound
    WalletSound
    ClientSound
    ValidationSound
    StoreSound
    TicketsSound
    RoundTrip
    UpdatesAreLocked
    NoValueCreated
PROPERTIES
    SettledIsNotRejected
