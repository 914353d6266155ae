SPECIFICATION FairSpec
CHECK_DEADLOCK FALSE
CONSTANTS
    Subject = {"threads", "feed", "sentinel", "peer", "rpc"}
    t1 = t1
    t2 = t2
    c1 = c1
    c2 = c2
    m_batch_size = 2
    ExecThread = {x1, x2}
    MaxElections = 3
    MaxArrivals = 4
    MayQuit = TRUE
    MaxHeight = 3
    MaxLost = 1
    MaxRestarts = 1
    Modulus = 3
    OutPoint <- MCOutPoint
    Key = {k1}
    InvalidKey = k0
    MaxInputs = 2
    MaxOutputCount = 2
    Others = {s1, s2}
    Self = s0
    Thresholds = {0, 1, 2, 3}
    NumInputs = 2
    MaxDisconnects = 1
    m_shard_data <- MCShardData
    MaxPackets = 3
    MaxBreaks = 2
    Caller = {c1, c2}
    RpcServer = {sv1}
    MaxConnectionBreaks = 1
INVARIANTS
    ThreadsSound
    FeedSafe
    SentinelSound
    NetworkSound
PROPERTIES
    ThreadsLive
    FeedLive
    ExecutionEnds
    NetworkLive
