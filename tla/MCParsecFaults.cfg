SPECIFICATION Spec
CONSTANTS
  NumShards = 2
  Keys = {"k0", "k1"}
  Hash <- MCHash
  Tickets = {1, 2}
  Brokers = {1, 2}
  BrokerOf <- MCBrokerOf
  Values = {0, 1, 2}
  EmptyValue = 0
  Function <- MCNoFunction
  Contract <- MCOppositeContracts
  ReadOnly = {}
  Throws = {}
  Faults = {"failover", "crash"}
  MaxFaults = 2
CHECK_DEADLOCK FALSE
INVARIANTS
    Serializable
    ShardsClean
    DecisionsKept
