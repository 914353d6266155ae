SPECIFICATION Spec
CONSTANTS
  NumShards = 2
  Keys = {"k0", "k1"}
  Hash <- MCHash
  Tickets = {1, 2, 3}
  Brokers = {1, 2, 3}
  BrokerOf <- MCBrokerOf
  Values = {0, 1, 2, 3}
  EmptyValue = 0
  Function <- MCNoFunction
  Contract <- MCMixedContracts
  ReadOnly = {3}
  Throws = {2}
  Faults = {}
  MaxFaults = 0
INVARIANTS
    LockExclusion
    WaitsForOlder
    ProtocolSound
PROPERTIES
    Implements
