SPECIFICATION Spec
CONSTANTS
  NumShards = 2
  Keys = {"k0", "k1"}
  Hash <- MCHash
  Tickets = {1, 2}
  Brokers = {1, 2}
  BrokerOf <- MCBrokerOf
  Values = {0, 1, 2}
  EmptyValue = 0
  Function <- MCNoFunction
  Contract <- MCShortContracts
  ReadOnly = {}
  Throws = {}
  Faults = {"crash", "overtake"}
  MaxFaults = 1
CHECK_DEADLOCK FALSE
INVARIANTS
    NoRollbackOfCommitted
