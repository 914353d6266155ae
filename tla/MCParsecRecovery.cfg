SPECIFICATION FairSpec
CONSTANTS
  NumShards = 2
  Keys = {"f", "k0", "k1"}
  Hash <- MCHash
  Tickets = {1, 2}
  Brokers = {1, 2}
  BrokerOf <- MCBrokerOf
  Values = {0, 1, 2}
  EmptyValue = 0
  Function <- MCFunction
  Contract <- MCShortContracts
  ReadOnly = {}
  Throws = {}
  Faults = {"crash", "outage"}
  MaxFaults = 1
PROPERTIES
    EverythingEnds
